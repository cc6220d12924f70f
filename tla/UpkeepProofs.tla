---------------------------- MODULE UpkeepProofs ----------------------------
(***************************************************************************)
(* The rotation watchdog paces the rotations for every interval, debounce  *)
(* and length of a rotation, and what is recovered is what was backed up.  *)
(***************************************************************************)
EXTENDS UpkeepPart, TLAPS

-----------------------------------------------------------------------------
(* Rotations come neither too often nor too late                           *)

\* When the last rotation was called, or could have been.
Last == IF dLastRot = Dog!LongAgo THEN Dog!LongAgo + 1 ELSE dLastRot

SinceTick == dNow % Interval

DogType ==
    /\ dNow \in Nat /\ dBorn \in Nat /\ dBorn <= dNow
    /\ dLastRot \in Int /\ dLastRot <= dNow /\ (dLastRot = Dog!LongAgo \/ dLastRot >= 0)
    /\ dTick \in BOOLEAN /\ dFaults \in Nat /\ dTouches \in Nat
    /\ dPc \in [Dog!Goroutines -> {"idle", "rotating"}]
    /\ dStarted \in [Dog!Goroutines -> Nat]

\* The last rotation the watchdog began is the one lastRot is the time of.
StartsInv ==
    /\ dStarts \in Seq(Int) /\ Len(dStarts) <= 2
    /\ dStarts # <<>> => dStarts[Len(dStarts)] = dLastRot
    /\ Dog!DebounceHolds

\* A rotation that runs began no later than lastRot, and is not overdue.
BusyInv ==
    \A g \in Dog!Goroutines :
        Dog!Busy(g) => dStarted[g] <= dLastRot /\ dNow - dStarted[g] <= MaxRotate

\* The changes the watchdog's own rotations left wait for no time to pass.
OwnInv ==
    dTouches = 0 => ~Dog!Busy("fs") /\ (dEvents # <<>> => dNow - dLastRot <= MaxRotate)

\* Up to the last tick that was taken, the last rotation was not long ago; a
\* tick waits because it has just come, or because the scheduler is rotating.
TickInv ==
    IF dTick
    THEN \/ dNow - Last <= MaxRotate
         \/ SinceTick = 0 /\ dNow - Last < Interval + MinDebounce
    ELSE dNow - SinceTick - Last < MinDebounce

\* While no rotation fails, the last one has made a new key or still runs, and
\* the key was not too old when it began.
AgeInv ==
    dFaults = 0 =>
        \/ dBorn >= Last
        \/ \E g \in Dog!Goroutines :
             Dog!Busy(g) /\ dStarted[g] = dLastRot
             /\ dLastRot - dBorn < Interval + MinDebounce

DogInv == DogType /\ StartsInv /\ BusyInv /\ OwnInv /\ TickInv /\ AgeInv

\* The time since the last tick.
LEMMA SinceFacts ==
  ASSUME NEW x \in Nat
  PROVE  /\ x % Interval \in 0 .. (Interval - 1)
         /\ (x + 1) % Interval # 0 => (x + 1) % Interval = (x % Interval) + 1
         /\ (x + 1) % Interval = 0 => x % Interval = Interval - 1
<1> DEFINE d == Interval
           q == x \div d
           r == x % d
           v == (x + 1) \div d
           w == (x + 1) % d
<1>0. d \in Nat /\ d > 0
  BY DogAssumption
<1> HIDE DEF d
<1>1. /\ q \in Int /\ r \in 0 .. (d - 1) /\ x = d * q + r
      /\ v \in Int /\ w \in 0 .. (d - 1) /\ x + 1 = d * v + w
  BY <1>0
<1> HIDE DEF q, r, v, w
<1>2. d * (v - q) = 1 + r - w
  BY <1>0, <1>1
<1>3. ASSUME NEW k \in Int, k >= 2 PROVE d * k >= 2 * d
  BY <1>0, <1>3
<1>4. ASSUME NEW k \in Int, k <= -1 PROVE d * k <= -d
  BY <1>0, <1>4
<1>5. v - q \in {0, 1}
  <2>1. v - q \in Int
    BY <1>1
  <2>2. 1 + r - w < 2 * d /\ 1 + r - w > -d
    BY <1>0, <1>1
  <2> QED
    BY <1>0, <1>1, <1>2, <1>3, <1>4, <2>1, <2>2
<1>6. (v - q = 0 => w = r + 1) /\ (v - q = 1 => w = r + 1 - d)
  BY <1>0, <1>1, <1>2
<1>7. r \in 0 .. (d - 1) /\ (w # 0 => w = r + 1) /\ (w = 0 => r = d - 1)
  BY <1>0, <1>1, <1>5, <1>6
<1> QED
  BY <1>7 DEF r, w, d

\* The first state satisfies the invariant.
LEMMA DogInit == Dog!Init => DogInv
<1> SUFFICES ASSUME Dog!Init PROVE DogInv
  OBVIOUS
<1>1. DogType
  <2>1. dPc \in [Dog!Goroutines -> {"idle", "rotating"}]
        /\ dStarted \in [Dog!Goroutines -> Nat]
    BY DEF Dog!Init
  <2>2. dTick \in BOOLEAN
    BY Zenon DEF Dog!Init
  <2>3. /\ dNow \in Nat /\ dBorn \in Nat /\ dBorn <= dNow
        /\ dLastRot \in Int /\ dLastRot <= dNow /\ dLastRot = Dog!LongAgo
        /\ dFaults \in Nat /\ dTouches \in Nat
    BY DogAssumption DEF Dog!Init, Dog!LongAgo
  <2> QED
    BY <2>1, <2>2, <2>3 DEF DogType
<1>2. StartsInv
  BY DEF Dog!Init, StartsInv, Dog!DebounceHolds
<1>3. \A g \in Dog!Goroutines : ~Dog!Busy(g)
  BY DEF Dog!Init, Dog!Busy
<1>4. "fs" \in Dog!Goroutines
  BY DEF Dog!Goroutines
<1>5. BusyInv /\ OwnInv
  BY <1>3, <1>4 DEF Dog!Init, BusyInv, OwnInv
<1>6. Last = 1 - MinDebounce /\ SinceTick \in Nat
  BY DogAssumption, SinceFacts DEF Dog!Init, Last, Dog!LongAgo, SinceTick
<1>7. TickInv /\ AgeInv
  BY <1>6, DogAssumption DEF Dog!Init, TickInv, AgeInv
<1> QED
  BY <1>1, <1>2, <1>5, <1>7 DEF DogInv

\* No rotation was called longer ago than Interval and MinDebounce.
LEMMA NotLate == DogInv => dNow - Last < Interval + MinDebounce /\ Last \in Int
/\ Last <= dNow
                           /\ SinceTick \in 0 .. (Interval - 1)
<1> SUFFICES ASSUME DogInv
             PROVE  dNow - Last < Interval + MinDebounce /\ Last \in Int /\ Last <= dNow
                    /\ SinceTick \in 0 .. (Interval - 1)
  OBVIOUS
<1>1. DogType /\ TickInv
  BY DEF DogInv
<1>2. Last \in Int /\ Last <= dNow
  BY <1>1, DogAssumption DEF DogType, Last, Dog!LongAgo
<1>3. SinceTick \in 0 .. (Interval - 1)
  BY <1>1, SinceFacts DEF DogType, SinceTick
<1> HIDE DEF Last
<1> QED
  BY <1>1, <1>2, <1>3, DogAssumption DEF DogType, TickInv

\* What trigger does: nothing, or the rotation of one goroutine begins.
LEMMA TriggerKeeps ==
  ASSUME DogInv, NEW g \in Dog!Goroutines, ~Dog!Busy(g), Dog!Trigger(g),
         dNow' = dNow, dBorn' = dBorn, dFaults' = dFaults, dTouches' = dTouches
  PROVE  /\ dLastRot' \in Int /\ dLastRot' <= dNow'
         /\ (dLastRot' = Dog!LongAgo \/ dLastRot' >= 0)
         /\ dPc' \in [Dog!Goroutines -> {"idle", "rotating"}]
         /\ dStarted' \in [Dog!Goroutines -> Nat]
         /\ StartsInv' /\ BusyInv' /\ AgeInv'
         /\ dLastRot' = dLastRot \/ dLastRot' = dNow
         /\ dNow - dLastRot' < MinDebounce
         /\ \A h \in Dog!Goroutines \ {g} : Dog!Busy(h)' = Dog!Busy(h)
         /\ dNow - dLastRot < MinDebounce => Dog!Busy(g)' = Dog!Busy(g)
<1>0. DogType /\ StartsInv /\ BusyInv /\ AgeInv /\ dNow \in Nat /\ dLastRot \in Int
  BY DEF DogInv, DogType
<1>1. CASE Dog!Debounced
  <2>1. UNCHANGED <<dLastRot, dPc, dStarted, dStarts>> /\ dNow - dLastRot < MinDebounce
    BY <1>1 DEF Dog!Trigger, Dog!Debounced
  <2>2. StartsInv' /\ BusyInv' /\ \A h \in Dog!Goroutines : Dog!Busy(h)' = Dog!Busy(h)
    BY <1>0, <2>1 DEF StartsInv, Dog!DebounceHolds, BusyInv, Dog!Busy
  <2>3. AgeInv'
    BY <1>0, <2>1 DEF AgeInv, Dog!Busy, Last, Dog!LongAgo
  <2> QED
    BY <1>0, <2>1, <2>2, <2>3 DEF DogType
<1>2. CASE ~Dog!Debounced
  <2>1. /\ dLastRot' = dNow /\ dNow - dLastRot >= MinDebounce
        /\ dPc' = [dPc EXCEPT ![g] = "rotating"]
        /\ dStarted' = [dStarted EXCEPT ![g] = dNow]
        /\ dStarts' = Dog!LastTwo(dNow)
    BY <1>0, <1>2, DogAssumption DEF Dog!Trigger, Dog!Debounced
  <2>2. /\ dPc' \in [Dog!Goroutines -> {"idle", "rotating"}]
        /\ dStarted' \in [Dog!Goroutines -> Nat]
        /\ dPc'[g] = "rotating" /\ dStarted'[g] = dNow
        /\ \A h \in Dog!Goroutines \ {g} : dPc'[h] = dPc[h] /\ dStarted'[h] = dStarted[h]
    BY <1>0, <2>1 DEF DogType
  <2>3. StartsInv'
    <3>1. CASE Len(dStarts) < 2
      <4>1. dStarts' = Append(dStarts, dNow) /\ dStarts \in Seq(Int)
        BY <1>0, <2>1, <3>1 DEF Dog!LastTwo, StartsInv
      <4>2. /\ dStarts' \in Seq(Int) /\ Len(dStarts') = Len(dStarts) + 1
            /\ Len(dStarts) \in Nat
            /\ dStarts'[Len(dStarts) + 1] = dNow
            /\ \A i \in 1 .. Len(dStarts) : dStarts'[i] = dStarts[i]
        BY <1>0, <4>1
      <4>3. ASSUME NEW i \in 1 .. (Len(dStarts') - 1)
            PROVE  dStarts'[i + 1] - dStarts'[i] >= MinDebounce
        <5>1. i = Len(dStarts) /\ i = 1
          BY <3>1, <4>2
        <5>2. dStarts # <<>>
          BY <4>1, <5>1
        <5>3. dStarts[i] = dLastRot
          BY <1>0, <5>1, <5>2 DEF StartsInv
        <5> QED
          BY <2>1, <4>2, <5>1, <5>3
      <4> QED
        BY <2>1, <3>1, <4>2, <4>3 DEF StartsInv, Dog!DebounceHolds
    <3>2. CASE ~(Len(dStarts) < 2)
      <4>1. dStarts \in Seq(Int) /\ Len(dStarts) = 2 /\ dStarts[2] = dLastRot
        <5>1. dStarts \in Seq(Int) /\ Len(dStarts) = 2
          <6>1. dStarts \in Seq(Int)
            BY <1>0 DEF StartsInv
          <6>2. Len(dStarts) \in Nat
            BY <6>1
          <6>3. Len(dStarts) <= 2
            BY <1>0 DEF StartsInv
          <6>4. \A n \in Nat : ~(n < 2) /\ n <= 2 => n = 2
            OBVIOUS
          <6>5. Len(dStarts) = 2
            BY <3>2, <6>2, <6>3, <6>4, Zenon
          <6> QED
            BY <6>1, <6>5
        <5>2. ASSUME dStarts = <<>> PROVE FALSE
          <6>1. Len(dStarts) = 0
            BY <5>2
          <6> QED
            BY <5>1, <6>1
        <5> QED
          BY <1>0, <5>1, <5>2 DEF StartsInv
      <4>2. dStarts' = <<dLastRot, dNow>>
        BY <2>1, <3>2, <4>1 DEF Dog!LastTwo
      <4> QED
        BY <1>0, <2>1, <4>2 DEF StartsInv, Dog!DebounceHolds
    <3> QED
      BY <3>1, <3>2
  <2>4. BusyInv'
    BY <1>0, <2>1, <2>2, DogAssumption DEF BusyInv, Dog!Busy, DogType
  <2>5. ASSUME dFaults = 0 PROVE dLastRot' - dBorn < Interval + MinDebounce
    <3>1. dBorn >= Last
      <4>1. ASSUME NEW h \in Dog!Goroutines, Dog!Busy(h), dStarted[h] = dLastRot
            PROVE  FALSE
        BY <1>0, <2>1, <4>1, DogAssumption DEF BusyInv
      <4> QED
        BY <1>0, <2>5, <4>1 DEF AgeInv
    <3> QED
      BY <1>0, <2>1, <3>1, NotLate, DogAssumption DEF DogType
  <2>6. AgeInv'
    BY <1>0, <2>1, <2>2, <2>5 DEF AgeInv, Dog!Busy
  <2> QED
    BY <1>0, <2>1, <2>2, <2>3, <2>4, <2>6, DogAssumption DEF Dog!Busy
<1> QED
  BY <1>1, <1>2

\* Every step preserves the invariant.
LEMMA DogNext == DogInv /\ [Dog!Next]_(Dog!vars) => DogInv'
<1> SUFFICES ASSUME DogInv, [Dog!Next]_(Dog!vars) PROVE DogInv'
  OBVIOUS
<1>0. /\ DogType /\ StartsInv /\ BusyInv /\ OwnInv /\ TickInv /\ AgeInv
      /\ dNow \in Nat /\ dLastRot \in Int
  BY DEF DogInv, DogType
<1>g. {"scheduler", "fs", "rate"} = Dog!Goroutines
  BY DEF Dog!Goroutines
<1>l. dNow - Last < Interval + MinDebounce /\ Last \in Int /\ Last <= dNow
      /\ SinceTick \in 0 .. (Interval - 1)
  BY NotLate
<1>1. CASE Dog!Pass
  <2>1. /\ dNow' = dNow + 1 /\ dNow' \in Nat
        /\ dTick' = (dTick \/ dNow' % Interval = 0) /\ dTick' \in BOOLEAN
        /\ dTick => Dog!Busy("scheduler")
        /\ dEvents # <<>> => Dog!Busy("fs")
        /\ \A g \in Dog!Goroutines : Dog!Busy(g) => dNow - dStarted[g] < MaxRotate
        /\ UNCHANGED <<dLastRot, dEvents, dPc, dStarted, dBorn, dStarts, dFaults,
                       dTouches>>
    BY <1>0, <1>1 DEF Dog!Pass
  <2>2. DogType' /\ StartsInv'
    BY <1>0, <2>1 DEF DogType, StartsInv, Dog!DebounceHolds
  <2>3. BusyInv'
    BY <1>0, <2>1, DogAssumption DEF BusyInv, Dog!Busy, DogType
  <2>4. OwnInv'
    BY <1>0, <2>1 DEF OwnInv, Dog!Busy
  <2>5. Last' = Last
    BY <2>1 DEF Last, Dog!LongAgo
  <2>6. AgeInv'
    BY <1>0, <2>1, <2>5 DEF AgeInv, Dog!Busy
  <2>7. TickInv'
    <3>1. CASE dTick
      <4>1. /\ dStarted["scheduler"] \in Nat /\ dStarted["scheduler"] <= dLastRot
            /\ dNow - dStarted["scheduler"] < MaxRotate
        BY <1>0, <1>g, <2>1, <3>1 DEF BusyInv, DogType
      <4>2. Last = dLastRot
        BY <1>0, <4>1, DogAssumption DEF Last, Dog!LongAgo
      <4>3. dNow' - Last' <= MaxRotate
        BY <1>0, <2>1, <2>5, <4>1, <4>2, DogAssumption
      <4> QED
        BY <2>1, <3>1, <4>3, Zenon DEF TickInv
    <3>2. CASE ~dTick /\ dNow' % Interval = 0
      <4>1. SinceTick' = 0 /\ SinceTick = Interval - 1
        BY <1>0, <2>1, <3>2, SinceFacts, Zenon DEF SinceTick
      <4>2. dNow - SinceTick - Last < MinDebounce
        BY <1>0, <3>2 DEF TickInv
      <4>3. dNow' - Last' < Interval + MinDebounce
        BY <1>0, <1>l, <2>1, <2>5, <4>1, <4>2, DogAssumption
      <4> QED
        BY <2>1, <3>2, <4>1, <4>3, Zenon DEF TickInv
    <3>3. CASE ~dTick /\ dNow' % Interval # 0
      <4>1. SinceTick' = SinceTick + 1
        BY <1>0, <2>1, <3>3, SinceFacts DEF SinceTick
      <4>2. dNow - SinceTick - Last < MinDebounce
        BY <1>0, <3>3 DEF TickInv
      <4>3. dNow' - SinceTick' - Last' < MinDebounce
        BY <1>0, <1>l, <2>1, <2>5, <4>1, <4>2, DogAssumption
      <4>4. ~dTick'
        BY <2>1, <3>3, Zenon
      <4> QED
        BY <4>3, <4>4 DEF TickInv
    <3> QED
      BY <3>1, <3>2, <3>3
  <2> QED
    BY <2>2, <2>3, <2>4, <2>6, <2>7 DEF DogInv
<1>2. ASSUME NEW g \in Dog!Goroutines, ~Dog!Busy(g), Dog!Trigger(g),
             UNCHANGED <<dNow, dBorn, dFaults, dTouches>>,
             dTick' \in BOOLEAN, dTick' => dTick, dEvents' # <<>> => dEvents # <<>>,
             g = "fs" => dEvents # <<>>
      PROVE  DogInv'
  <2>1. /\ dLastRot' \in Int /\ dLastRot' <= dNow'
        /\ (dLastRot' = Dog!LongAgo \/ dLastRot' >= 0)
        /\ dPc' \in [Dog!Goroutines -> {"idle", "rotating"}]
        /\ dStarted' \in [Dog!Goroutines -> Nat]
        /\ StartsInv' /\ BusyInv' /\ AgeInv'
        /\ dLastRot' = dLastRot \/ dLastRot' = dNow
        /\ dNow - dLastRot' < MinDebounce
        /\ \A h \in Dog!Goroutines \ {g} : Dog!Busy(h)' = Dog!Busy(h)
        /\ dNow - dLastRot < MinDebounce => Dog!Busy(g)' = Dog!Busy(g)
    BY <1>2, TriggerKeeps
  <2>2. DogType'
    BY <1>0, <1>2, <2>1, Zenon DEF DogType, Dog!LongAgo
  <2>3. OwnInv'
    <3> SUFFICES ASSUME dTouches = 0
                 PROVE  ~Dog!Busy("fs")'
                        /\ (dEvents' # <<>> => dNow' - dLastRot' <= MaxRotate)
      BY <1>2 DEF OwnInv
    <3>1. ~Dog!Busy("fs") /\ (dEvents # <<>> => dNow - dLastRot <= MaxRotate)
      BY <1>0 DEF OwnInv
    <3>2. ~Dog!Busy("fs")'
      <4>1. CASE g = "fs"
        BY <1>0, <1>2, <2>1, <3>1, <4>1, DogAssumption
      <4>2. CASE g # "fs"
        BY <1>g, <2>1, <3>1, <4>2
      <4> QED
        BY <4>1, <4>2
    <3>3. dNow - dLastRot <= MaxRotate => dNow' - dLastRot' <= MaxRotate
      <4>1. dNow' = dNow
        BY <1>2
      <4>2. CASE dLastRot' = dNow
        BY <1>0, <4>1, <4>2, DogAssumption
      <4>3. CASE dLastRot' = dLastRot
        BY <4>1, <4>3
      <4> QED
        BY <2>1, <4>2, <4>3
    <3> QED
      BY <1>2, <3>1, <3>2, <3>3
  <2>4. TickInv'
    <3>1. /\ Last' \in Int /\ dLastRot' <= Last' /\ SinceTick' = SinceTick /\ dNow' = dNow
          /\ dLastRot' = dNow => Last' = dNow
          /\ dLastRot' = dLastRot => Last' = Last
      BY <1>0, <1>2, <2>1, DogAssumption DEF Last, Dog!LongAgo, SinceTick
    <3>2. CASE dTick'
      <4>1. \/ dNow' - Last' <= MaxRotate
            \/ SinceTick' = 0 /\ dNow' - Last' < Interval + MinDebounce
        <5>1. CASE dLastRot' = dNow
          BY <1>0, <3>1, <5>1, DogAssumption
        <5>2. CASE dLastRot' = dLastRot
          BY <1>0, <1>2, <3>1, <3>2, <5>2, Zenon DEF TickInv
        <5> QED
          BY <2>1, <5>1, <5>2
      <4> QED
        BY <3>2, <4>1 DEF TickInv
    <3>3. CASE ~dTick'
      <4>1. dNow' - SinceTick' - Last' < MinDebounce
        <5>1. SinceTick \in Int /\ SinceTick >= 0 /\ MinDebounce \in Nat
          BY <1>l, DogAssumption
        <5>2. dLastRot' \in Int /\ dNow - dLastRot' < MinDebounce
          BY <2>1
        <5>3. \A n, k, a, b, m \in Int : k >= 0 /\ a <= b /\ n - a < m => n - k - b < m
          OBVIOUS
        <5>4. /\ dNow \in Int /\ SinceTick \in Int /\ Last' \in Int /\ MinDebounce \in Int
              /\ dLastRot' \in Int
          BY <1>0, <3>1, <5>1, <5>2
        <5>5. dNow - SinceTick - Last' < MinDebounce
          BY <3>1, <5>1, <5>2, <5>3, <5>4, Zenon
        <5> QED
          BY <3>1, <5>5
      <4> QED
        BY <3>3, <4>1 DEF TickInv
    <3> QED
      BY <3>2, <3>3
  <2> QED
    BY <2>1, <2>2, <2>3, <2>4 DEF DogInv
<1>3. CASE Dog!Scheduler
  <2>1. /\ ~Dog!Busy("scheduler") /\ Dog!Trigger("scheduler") /\ dTick' = FALSE
        /\ dEvents' = dEvents
        /\ UNCHANGED <<dNow, dBorn, dFaults, dTouches>> /\ "scheduler" \in Dog!Goroutines
    BY <1>3, <1>g DEF Dog!Scheduler
  <2>2. dTick' \in BOOLEAN /\ ~dTick'
    BY <2>1, Zenon
  <2> QED
    BY <1>2, <2>1, <2>2
<1>4. CASE Dog!HandleEvent
  <2>1. /\ ~Dog!Busy("fs") /\ Dog!Trigger("fs") /\ dTick' = dTick /\ dEvents # <<>>
        /\ UNCHANGED <<dNow, dBorn, dFaults, dTouches>> /\ "fs" \in Dog!Goroutines
    BY <1>4, <1>g DEF Dog!HandleEvent
  <2>2. dTick' \in BOOLEAN
    BY <1>0, <2>1 DEF DogType
  <2> QED
    BY <1>2, <2>1, <2>2
<1>5. ASSUME UNCHANGED <<dNow, dLastRot, dTick, dBorn, dStarts, dFaults, dTouches, dPc,
                         dStarted>>,
             dEvents' # <<>> => dEvents # <<>>
      PROVE  DogInv'
  <2>1. DogType' /\ StartsInv' /\ BusyInv' /\ OwnInv'
    BY <1>0, <1>5, Zenon DEF DogType, StartsInv, Dog!DebounceHolds, BusyInv, OwnInv, Dog!Busy
  <2>2. Last' = Last /\ SinceTick' = SinceTick
    BY <1>5 DEF Last, Dog!LongAgo, SinceTick
  <2>3. TickInv' /\ AgeInv'
    BY <1>0, <1>5, <2>2, Zenon DEF TickInv, AgeInv, Dog!Busy
  <2> QED
    BY <2>1, <2>3 DEF DogInv
<1>6. CASE Dog!RateMonitor
  <2>1. /\ ~Dog!Busy("rate") /\ dTick' = dTick /\ dEvents' = dEvents
        /\ UNCHANGED <<dNow, dBorn, dFaults, dTouches>> /\ "rate" \in Dog!Goroutines
        /\ Dog!Trigger("rate") \/ UNCHANGED <<dLastRot, dPc, dStarted, dStarts>>
    BY <1>6, <1>g DEF Dog!RateMonitor
  <2>2. dTick' \in BOOLEAN
    BY <1>0, <2>1 DEF DogType
  <2>3. CASE Dog!Trigger("rate")
    BY <1>2, <2>1, <2>2, <2>3
  <2>4. CASE UNCHANGED <<dLastRot, dPc, dStarted, dStarts>>
    BY <1>5, <2>1, <2>4
  <2> QED
    BY <2>1, <2>3, <2>4
<1>7. CASE Dog!IgnoreEvent \/ (\E n \in Batches : Dog!ObserveAppend(n))
           \/ UNCHANGED Dog!vars
  <2>1. UNCHANGED <<dNow, dLastRot, dTick, dBorn, dStarts, dFaults, dTouches, dPc,
                    dStarted>>
    BY <1>7, Zenon DEF Dog!IgnoreEvent, Dog!ObserveAppend, Dog!vars
  <2>2. dEvents' # <<>> => dEvents # <<>>
    BY <1>7, Zenon DEF Dog!IgnoreEvent, Dog!ObserveAppend, Dog!vars
  <2> QED
    BY <1>5, <2>1, <2>2
<1>8. CASE Dog!Touch \/ Dog!ManualRotate
  <2>1. /\ dTouches' = dTouches + 1 /\ dBorn' \in {dBorn, dNow}
        /\ UNCHANGED <<dNow, dLastRot, dTick, dPc, dStarted, dStarts, dFaults>>
    BY <1>8 DEF Dog!Touch, Dog!ManualRotate
  <2>2. DogType' /\ StartsInv' /\ BusyInv' /\ OwnInv'
    BY <1>0, <2>1 DEF DogType, StartsInv, Dog!DebounceHolds, BusyInv, OwnInv, Dog!Busy
  <2>3. Last' = Last /\ SinceTick' = SinceTick
    BY <2>1 DEF Last, Dog!LongAgo, SinceTick
  <2>4. TickInv'
    BY <1>0, <2>1, <2>3 DEF TickInv
  <2>5. AgeInv'
    <3>1. CASE dBorn' = dNow
      BY <1>l, <2>1, <2>3, <3>1 DEF AgeInv
    <3>2. CASE dBorn' = dBorn
      BY <1>0, <2>1, <2>3, <3>2, Zenon DEF AgeInv, Dog!Busy
    <3> QED
      BY <2>1, <3>1, <3>2
  <2> QED
    BY <2>2, <2>4, <2>5 DEF DogInv
<1>9. ASSUME NEW g \in Dog!Goroutines, Dog!RotateDone(g) \/ Dog!RotateFails(g)
      PROVE  DogInv'
  <2>1. /\ Dog!Busy(g)
        /\ \/ dBorn' = dNow /\ dFaults' = dFaults
           \/ dBorn' = dBorn /\ dFaults' = dFaults + 1
        /\ dPc' = [dPc EXCEPT ![g] = "idle"]
        /\ dStarted' = [dStarted EXCEPT ![g] = 0]
        /\ UNCHANGED <<dNow, dLastRot, dTick, dStarts, dTouches>>
    BY <1>9, Zenon DEF Dog!RotateDone, Dog!RotateFails
  <2>2. /\ dPc' \in [Dog!Goroutines -> {"idle", "rotating"}]
        /\ dStarted' \in [Dog!Goroutines -> Nat]
        /\ ~Dog!Busy(g)' /\ \A h \in Dog!Goroutines \ {g} : dPc'[h] = dPc[h]
              /\ dStarted'[h] = dStarted[h]
    BY <1>0, <2>1 DEF DogType, Dog!Busy
  <2>3. DogType' /\ StartsInv' /\ BusyInv'
    BY <1>0, <2>1, <2>2 DEF DogType, StartsInv, Dog!DebounceHolds, BusyInv, Dog!Busy
  <2>4. OwnInv'
    <3>1. dNow - dLastRot <= MaxRotate
      BY <1>0, <2>1, DogAssumption DEF BusyInv, DogType
    <3>2. dTouches' = 0 => ~Dog!Busy("fs")'
      BY <1>0, <1>g, <2>1, <2>2 DEF OwnInv, Dog!Busy
    <3> QED
      BY <2>1, <3>1, <3>2 DEF OwnInv
  <2>5. Last' = Last /\ SinceTick' = SinceTick
    BY <2>1 DEF Last, Dog!LongAgo, SinceTick
  <2>6. TickInv'
    BY <1>0, <2>1, <2>5 DEF TickInv
  <2>7. AgeInv'
    BY <1>0, <1>l, <2>1, <2>5 DEF AgeInv, DogType
  <2> QED
    BY <2>3, <2>4, <2>6, <2>7 DEF DogInv
<1> QED
  BY <1>1, <1>3, <1>4, <1>6, <1>7, <1>8, <1>9 DEF Dog!Next

\* The watchdog rotates neither too often nor too late, for every interval,
\* debounce and number of buckets, as long as a rotation takes less than
\* MinDebounce (pkg/watchdog/watchdog.go).
THEOREM DogCorrect == Dog!Spec => []RotationsPaced
<1>1. ASSUME DogInv PROVE Dog!RotationsPaced
  <2>0. DogType /\ StartsInv /\ BusyInv /\ OwnInv /\ AgeInv
    BY <1>1 DEF DogInv
  <2>1. Dog!DebounceHolds
    BY <2>0 DEF StartsInv
  <2>2. ASSUME dFaults = 0 PROVE dNow - dBorn < Interval + MinDebounce + MaxRotate
    <3>1. CASE dBorn >= Last
      BY <1>1, <2>0, <3>1, NotLate, DogAssumption DEF DogType
    <3>2. ASSUME NEW g \in Dog!Goroutines, Dog!Busy(g), dStarted[g] = dLastRot,
                 dLastRot - dBorn < Interval + MinDebounce
          PROVE  dNow - dBorn < Interval + MinDebounce + MaxRotate
      BY <2>0, <3>2, DogAssumption DEF BusyInv, DogType
    <3> QED
      BY <2>0, <2>2, <3>1, <3>2 DEF AgeInv
  <2>3. Dog!NoSelfTrigger
    BY <2>0 DEF OwnInv, Dog!NoSelfTrigger, DogType
  <2> QED
    BY <2>1, <2>2, <2>3 DEF Dog!RotationsPaced, Dog!KeyAgeBounded
<1> QED
  BY <1>1, DogInit, DogNext, PTL DEF Dog!Spec, RotationsPaced

-----------------------------------------------------------------------------
(* Backup and recovery                                                     *)

IsSequence(f) == f \in Seq({f[i] : i \in DOMAIN f})

\* What appending a snapshot to the snapshots gives.
LEMMA AppendFacts ==
  ASSUME NEW f, IsSequence(f), NEW x
  PROVE  /\ IsSequence(Append(f, x))
         /\ DOMAIN f = 1 .. Len(f) /\ Len(f) \in Nat
         /\ Len(Append(f, x)) = Len(f) + 1
         /\ DOMAIN Append(f, x) = 1 .. (Len(f) + 1)
         /\ Append(f, x)[Len(f) + 1] = x
         /\ \A i \in 1 .. Len(f) : Append(f, x)[i] = f[i]
         /\ Append(f, x) # <<>>
<1> DEFINE S == {f[i] : i \in DOMAIN f}
           g == Append(f, x)
<1>1. f \in Seq(S) /\ f \in Seq(S \cup {x})
  BY DEF IsSequence
<1>2. /\ Len(f) \in Nat /\ DOMAIN f = 1 .. Len(f)
      /\ g \in Seq(S \cup {x}) /\ Len(g) = Len(f) + 1 /\ DOMAIN g = 1 .. (Len(f) + 1)
      /\ g[Len(f) + 1] = x /\ \A i \in 1 .. Len(f) : g[i] = f[i]
  BY <1>1
<1>3. g \in Seq({g[i] : i \in DOMAIN g})
  BY <1>2
<1>4. g # <<>>
  BY <1>2
<1> QED
  BY <1>2, <1>3, <1>4 DEF IsSequence

-----------------------------------------------------------------------------
(* A recovered log is the log that was backed up                           *)

\* One identity and epoch of the signing key is not after another.
NotAfter(e, k) == e.root < k.root \/ (e.root = k.root /\ e.epoch <= k.epoch)

Epochs == [root: Nat, epoch: Nat]
Chains == [root: Nat, epochs: Nat]

\* The entries of a database or of a snapshot, whole or not: the versions rise
\* with the index, so that the newer ones have a largest index again.
Stored(f, v) ==
    /\ DOMAIN f \subseteq Nat
    /\ DOMAIN f # {} => \E n \in DOMAIN f : \A m \in DOMAIN f : m <= n
    /\ \A k \in DOMAIN f : f[k].ver \in 1 .. v
    /\ \A j, k \in DOMAIN f : j < k => f[j].ver < f[k].ver

\* n entries from index 0, each of which follows the one before it.
Chained(f, n) ==
    /\ n \in Nat /\ DOMAIN f = 0 .. (n - 1)
    /\ \A i \in DOMAIN f : f[i].prev = IF i = 0 THEN 0 ELSE f[i - 1].made

\* The checkpoints of a database or of a snapshot were signed by the key there is
\* or by one before it.
Signed(f) == \A n \in DOMAIN f : f[n].epoch \in Epochs /\ NotAfter(f[n].epoch, bKey)

\* The entries hold what a snapshot was made of.
Holds(f, s) == s.size > 0 => f[s.size - 1].made = s.last

SnapshotInv(s) ==
    /\ s.ver \in Nat /\ s.ver > 0 /\ Stored(s.entries, s.ver) /\ Signed(s.ckpts)
    /\ s.full /\ s.good => Chained(s.entries, s.size) /\ Holds(s.entries, s)

RestoredInv ==
    bRestored # 0 =>
        /\ bRestored \in DOMAIN bSnapshots /\ bVer > 0
        /\ LET s == bSnapshots[bRestored] IN
           s.full /\ s.good =>
               \E n \in Nat : Chained(bEntries, n) /\ n >= s.size /\ Holds(bEntries, s)

RecoveryInv ==
    /\ bUp \in BOOLEAN /\ bVer \in Nat /\ bKey \in Epochs /\ bChain \in Chains
    /\ bExports \in Seq(Chains) /\ IsSequence(bSnapshots)
    /\ Stored(bEntries, bVer) /\ Signed(bCkpts)
    /\ \A i \in DOMAIN bSnapshots : SnapshotInv(bSnapshots[i])
    /\ RestoredInv
    /\ bUp => Backup!LoadsActive /\ \E n \in Nat : Chained(bEntries, n)

\* The largest index.
LEMMA LargestFacts ==
  ASSUME NEW f, NEW v, Stored(f, v), DOMAIN f # {}
  PROVE  /\ Backup!Largest(f) \in DOMAIN f /\ Backup!Largest(f) \in Nat
         /\ \A m \in DOMAIN f : m <= Backup!Largest(f)
  BY Zenon DEF Stored, Backup!Largest

\* The size of a log whose entries run from 0.
LEMMA SizeFacts ==
  ASSUME NEW n, Chained(bEntries, n), Stored(bEntries, bVer)
  PROVE  Backup!Size = n /\ Backup!Replays
<1>1. CASE n = 0
  BY <1>1 DEF Chained, Backup!Size, Backup!Replays
<1>2. CASE n > 0
  <2>1. n - 1 \in DOMAIN bEntries /\ DOMAIN bEntries # {} /\ n \in Nat
    BY <1>2 DEF Chained
  <2>2. /\ Backup!Largest(bEntries) \in DOMAIN bEntries
        /\ Backup!Largest(bEntries) \in Nat
        /\ \A m \in DOMAIN bEntries : m <= Backup!Largest(bEntries)
    BY <2>1, LargestFacts
  <2>3. Backup!Largest(bEntries) = n - 1
    <3>1. Backup!Largest(bEntries) \in 0 .. (n - 1) /\ n - 1 <= Backup!Largest(bEntries)
      BY <2>1, <2>2, Zenon DEF Chained
    <3> HIDE DEF Backup!Largest
    <3> QED
      BY <2>1, <2>2, <3>1
  <2> QED
    BY <2>1, <2>3 DEF Chained, Backup!Size, Backup!Replays
<1> QED
  BY <1>1, <1>2 DEF Chained

\* A database that replays is a chain of its size.
LEMMA ReplaysFacts ==
  ASSUME Backup!Replays, Stored(bEntries, bVer)
  PROVE  Chained(bEntries, Backup!Size)
<1>1. Backup!Size \in Nat
  <2>1. CASE DOMAIN bEntries = {}
    BY <2>1 DEF Backup!Size
  <2>2. CASE DOMAIN bEntries # {}
    <3>1. Backup!Largest(bEntries) \in Nat
      BY <2>2, LargestFacts
    <3>2. Backup!Size = Backup!Largest(bEntries) + 1
      BY <2>2 DEF Backup!Size
    <3> QED
      BY <3>1, <3>2
  <2> QED
    BY <2>1, <2>2, Zenon
<1> QED
  BY <1>1, Zenon DEF Backup!Replays, Chained

\* Of a database, a backup stream holds the part that is newer, and since the
\* beginning all of it.
LEMMA NewerFacts ==
  ASSUME NEW f, NEW v, Stored(f, v), NEW since \in Nat
  PROVE  /\ Stored(Backup!Newer(f, since), v)
         /\ since = 0 => Backup!Newer(f, since) = [k \in DOMAIN f |-> f[k]]
<1> DEFINE D == {k \in DOMAIN f : f[k].ver > since}
           g == Backup!Newer(f, since)
<1>1. DOMAIN g = D /\ D \subseteq DOMAIN f /\ \A k \in D : g[k] = f[k]
  BY Zenon DEF Backup!Newer
<1> HIDE DEF g
<1>2. ASSUME D # {} PROVE \E n \in D : \A m \in D : m <= n
  <2>1. PICK n \in DOMAIN f : \A m \in DOMAIN f : m <= n
    BY <1>2, Zenon DEF Stored
  <2>2. PICK d \in D : TRUE
    BY <1>2
  <2>3. d = n \/ d < n
    BY <2>1, <2>2 DEF Stored
  <2>4. f[n].ver \in Int /\ f[d].ver \in Int /\ f[d].ver > since
    BY <2>1, <2>2 DEF Stored
  <2>5. f[n].ver > since
    BY <2>1, <2>2, <2>3, <2>4 DEF Stored
  <2> QED
    BY <2>1, <2>5, Zenon
<1>3. Stored(g, v)
  BY <1>1, <1>2, Zenon DEF Stored
<1>4. ASSUME since = 0 PROVE g = [k \in DOMAIN f |-> f[k]]
  <2>1. D = DOMAIN f
    BY <1>4 DEF Stored
  <2> QED
    BY <2>1, Zenon DEF Backup!Newer, g
<1> QED
  BY <1>3, <1>4 DEF g

\* The first state satisfies the invariant.
LEMMA RecoveryInit == Backup!Init => RecoveryInv
<1> SUFFICES ASSUME Backup!Init PROVE RecoveryInv
  OBVIOUS
<1>1. DOMAIN bEntries = {} /\ DOMAIN bCkpts = {} /\ DOMAIN bSnapshots = {}
  BY DEF Backup!Init, Backup!EmptySpace
<1>2. Stored(bEntries, bVer) /\ Signed(bCkpts) /\ Chained(bEntries, 0)
  BY <1>1 DEF Stored, Signed, Chained
<1>3. IsSequence(bSnapshots) /\ bExports \in Seq(Chains)
  BY DEF Backup!Init, IsSequence
<1>4. bKey \in Epochs /\ bChain \in Chains /\ Backup!LoadsActive
  BY DEF Backup!Init, Epochs, Chains, Backup!LoadsActive, Backup!NoChain
<1>5. RestoredInv
  BY Zenon DEF Backup!Init, RestoredInv
<1>6. bUp \in BOOLEAN /\ bVer \in Nat /\ 0 \in Nat
  BY DEF Backup!Init
<1> QED
  BY <1>1, <1>2, <1>3, <1>4, <1>5, <1>6 DEF RecoveryInv

\* A checkpoint stays signed by a key that is not after the one there is.
LEMMA SignedKeeps ==
  ASSUME NEW f, Signed(f), bKey \in Epochs, bKey' \in Epochs, NotAfter(bKey, bKey')
  PROVE  \A n \in DOMAIN f : f[n].epoch \in Epochs /\ NotAfter(f[n].epoch, bKey')
<1> SUFFICES ASSUME NEW n \in DOMAIN f
             PROVE  f[n].epoch \in Epochs /\ NotAfter(f[n].epoch, bKey')
  OBVIOUS
<1> DEFINE e == f[n].epoch
<1>1. e \in Epochs /\ NotAfter(e, bKey)
  BY DEF Signed
<1>2. /\ e.root \in Nat /\ e.epoch \in Nat /\ bKey.root \in Nat /\ bKey.epoch \in Nat
      /\ bKey'.root \in Nat /\ bKey'.epoch \in Nat
  BY <1>1, Zenon DEF Epochs
<1> HIDE DEF e
<1>3. NotAfter(e, bKey')
  BY <1>1, <1>2 DEF NotAfter
<1> QED
  BY <1>1, <1>3 DEF e

\* A step that touches neither the database nor the backups, and moves the key on
\* if at all, keeps what is stored.
LEMMA StoredKeeps ==
  ASSUME RecoveryInv, bKey' \in Epochs, NotAfter(bKey, bKey'),
         UNCHANGED <<bEntries, bCkpts, bVer, bSnapshots, bRestored>>
  PROVE  /\ Stored(bEntries, bVer)' /\ Signed(bCkpts)' /\ IsSequence(bSnapshots)'
         /\ \A i \in DOMAIN bSnapshots' : SnapshotInv(bSnapshots[i])'
         /\ RestoredInv' /\ bVer' \in Nat
<1>0. /\ Stored(bEntries, bVer) /\ Signed(bCkpts) /\ IsSequence(bSnapshots)
      /\ bKey \in Epochs
      /\ \A i \in DOMAIN bSnapshots : SnapshotInv(bSnapshots[i])
      /\ RestoredInv /\ bVer \in Nat
  BY Zenon DEF RecoveryInv
<1>1. Stored(bEntries, bVer)' /\ IsSequence(bSnapshots)' /\ RestoredInv'
  BY <1>0 DEF Stored, IsSequence, RestoredInv, Chained, Holds
<1>2. Signed(bCkpts)'
  BY <1>0, SignedKeeps, Zenon DEF Signed
<1>3. ASSUME NEW i \in DOMAIN bSnapshots PROVE SnapshotInv(bSnapshots[i])'
  <2>1. SnapshotInv(bSnapshots[i])
    BY <1>0
  <2>2. Signed(bSnapshots[i].ckpts)'
    <3>1. Signed(bSnapshots[i].ckpts)
      BY <2>1, Zenon DEF SnapshotInv
    <3> QED
      BY <1>0, <3>1, SignedKeeps, Zenon DEF Signed
  <2> QED
    BY <2>1, <2>2, Zenon DEF SnapshotInv, Stored, Chained, Holds
<1> QED
  BY <1>0, <1>1, <1>2, <1>3, Zenon

\* Every step preserves the invariant.
LEMMA RecoveryNext == RecoveryInv /\ [Backup!Next]_(Backup!vars) => RecoveryInv'
<1> SUFFICES ASSUME RecoveryInv, [Backup!Next]_(Backup!vars) PROVE RecoveryInv'
  OBVIOUS
<1>0. /\ bUp \in BOOLEAN /\ bVer \in Nat /\ bKey \in Epochs /\ bChain \in Chains
      /\ bExports \in Seq(Chains) /\ IsSequence(bSnapshots)
      /\ Stored(bEntries, bVer) /\ Signed(bCkpts)
      /\ \A i \in DOMAIN bSnapshots : SnapshotInv(bSnapshots[i])
      /\ RestoredInv
      /\ bUp => Backup!LoadsActive /\ \E n \in Nat : Chained(bEntries, n)
  BY DEF RecoveryInv
<1>k. /\ bKey.root \in Nat /\ bKey.epoch \in Nat /\ NotAfter(bKey, bKey)
      /\ bChain.root \in Nat /\ bChain.epochs \in Nat
  BY <1>0 DEF Epochs, Chains, NotAfter
<1>1. CASE Backup!AppendCtx
  <2> DEFINE e == [made |-> bTime', prev |-> Backup!Root, ver |-> bVer']
  <2>1. /\ bUp /\ bUp' = bUp /\ bVer' = bVer + 1
        /\ bEntries' = Backup!Put(bEntries, Backup!Size, e)
        /\ UNCHANGED <<bCkpts, bChain, bKey, bSnapshots, bExports, bRestored>>
    BY <1>1, Zenon DEF Backup!AppendCtx, Backup!backups
  <2>2. PICK n \in Nat : Chained(bEntries, n)
    BY <1>0, <2>1, Zenon
  <2>3. Backup!Size = n
    BY <1>0, <2>2, SizeFacts
  <2>4. /\ DOMAIN bEntries = 0 .. (n - 1) /\ DOMAIN bEntries' = 0 .. n
        /\ bEntries'[n].ver = bVer + 1 /\ bEntries'[n].prev = Backup!Root
        /\ \A k \in 0 .. (n - 1) : bEntries'[k] = bEntries[k]
    <3>1. DOMAIN bEntries = 0 .. (n - 1)
      BY <2>2, Zenon DEF Chained
    <3>2. DOMAIN bEntries' = DOMAIN bEntries \cup {n} /\ bEntries'[n] = e
          /\ \A k \in DOMAIN bEntries : k # n => bEntries'[k] = bEntries[k]
      BY <2>1, <2>3, Zenon DEF Backup!Put
    <3>3. (0 .. (n - 1)) \cup {n} = 0 .. n /\ \A k \in 0 .. (n - 1) : k # n
      OBVIOUS
    <3>4. e.ver = bVer + 1 /\ e.prev = Backup!Root
      BY <2>1, Zenon
    <3> HIDE DEF e
    <3> QED
      BY <3>1, <3>2, <3>3, <3>4, Zenon
  <2>5. Backup!Root = IF n = 0 THEN 0 ELSE bEntries[n - 1].made
    BY <2>3 DEF Backup!Root
  <2>6. Chained(bEntries, n + 1)'
    <3>1. ASSUME NEW i \in 0 .. n
          PROVE  bEntries'[i].prev = IF i = 0 THEN 0 ELSE bEntries'[i - 1].made
      <4>1. CASE i = n
        BY <2>4, <2>5, <4>1
      <4>2. CASE i \in 0 .. (n - 1)
        <5>1. bEntries'[i] = bEntries[i] /\ (i # 0 => bEntries'[i - 1] = bEntries[i - 1])
          BY <2>4, <4>2
        <5>2. bEntries[i].prev = IF i = 0 THEN 0 ELSE bEntries[i - 1].made
          BY <2>2, <2>4, <4>2, Zenon DEF Chained
        <5> QED
          BY <5>1, <5>2, Zenon
      <4> QED
        BY <4>1, <4>2
    <3> QED
      BY <2>4, <3>1 DEF Chained
  <2>7. Stored(bEntries, bVer)'
    <3>1. \A k \in 0 .. (n - 1) : bEntries[k].ver \in 1 .. bVer
      BY <1>0, <2>4, Zenon DEF Stored
    <3>2. \A j, k \in 0 .. (n - 1) : j < k => bEntries[j].ver < bEntries[k].ver
      BY <1>0, <2>4, Zenon DEF Stored
    <3>3. \A k \in 0 .. n : bEntries'[k].ver \in 1 .. (bVer + 1)
      BY <1>0, <2>4, <3>1
    <3>4. \A j, k \in 0 .. n : j < k => bEntries'[j].ver < bEntries'[k].ver
      BY <1>0, <2>4, <3>1, <3>2
    <3>5. n \in 0 .. n /\ \A m \in 0 .. n : m <= n
      OBVIOUS
    <3> QED
      BY <2>1, <2>4, <3>3, <3>4, <3>5 DEF Stored
  <2>8. RestoredInv'
    <3> SUFFICES ASSUME bRestored # 0,
                        bSnapshots[bRestored].full /\ bSnapshots[bRestored].good
                 PROVE  \E m \in Nat : /\ Chained(bEntries, m)'
                                      /\ m >= bSnapshots[bRestored].size
                                      /\ Holds(bEntries', bSnapshots[bRestored])
      BY <1>0, <2>1 DEF RestoredInv, Holds
    <3> DEFINE s == bSnapshots[bRestored]
    <3>1. PICK m \in Nat : Chained(bEntries, m) /\ m >= s.size /\ Holds(bEntries, s)
      BY <1>0, Zenon DEF RestoredInv
    <3>2. m = n
      BY <1>0, <2>3, <3>1, SizeFacts, Zenon
    <3>3. SnapshotInv(s)
      BY <1>0, Zenon DEF RestoredInv
    <3>4. s.size \in Nat
      BY <3>3, Zenon DEF SnapshotInv, Chained
    <3>5. Holds(bEntries', s)
      BY <2>4, <3>1, <3>2, <3>4 DEF Holds
    <3> HIDE DEF s
    <3>6. n + 1 \in Nat /\ n + 1 >= s.size
      BY <3>1, <3>2, <3>4
    <3> QED
      BY <2>6, <3>5, <3>6, Zenon DEF s
  <2>9. Signed(bCkpts)' /\ \A i \in DOMAIN bSnapshots' : SnapshotInv(bSnapshots[i])'
    <3>1. UNCHANGED <<bCkpts, bKey, bSnapshots>>
      BY <2>1, Zenon
    <3> QED
      BY <1>0, <3>1, Zenon DEF Signed, SnapshotInv, Stored, Chained, Holds
  <2>10. Backup!LoadsActive' /\ IsSequence(bSnapshots)'
    BY <1>0, <2>1, Zenon DEF Backup!LoadsActive, Backup!NoChain, IsSequence
  <2> QED
    BY <1>0, <2>1, <2>6, <2>7, <2>8, <2>9, <2>10 DEF RecoveryInv
<1>2. CASE Backup!Checkpoint
  <2> DEFINE c == [root |-> Backup!Root, epoch |-> bKey, ver |-> bVer']
  <2>1. /\ bUp /\ bUp' = bUp /\ bVer' = bVer + 1
        /\ bCkpts' = Backup!Put(bCkpts, Backup!Size, c)
        /\ UNCHANGED <<bEntries, bChain, bKey, bSnapshots, bExports, bRestored>>
    BY <1>2, Zenon DEF Backup!Checkpoint, Backup!backups
  <2>2. Stored(bEntries, bVer)'
    <3>1. UNCHANGED bEntries /\ \A i \in 1 .. bVer : i \in 1 .. bVer'
      BY <1>0, <2>1
    <3> QED
      BY <1>0, <3>1, Zenon DEF Stored
  <2>3. RestoredInv'
    <3>1. UNCHANGED <<bEntries, bSnapshots, bRestored>> /\ bVer' > 0
      BY <1>0, <2>1
    <3> QED
      BY <1>0, <3>1, Zenon DEF RestoredInv, Chained, Holds
  <2>4. Signed(bCkpts)'
    <3>1. c.epoch = bKey
      BY Zenon
    <3> HIDE DEF c
    <3>2. \A n \in DOMAIN bCkpts' : bCkpts'[n] = c
          \/ (n \in DOMAIN bCkpts /\ bCkpts'[n] = bCkpts[n])
      BY <2>1 DEF Backup!Put
    <3> QED
      BY <1>0, <1>k, <2>1, <3>1, <3>2, Zenon DEF Signed
  <2>5. \A i \in DOMAIN bSnapshots' : SnapshotInv(bSnapshots[i])'
    <3>1. UNCHANGED <<bKey, bSnapshots>>
      BY <2>1, Zenon
    <3> QED
      BY <1>0, <3>1, Zenon DEF Signed, SnapshotInv, Stored, Chained, Holds
  <2>6. Backup!LoadsActive' /\ IsSequence(bSnapshots)'
        /\ \E n \in Nat : Chained(bEntries, n)'
    BY <1>0, <2>1, Zenon DEF Backup!LoadsActive, Backup!NoChain, IsSequence, Chained
  <2> QED
    BY <1>0, <2>1, <2>2, <2>3, <2>4, <2>5, <2>6 DEF RecoveryInv
<1>3. CASE Backup!Rotate
  <2>1. /\ bUp /\ bUp' = bUp
        /\ bChain' = [bChain EXCEPT !.epochs = @ + 1]
        /\ bKey' = [bKey EXCEPT !.epoch = @ + 1]
        /\ UNCHANGED <<bEntries, bCkpts, bVer, bSnapshots, bExports, bRestored>>
    BY <1>3 DEF Backup!Rotate, Backup!db, Backup!backups
  <2>2. /\ bKey' \in Epochs /\ bKey'.root = bKey.root /\ bKey'.epoch = bKey.epoch + 1
        /\ bChain' \in Chains /\ bChain'.root = bChain.root
        /\ bChain'.epochs = bChain.epochs + 1
    BY <1>0, <2>1 DEF Epochs, Chains
  <2>3. NotAfter(bKey, bKey')
    BY <1>k, <2>2 DEF NotAfter
  <2>4. /\ Stored(bEntries, bVer)' /\ Signed(bCkpts)' /\ IsSequence(bSnapshots)'
        /\ \A i \in DOMAIN bSnapshots' : SnapshotInv(bSnapshots[i])'
        /\ RestoredInv' /\ bVer' \in Nat
    BY <2>1, <2>2, <2>3, StoredKeeps
  <2>5. Backup!LoadsActive'
    <3>1. bKey.root = bChain.root /\ bKey.epoch = bChain.epochs - 1
      BY <1>0, <2>1 DEF Backup!LoadsActive
    <3>2. bKey'.root = bChain'.root /\ bKey'.epoch = bChain'.epochs - 1
          /\ bChain'.epochs # 0
      BY <1>k, <2>2, <3>1
    <3>3. bKey' = [root |-> bKey'.root, epoch |-> bKey'.epoch]
      BY <2>2, Zenon DEF Epochs
    <3> QED
      BY <3>2, <3>3 DEF Backup!LoadsActive, Backup!NoChain
  <2>6. \E n \in Nat : Chained(bEntries, n)'
    BY <1>0, <2>1 DEF Chained
  <2> QED
    BY <1>0, <2>1, <2>2, <2>4, <2>5, <2>6 DEF RecoveryInv
<1>4. CASE Backup!Stop \/ Backup!Start \/ Backup!ExportChain
           \/ (\E i \in DOMAIN bExports : Backup!RestoreChain(i)) \/ UNCHANGED Backup!vars
  <2>1. UNCHANGED <<bEntries, bCkpts, bVer, bKey, bSnapshots,
                    bRestored>> /\ bUp' \in BOOLEAN
    <3>1. CASE Backup!Stop \/ Backup!Start
      BY <3>1, Zenon DEF Backup!Stop, Backup!Start, Backup!db, Backup!backups
    <3>2. CASE Backup!ExportChain
               \/ (\E i \in DOMAIN bExports : Backup!RestoreChain(i))
                     \/ UNCHANGED Backup!vars
      BY <1>0, <3>2, Zenon DEF Backup!ExportChain, Backup!RestoreChain, Backup!db,
                        Backup!backups, Backup!vars
    <3> QED
      BY <1>4, <3>1, <3>2, Zenon
  <2>2. bChain' \in Chains /\ bExports' \in Seq(Chains)
    <3>1. CASE Backup!Stop \/ Backup!Start \/ UNCHANGED Backup!vars
      BY <1>0, <3>1, Zenon DEF Backup!Stop, Backup!Start, Backup!backups, Backup!vars
    <3>2. CASE Backup!ExportChain
      BY <1>0, <3>2 DEF Backup!ExportChain
    <3>3. ASSUME NEW i \in DOMAIN bExports, Backup!RestoreChain(i)
          PROVE  bChain' \in Chains /\ bExports' \in Seq(Chains)
      BY <1>0, <3>3 DEF Backup!RestoreChain, Backup!backups
    <3> QED
      BY <1>4, <3>1, <3>2, <3>3
  <2>3. /\ Stored(bEntries, bVer)' /\ Signed(bCkpts)' /\ IsSequence(bSnapshots)'
        /\ \A i \in DOMAIN bSnapshots' : SnapshotInv(bSnapshots[i])'
        /\ RestoredInv' /\ bVer' \in Nat
    BY <1>0, <1>k, <2>1, StoredKeeps, Zenon
  <2>4. ASSUME bUp' PROVE Backup!LoadsActive' /\ \E n \in Nat : Chained(bEntries, n)'
    <3>1. CASE Backup!Start
      <4>1. Chained(bEntries, Backup!Size) /\ Backup!LoadsActive
            /\ UNCHANGED <<bEntries, bChain, bKey>>
        BY <1>0, <3>1, ReplaysFacts, Zenon DEF Backup!Start, Backup!db
      <4> QED
        BY <4>1, Zenon DEF Chained, Backup!LoadsActive, Backup!NoChain
    <3>2. CASE Backup!Stop
      BY <2>4, <3>2, Zenon DEF Backup!Stop
    <3>3. CASE Backup!ExportChain \/ UNCHANGED Backup!vars
      <4>1. bUp /\ UNCHANGED <<bEntries, bChain, bKey>>
        BY <2>1, <2>4, <3>3, Zenon DEF Backup!ExportChain, Backup!vars
      <4> QED
        BY <1>0, <4>1, Zenon DEF Chained, Backup!LoadsActive, Backup!NoChain
    <3>4. CASE \E i \in DOMAIN bExports : Backup!RestoreChain(i)
      BY <2>4, <3>4 DEF Backup!RestoreChain
    <3> QED
      BY <1>4, <3>1, <3>2, <3>3, <3>4, Zenon
  <2> QED
    BY <1>0, <2>1, <2>2, <2>3, <2>4, Zenon DEF RecoveryInv
<1>5. ASSUME NEW since \in Backup!Sinces, Backup!Snapshot(since) PROVE RecoveryInv'
  <2> DEFINE s == [entries |-> Backup!Newer(bEntries, since),
      ckpts |-> Backup!Newer(bCkpts, since), ver |-> bVer,
                   size |-> Backup!Size, last |-> Backup!Root, full |-> since = 0,
                   good |-> Backup!Replays]
  <2>1. /\ ~bUp /\ bVer > 0 /\ bSnapshots' = Append(bSnapshots, s)
        /\ UNCHANGED <<bUp, bEntries, bCkpts, bVer, bChain, bKey, bExports, bRestored>>
    BY <1>5, Zenon DEF Backup!Snapshot, Backup!db
  <2>2. since \in Nat
    <3>1. bSnapshots # <<>> => bSnapshots[Len(bSnapshots)].ver \in Nat
      <4>1. DOMAIN bSnapshots = 1 .. Len(bSnapshots) /\ Len(bSnapshots) \in Nat
        BY <1>0, AppendFacts, Zenon
      <4>2. bSnapshots # <<>> => Len(bSnapshots) \in DOMAIN bSnapshots
        BY <1>0, <4>1 DEF IsSequence
      <4> QED
        BY <1>0, <4>2, Zenon DEF SnapshotInv
    <3> QED
      BY <3>1 DEF Backup!Sinces
  <2>3. /\ s.entries = Backup!Newer(bEntries, since)
        /\ s.ckpts = Backup!Newer(bCkpts, since) /\ s.ver = bVer
        /\ s.size = Backup!Size /\ s.last = Backup!Root /\ (s.full <=> since = 0)
              /\ (s.good <=> Backup!Replays)
    BY Zenon
  <2> HIDE DEF s
  <2>4. SnapshotInv(s)
    <3>1. Stored(s.entries, bVer)
          /\ (since = 0 => s.entries = [k \in DOMAIN bEntries |-> bEntries[k]])
      BY <1>0, <2>2, <2>3, NewerFacts
    <3>2. Signed(s.ckpts)
      <4>1. /\ DOMAIN s.ckpts \subseteq DOMAIN bCkpts
            /\ \A n \in DOMAIN s.ckpts : s.ckpts[n] = bCkpts[n]
        BY <2>3 DEF Backup!Newer
      <4> QED
        BY <1>0, <4>1, Zenon DEF Signed
    <3>3. ASSUME s.full, s.good PROVE Chained(s.entries, s.size) /\ Holds(s.entries, s)
      <4>1. Chained(bEntries, Backup!Size)
        BY <1>0, <2>3, <3>3, ReplaysFacts, Zenon
      <4>2. /\ DOMAIN s.entries = DOMAIN bEntries
            /\ \A k \in DOMAIN bEntries : s.entries[k] = bEntries[k]
        BY <2>3, <3>1, <3>3, Zenon
      <4>3. Backup!Size \in Nat /\ DOMAIN bEntries = 0 .. (Backup!Size - 1)
        BY <4>1, Zenon DEF Chained
      <4>4. Chained(s.entries, s.size)
        <5> SUFFICES ASSUME NEW i \in DOMAIN bEntries
                     PROVE  s.entries[i].prev = IF i = 0 THEN 0 ELSE s.entries[i - 1].made
          BY <2>3, <4>2, <4>3, Zenon DEF Chained
        <5>1. i # 0 => i - 1 \in DOMAIN bEntries
          BY <4>3
        <5> QED
          BY <4>1, <4>2, <5>1, Zenon DEF Chained
      <4>5. ASSUME Backup!Size > 0 PROVE s.entries[Backup!Size - 1].made = Backup!Root
        <5>1. Backup!Size - 1 \in DOMAIN bEntries
          BY <4>3, <4>5
        <5> QED
          BY <4>2, <4>3, <4>5, <5>1 DEF Backup!Root
      <4> QED
        BY <2>3, <4>4, <4>5, Zenon DEF Holds
    <3> QED
      BY <1>0, <2>1, <2>3, <3>1, <3>2, <3>3, Zenon DEF SnapshotInv
  <2>5. /\ IsSequence(bSnapshots') /\ DOMAIN bSnapshots = 1 .. Len(bSnapshots)
        /\ Len(bSnapshots) \in Nat
        /\ DOMAIN bSnapshots' = 1 .. (Len(bSnapshots) + 1)
        /\ bSnapshots'[Len(bSnapshots) + 1] = s
        /\ \A i \in 1 .. Len(bSnapshots) : bSnapshots'[i] = bSnapshots[i]
    BY <1>0, <2>1, AppendFacts
  <2>6. \A i \in DOMAIN bSnapshots' : SnapshotInv(bSnapshots'[i])
    BY <1>0, <2>4, <2>5
  <2>7. \A i \in DOMAIN bSnapshots' : SnapshotInv(bSnapshots[i])'
    <3>1. UNCHANGED bKey
      BY <2>1
    <3> QED
      BY <2>6, <3>1, Zenon DEF SnapshotInv, Stored, Signed, Chained, Holds
  <2>8. RestoredInv'
    <3>1. UNCHANGED <<bRestored, bEntries, bVer>>
      BY <2>1
    <3>2. ASSUME bRestored # 0
          PROVE  /\ bRestored \in DOMAIN bSnapshots'
                 /\ bSnapshots'[bRestored] = bSnapshots[bRestored]
      <4>1. bRestored \in 1 .. Len(bSnapshots)
        BY <1>0, <2>5, <3>2 DEF RestoredInv
      <4> QED
        BY <2>5, <4>1
    <3> QED
      BY <1>0, <3>1, <3>2, Zenon DEF RestoredInv, Chained, Holds
  <2>9. Stored(bEntries, bVer)' /\ Signed(bCkpts)'
    BY <1>0, <2>1, Zenon DEF Stored, Signed
  <2> QED
    BY <1>0, <2>1, <2>5, <2>7, <2>8, <2>9, Zenon DEF RecoveryInv
<1>6. ASSUME NEW host \in BOOLEAN, Backup!Lose(host) PROVE RecoveryInv'
  <2>1. /\ ~bUp' /\ bUp' \in BOOLEAN /\ bEntries' = Backup!EmptySpace
        /\ bCkpts' = Backup!EmptySpace /\ bVer' = 0
        /\ bRestored' = 0 /\ bChain' = IF host THEN Backup!NoChain ELSE bChain
        /\ UNCHANGED <<bKey, bSnapshots, bExports>>
    BY <1>6, Zenon DEF Backup!Lose, Backup!backups
  <2>2. DOMAIN bEntries' = {} /\ DOMAIN bCkpts' = {}
    BY <2>1, Zenon DEF Backup!EmptySpace
  <2>3. Stored(bEntries, bVer)' /\ Signed(bCkpts)' /\ RestoredInv'
    BY <2>1, <2>2, Zenon DEF Stored, Signed, RestoredInv
  <2>4. bChain' \in Chains
    BY <1>0, <2>1, Zenon DEF Chains, Backup!NoChain
  <2>5. IsSequence(bSnapshots)'
        /\ \A i \in DOMAIN bSnapshots' : SnapshotInv(bSnapshots[i])'
    <3>1. UNCHANGED <<bKey, bSnapshots>>
      BY <2>1, Zenon
    <3> QED
      BY <1>0, <3>1, Zenon DEF IsSequence, SnapshotInv, Stored, Signed, Chained, Holds
  <2> QED
    BY <1>0, <2>1, <2>3, <2>4, <2>5, Zenon DEF RecoveryInv
<1>7. ASSUME NEW i \in DOMAIN bSnapshots, Backup!RestoreDB(i) PROVE RecoveryInv'
  <2> DEFINE s == bSnapshots[i]
  <2>1. /\ ~bUp /\ bUp' = bUp /\ bEntries' = s.entries /\ bCkpts' = s.ckpts
        /\ bVer' = s.ver
        /\ bRestored' = i
        /\ UNCHANGED <<bChain, bKey, bSnapshots, bExports>>
    BY <1>7, Zenon DEF Backup!RestoreDB, Backup!backups
  <2>2. SnapshotInv(s)
    BY <1>0, Zenon
  <2>3. bVer' \in Nat /\ bVer' > 0 /\ Stored(bEntries, bVer)' /\ Signed(bCkpts)'
    BY <2>1, <2>2, Zenon DEF SnapshotInv, Stored, Signed
  <2>4. RestoredInv'
    <3> HIDE DEF s
    <3>1. ASSUME s.full, s.good
          PROVE  \E n \in Nat : Chained(bEntries', n) /\ n >= s.size
                 /\ Holds(bEntries', s)
      <4>1. Chained(bEntries', s.size) /\ Holds(bEntries', s) /\ s.size \in Nat
        BY <2>1, <2>2, <3>1, Zenon DEF SnapshotInv, Chained
      <4>2. s.size >= s.size
        BY <4>1
      <4> QED
        BY <4>1, <4>2, Zenon
    <3> QED
      BY <2>1, <2>3, <3>1, Zenon DEF RestoredInv, Chained, Holds, s
  <2>5. IsSequence(bSnapshots)'
        /\ \A j \in DOMAIN bSnapshots' : SnapshotInv(bSnapshots[j])'
    <3>1. UNCHANGED <<bKey, bSnapshots>>
      BY <2>1, Zenon
    <3>2. IsSequence(bSnapshots)'
      BY <1>0, <3>1 DEF IsSequence
    <3>3. ASSUME NEW j \in DOMAIN bSnapshots PROVE SnapshotInv(bSnapshots[j])'
      <4>1. SnapshotInv(bSnapshots[j])
        BY <1>0, Zenon
      <4> QED
        BY <3>1, <4>1, Zenon DEF SnapshotInv, Stored, Signed, Chained, Holds
    <3> QED
      BY <3>1, <3>2, <3>3, Zenon
  <2> QED
    BY <1>0, <2>1, <2>3, <2>4, <2>5, Zenon DEF RecoveryInv
<1>8. CASE Backup!StartFresh
  <2>1. /\ Backup!Replays /\ bUp' = TRUE
        /\ bChain' = [root |-> bKey.root + 1, epochs |-> 1]
        /\ bKey' = [root |-> bKey.root + 1, epoch |-> 0]
        /\ UNCHANGED <<bEntries, bCkpts, bVer, bSnapshots, bExports, bRestored>>
    BY <1>8, Zenon DEF Backup!StartFresh, Backup!db, Backup!backups
  <2>2. bKey' \in Epochs /\ bChain' \in Chains /\ NotAfter(bKey, bKey')
        /\ Backup!LoadsActive'
    BY <1>k, <2>1 DEF Epochs, Chains, NotAfter, Backup!LoadsActive, Backup!NoChain
  <2>3. /\ Stored(bEntries, bVer)' /\ Signed(bCkpts)' /\ IsSequence(bSnapshots)'
        /\ \A i \in DOMAIN bSnapshots' : SnapshotInv(bSnapshots[i])'
        /\ RestoredInv' /\ bVer' \in Nat
    BY <2>1, <2>2, StoredKeeps, Zenon
  <2>4. Chained(bEntries, Backup!Size) /\ Backup!Size \in Nat
    BY <1>0, <2>1, ReplaysFacts, Zenon DEF Chained
  <2>5. \E n \in Nat : Chained(bEntries, n)'
    BY <2>1, <2>4, Zenon DEF Chained
  <2>6. bUp' \in BOOLEAN
    BY <2>1, Zenon
  <2> QED
    BY <1>0, <2>1, <2>2, <2>3, <2>5, <2>6, Zenon DEF RecoveryInv
<1> QED
  BY <1>1, <1>2, <1>3, <1>4, <1>5, <1>6, <1>7, <1>8, Zenon DEF Backup!Next

\* A recovered log is the log that was backed up, for every number of entries,
\* epochs, snapshots, exports and losses (stele-backup, stele-export-chain).
THEOREM RecoveryCorrect == Backup!Spec => []RecoveryIsSound
<1>1. ASSUME RecoveryInv PROVE Backup!RecoveryIsSound
  <2>0. /\ Stored(bEntries, bVer) /\ Signed(bCkpts) /\ RestoredInv
        /\ (bUp => Backup!LoadsActive)
        /\ bKey \in Epochs /\ bChain \in Chains
    BY <1>1, Zenon DEF RecoveryInv
  <2>1. Backup!SnapshotRestores
    <3> SUFFICES ASSUME bRestored # 0, bSnapshots[bRestored].full,
        bSnapshots[bRestored].good
                 PROVE  /\ Backup!Replays
                        /\ Backup!Size >= bSnapshots[bRestored].size
                        /\ Holds(bEntries, bSnapshots[bRestored])
      BY Zenon DEF Backup!SnapshotRestores, Holds
    <3>1. PICK n \in Nat : /\ Chained(bEntries, n) /\ n >= bSnapshots[bRestored].size
                          /\ Holds(bEntries, bSnapshots[bRestored])
      BY <2>0, Zenon DEF RestoredInv
    <3> QED
      BY <2>0, <3>1, SizeFacts, Zenon
  <2>2. Backup!RestoredCheckpointsVerify
    <3> SUFFICES ASSUME bUp, NEW n \in DOMAIN bCkpts, bCkpts[n].epoch.root = bChain.root
                 PROVE  bCkpts[n].epoch.epoch < bChain.epochs
      BY Zenon DEF Backup!RestoredCheckpointsVerify
    <3>1. /\ bCkpts[n].epoch \in Epochs /\ NotAfter(bCkpts[n].epoch, bKey)
          /\ bKey.root = bChain.root /\ bKey.epoch = bChain.epochs - 1
      BY <2>0 DEF Signed, Backup!LoadsActive
    <3>2. /\ bCkpts[n].epoch.root \in Nat /\ bCkpts[n].epoch.epoch \in Nat
          /\ bKey.root \in Nat /\ bKey.epoch \in Nat /\ bChain.epochs \in Nat
      BY <2>0, <3>1, Zenon DEF Epochs, Chains
    <3> QED
      BY <3>1, <3>2 DEF NotAfter
  <2> QED
    BY <2>1, <2>2 DEF Backup!RecoveryIsSound
<1> QED
  BY <1>1, RecoveryInit, RecoveryNext, PTL DEF Backup!Spec, RecoveryIsSound

=============================================================================
