------------------------------- MODULE Ingest -------------------------------
(***************************************************************************)
(* The gate in front of Append (pkg/api/ingest.go, handleAppend and        *)
(* rateLimitAdmin in pkg/api/server.go): a token bucket per producer,      *)
(* whose idle buckets a janitor evicts, then a server-wide semaphore that  *)
(* bounds the appends in flight.  The admin endpoints use a second table   *)
(* of buckets in the same way and no semaphore.                            *)
(*                                                                         *)
(* Time is discrete; a bucket gains Rate tokens per unit up to Burst.      *)
(***************************************************************************)
EXTENDS Integers, Sequences, FiniteSets, Keyspace

CONSTANTS
    Handlers,     \* concurrent requests
    Producers,    \* producer IDs, or admin actors
    Capacity,     \* MaxConcurrentAppends
    Rate,         \* PerProducerRPS, in tokens per unit of time
    Burst,        \* PerProducerBurst
    IdleAfter,    \* the janitor's idleAfter; long enough to fill a bucket: with the
                  \* defaults one hour gains more than 200 tokens at 100 per
                  \* second, and more than 10 at 5
    NoProducer,
    MaxTime,      \* bound: the clock
    MaxRequests   \* bound: requests let through

VARIABLES
    now,      \* the clock
    buckets,  \* producerLimits: [tokens, last, lastUsed] of the known producers
    sem,      \* len(ingestGate.sem)
    pc,       \* per handler: its next step
    of,       \* per handler: the producer it serves
    passed    \* history: per producer, when requests were let through

vars == <<now, buckets, sem, pc, of, passed>>

Bucket == [tokens: 0 .. Burst, last: 0 .. MaxTime, lastUsed: 0 .. MaxTime]

-----------------------------------------------------------------------------
Init ==
    /\ now = 0
    /\ buckets = EmptySpace
    /\ sem = 0
    /\ pc = [t \in Handlers |-> "idle"]
    /\ of = [t \in Handlers |-> NoProducer]
    /\ passed = [p \in Producers |-> <<>>]

Tick ==
    /\ now < MaxTime
    /\ now' = now + 1
    /\ UNCHANGED <<buckets, sem, pc, of, passed>>

\* rate.NewLimiter: a full bucket
NewLimiter == [tokens |-> Burst, last |-> now, lastUsed |-> now]

\* The bucket of a producer, made when it is first needed.
Limiter(p) == IF p \in DOMAIN buckets THEN buckets[p] ELSE NewLimiter

\* Limiter.Allow: the tokens there are by now.
Tokens(b) ==
    LET refilled == b.tokens + Rate * (now - b.last)
    IN  IF refilled > Burst THEN Burst ELSE refilled

Take(p, n) ==
    buckets' = Put(buckets, p,
                   [tokens |-> Tokens(Limiter(p)) - n, last |-> now, lastUsed |-> now])

\* allowProducer lets the request through ...
AllowProducer(t, p) ==
    /\ pc[t] = "idle"
    /\ Len(passed[p]) < MaxRequests
    /\ Tokens(Limiter(p)) >= 1
    /\ Take(p, 1)
    /\ passed' = [passed EXCEPT ![p] = Append(@, now)]
    /\ pc' = [pc EXCEPT ![t] = "allowed"]
    /\ of' = [of EXCEPT ![t] = p]
    /\ UNCHANGED <<now, sem>>

\* ... or not: 429, and the bucket counts as used.
RateLimited(t, p) ==
    /\ pc[t] = "idle"
    /\ Tokens(Limiter(p)) = 0
    /\ Take(p, 0)
    /\ UNCHANGED <<now, sem, pc, of, passed>>

Return(t) ==
    /\ pc' = [pc EXCEPT ![t] = "idle"]
    /\ of' = [of EXCEPT ![t] = NoProducer]

\* acquire: a slot of the semaphore ...
Acquire(t) ==
    /\ pc[t] = "allowed"
    /\ sem < Capacity
    /\ sem' = sem + 1
    /\ pc' = [pc EXCEPT ![t] = "appending"]
    /\ UNCHANGED <<now, buckets, of, passed>>

\* ... or 503 at once.
Saturated(t) ==
    /\ pc[t] = "allowed"
    /\ sem = Capacity
    /\ Return(t)
    /\ UNCHANGED <<now, buckets, sem, passed>>

\* mutant: the slot is not returned
AppendDone_Leaks(t) ==
    /\ pc[t] = "appending"
    /\ Return(t)
    /\ UNCHANGED <<now, buckets, sem, passed>>

\* AppendCtx returns, with an entry or an error; the deferred release.
AppendDone(t) ==
    /\ pc[t] = "appending"
    /\ sem' = sem - 1
    /\ Return(t)
    /\ UNCHANGED <<now, buckets, passed>>

\* mutant: every bucket is evicted, used lately or not
Idle_Any(p) == buckets[p].lastUsed <= now

\* lastUsed lies before the cutoff
Idle(p) == buckets[p].lastUsed < now - IdleAfter

\* evictIdle
EvictIdle ==
    /\ \E p \in DOMAIN buckets : Idle(p)
    /\ buckets' = [p \in {q \in DOMAIN buckets : ~Idle(q)} |-> buckets[p]]
    /\ UNCHANGED <<now, sem, pc, of, passed>>

Next ==
    \/ Tick
    \/ EvictIdle
    \/ \E t \in Handlers :
         \/ \E p \in Producers : AllowProducer(t, p) \/ RateLimited(t, p)
         \/ Acquire(t) \/ Saturated(t) \/ AppendDone(t)

Spec == Init /\ [][Next]_vars

-----------------------------------------------------------------------------
(* Properties                                                              *)

\* Every variable has its type.
TypeOK ==
    /\ now \in 0 .. MaxTime
    /\ DOMAIN buckets \subseteq Producers
    /\ \A p \in DOMAIN buckets : buckets[p] \in Bucket
    /\ sem \in 0 .. Capacity
    /\ pc \in [Handlers -> {"idle", "allowed", "appending"}]
    /\ of \in [Handlers -> Producers \cup {NoProducer}]
    /\ \A p \in Producers : passed[p] \in Seq(0 .. MaxTime)

\* Every slot of the semaphore that is taken is held by an append in flight.
SlotsReturned == sem = Cardinality({t \in Handlers : pc[t] = "appending"})

\* Over every stretch of time a producer is let through at most Burst requests
\* and Rate more per unit, although the janitor forgets buckets and they are
\* made anew.
RateBound ==
    \A p \in Producers : \A i, j \in DOMAIN passed[p] :
        i <= j => j - i + 1 <= Burst + Rate * (passed[p][j] - passed[p][i])

=============================================================================
