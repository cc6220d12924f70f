------------------------------ MODULE Endpoints -----------------------------
(***************************************************************************)
(* The handlers of the API that disclose an entry or change a rule         *)
(* (pkg/api/server.go), each with the trail it leaves: recordRead and the  *)
(* read journal, recordAdmin and the admin journal, fireHoney and the      *)
(* sinks of pkg/honeylog.  The log grows and is rotated meanwhile.         *)
(*                                                                         *)
(* What a journal does with an event is the subject of module Journal:     *)
(* here it takes the event or fails.  Rotation stands for the rules an     *)
(* administrator changes, because its event tells what changed; witnesses, *)
(* producers and enrolments are changed and recorded in the same order.    *)
(***************************************************************************)
EXTENDS Integers

CONSTANTS
    Requests,   \* requests, each handled by a goroutine of its own
    Honeypots,  \* the indexes of the entries that are flagged
    MaxRange,   \* the longest range served
    MaxSize,    \* bound: entries
    MaxEpoch,   \* bound: rotations
    MaxFaults   \* bound: journal writes and rotations that fail

VARIABLES
    size,       \* Log.Size
    epoch,      \* the active epoch of the key chain
    pc, loc,    \* per request: its next step and its local variables
    readLog,    \* the read journal: pairs of request and index
    adminLog,   \* the admin journal
    alerts,     \* the goroutines of fireHoney: pairs of request and index
    stderr,     \* the alerts StderrSink wrote
    missing,    \* history: requests whose journal write failed
    made,       \* history: request -> the epoch its rotation began
    faults

trail == <<readLog, adminLog, alerts, stderr>>
log   == <<size, epoch>>
vars  == <<log, pc, loc, trail, missing, made, faults>>

Indexes == 0 .. MaxSize
Kinds == {"get", "range", "proof", "rotate"}

\* from, to: the indexes asked for, to exclusive; got: those in the answer;
\* pre, post: the epochs handleRotate read; ok: Log.Rotate returned nil.
Locals(kind, from, to, pre) ==
    [kind |-> kind, from |-> from, to |-> to, got |-> {}, pre |-> pre, post |-> 0,
     ok |-> FALSE]

TypeOK ==
    /\ size \in Indexes /\ epoch \in 0 .. MaxEpoch
    /\ pc \in [Requests -> {"new", "get", "record", "rotate", "post", "admin", "answered",
                            "refused"}]
    /\ readLog \subseteq Requests \X Indexes
    /\ \A e \in adminLog : e.req \in Requests /\ e.from <= e.to
    /\ alerts \subseteq Requests \X Honeypots
    /\ stderr \subseteq Requests \X Honeypots
    /\ missing \subseteq Requests

Init ==
    /\ size = 0 /\ epoch = 0
    /\ pc = [q \in Requests |-> "new"]
    /\ loc = [q \in Requests |-> Locals("none", 0, 0, 0)]
    /\ readLog = {} /\ adminLog = {}
    /\ alerts = {} /\ stderr = {}
    /\ missing = {}
    /\ made = [q \in Requests |-> 0]
    /\ faults = 0

AppendEntry ==
    /\ size < MaxSize
    /\ size' = size + 1
    /\ UNCHANGED <<epoch, pc, loc, trail, missing, made, faults>>

\* The watchdog rotates without a request.
WatchdogRotates ==
    /\ epoch < MaxEpoch
    /\ epoch' = epoch + 1
    /\ UNCHANGED <<size, pc, loc, trail, missing, made, faults>>

Goto(q, from, to) == pc[q] = from /\ pc' = [pc EXCEPT ![q] = to]

Fault == faults < MaxFaults /\ faults' = faults + 1

-----------------------------------------------------------------------------
(* Reading entries                                                         *)

\* handleGetEntry and handleInclusionProof name an index, handleEntriesRange
\* two: 'to' must be above 'from', and not too far.
BeginRead(q, kind, from, to) ==
    /\ kind # "range" => to = from + 1
    /\ IF to <= from \/ to - from > MaxRange THEN Goto(q, "new", "refused")
       ELSE Goto(q, "new", "get")
    /\ loc' = [loc EXCEPT ![q] = Locals(kind, from, to, 0)]
    /\ UNCHANGED <<log, trail, missing, made, faults>>

\* fireHoney: the alert is left to a goroutine.
Firing(q, i) == alerts \cup ({q} \X ({i} \cap Honeypots))

\* mutant: a range is served without its alerts
GetEntry_SilentRange(q) ==
    LET l == loc[q] IN
    /\ l.from < l.to /\ l.from < size
    /\ IF l.kind = "proof" THEN Goto(q, "get", "answered") ELSE Goto(q, "get", "record")
    /\ loc' = [loc EXCEPT ![q].got = @ \cup {l.from}]
    /\ alerts' = IF l.kind = "get" THEN Firing(q, l.from) ELSE alerts
    /\ UNCHANGED <<log, readLog, adminLog, stderr, missing, made, faults>>

\* Log.Get: the entry, or for a proof its leaf hash, goes into the answer.  The
\* proof endpoint neither fires nor records.
GetEntry(q) ==
    LET l == loc[q] IN
    /\ l.from < l.to /\ l.from < size
    /\ IF l.kind = "proof" THEN Goto(q, "get", "answered") ELSE Goto(q, "get", "record")
    /\ loc' = [loc EXCEPT ![q].got = @ \cup {l.from}]
    /\ alerts' = IF l.kind # "proof" THEN Firing(q, l.from) ELSE alerts
    /\ UNCHANGED <<log, readLog, adminLog, stderr, missing, made, faults>>

\* The range is through, or the log is shorter: a range answers with what it
\* has, the others "not found".
NoEntry(q) ==
    LET l == loc[q] IN
    /\ l.from >= l.to \/ l.from >= size
    /\ Goto(q, "get", IF l.kind = "range" THEN "answered" ELSE "refused")
    /\ UNCHANGED <<log, loc, trail, missing, made, faults>>

\* recordRead, whose error is dropped, and on to the next index of a range.
RecordRead(q) ==
    LET l == loc[q] IN
    /\ IF l.kind = "range" THEN Goto(q, "record", "get") ELSE Goto(q, "record", "answered")
    /\ loc' = [loc EXCEPT ![q].from = @ + 1]
    /\ \/ /\ readLog' = readLog \cup {<<q, l.from>>}
          /\ UNCHANGED <<missing, faults>>
       \/ /\ Fault
          /\ missing' = missing \cup {q}
          /\ UNCHANGED readLog
    /\ UNCHANGED <<log, adminLog, alerts, stderr, made>>

-----------------------------------------------------------------------------
(* Changing rules                                                          *)

\* rateLimitAdmin lets the request through or answers 429; handleRotate reads
\* the epoch it comes from ...
BeginRotate(q) ==
    /\ \/ Goto(q, "new", "rotate")
       \/ Goto(q, "new", "refused")
    /\ loc' = [loc EXCEPT ![q] = Locals("rotate", 0, 0, epoch)]
    /\ UNCHANGED <<log, trail, missing, made, faults>>

\* ... rotates ...
Rotate(q) ==
    /\ Goto(q, "rotate", "post")
    /\ \/ /\ epoch < MaxEpoch
          /\ epoch' = epoch + 1
          /\ made' = [made EXCEPT ![q] = epoch']
          /\ loc' = [loc EXCEPT ![q].ok = TRUE]
          /\ UNCHANGED faults
       \/ Fault /\ UNCHANGED <<epoch, made, loc>>
    /\ UNCHANGED <<size, trail, missing>>

\* mutant: the event is made up before the rotation
ReadPostEpoch_Early(q) ==
    /\ Goto(q, "post", "admin")
    /\ loc' = [loc EXCEPT ![q].post = loc[q].pre]
    /\ UNCHANGED <<log, trail, missing, made, faults>>

\* ... reads the epoch again, by which time others may have rotated too ...
ReadPostEpoch(q) ==
    /\ Goto(q, "post", "admin")
    /\ loc' = [loc EXCEPT ![q].post = epoch]
    /\ UNCHANGED <<log, trail, missing, made, faults>>

\* ... and has recordAdmin write what came of it, before it answers.  An error
\* of the journal is logged and no more.
RecordAdmin(q) ==
    LET l == loc[q] IN
    /\ Goto(q, "admin", IF l.ok THEN "answered" ELSE "refused")
    /\ \/ /\ adminLog' = adminLog \cup
                  {[req |-> q, from |-> l.pre, to |-> l.post, ok |-> l.ok]}
          /\ UNCHANGED <<missing, faults>>
       \/ /\ Fault
          /\ missing' = missing \cup {q}
          /\ UNCHANGED adminLog
    /\ UNCHANGED <<log, loc, readLog, alerts, stderr, made>>

-----------------------------------------------------------------------------
(* honeylog.MultiSink                                                      *)

\* The sinks are fired in turn, and one that fails does not stop the others.
\* StderrSink cannot fail; whether WebhookSink did is told to nobody.
Fire(a) ==
    /\ a \in alerts
    /\ alerts' = alerts \ {a}
    /\ stderr' = stderr \cup {a}
    /\ UNCHANGED <<log, pc, loc, readLog, adminLog, missing, made, faults>>

Handle(q) ==
    \/ GetEntry(q) \/ NoEntry(q) \/ RecordRead(q)
    \/ Rotate(q) \/ ReadPostEpoch(q) \/ RecordAdmin(q)

Next ==
    \/ AppendEntry
    \/ WatchdogRotates
    \/ \E q \in Requests :
         \/ \E kind \in Kinds \ {"rotate"}, from, to \in Indexes : BeginRead(q, kind, from, to)
         \/ BeginRotate(q)
         \/ Handle(q)
    \/ \E a \in Requests \X Honeypots : Fire(a)

Spec == Init /\ [][Next]_vars

\* A goroutine that was started runs.
Fairness == \A a \in Requests \X Honeypots : WF_vars(Fire(a))

FairSpec == Spec /\ Fairness

-----------------------------------------------------------------------------
(* Properties                                                              *)

\* An answer leaves its trail: unless the journal failed, every entry handed
\* out by /entries is in the read journal under that request, and every
\* rotation that was answered is in the admin journal, between the epochs its
\* event names, although others rotate at the same time.
TrailCoversAnswers ==
    \A q \in Requests \ missing :
        pc[q] = "answered" =>
            /\ loc[q].kind \in {"get", "range"} => {q} \X loc[q].got \subseteq readLog
            /\ loc[q].kind = "rotate" =>
                 \E e \in adminLog : /\ e.req = q /\ e.ok
                                     /\ e.from < made[q] /\ made[q] <= e.to

\* A honeypot that was handed out by /entries raises its alarm.
HoneypotFires ==
    \A q \in Requests, i \in Honeypots :
        (loc[q].kind \in {"get", "range"} /\ i \in loc[q].got) ~> (<<q, i>> \in stderr)

=============================================================================
