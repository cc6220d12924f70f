------------------------------- MODULE Daemon -------------------------------
(***************************************************************************)
(* The life of one steled process (cmd/steled/main.go): the steps of run() *)
(* in their order, each with its early return, the deferred closes, the    *)
(* background tasks, and the shutdown coordinator beside them.  A load     *)
(* balancer polls /readyz and routes requests by the last answer it got.   *)
(*                                                                         *)
(* Time is counted in ticks of the balancer's clock.  Opening a resource,  *)
(* a handler or a task takes as long as it takes.  Of what a part does,    *)
(* only whether it is running is kept: what a handler or a rotation does   *)
(* is the subject of the other modules.                                    *)
(***************************************************************************)
EXTENDS Integers, Sequences

CONSTANTS
    Options,   \* of "chain" (a key chain exists in --dir), "init", "hsm",
               \* "hybrid" and the tasks: the flags a behaviour may be given
    Requests,
    LbDrain,   \* ticks the coordinator sleeps before it closes the listener
    LBPeriod   \* ticks between two polls of /readyz, at most: the sleep is to
               \* "give LBs one health-check cycle", so LBPeriod < LbDrain

VARIABLES
    main,         \* where the main goroutine is in run()
    flags,
    open,         \* the resources that are open
    defers,       \* what run() has deferred, in order
    notify,       \* signal.NotifyContext is in force
    ctx,          \* its context is done
    tasks,
    coordinator,
    draining,
    nap,          \* ticks left of the coordinator's sleep
    timedOut,     \* httpDrain expired in srv.Shutdown
    http,         \* the state of srv
    probes,
    requests,
    lb,           \* the balancer routes to this process
    sincePoll,    \* ticks since it polled
    exit

boot    == <<flags, open, defers, notify>>
drain   == <<coordinator, draining, nap, timedOut>>
network == <<requests, lb, sincePoll>>
vars    == <<main, boot, ctx, tasks, drain, http, probes, network, exit>>

Tasks == {"checkpoint", "anchor", "watchdog", "tripwire"}

\* The steps of run(), each with the next one.
After == [flags |-> "keystore", keystore |-> "signer", signer |-> "rootpub",
          rootpub |-> "threshold", threshold |-> "store", store |-> "sinks",
          sinks |-> "signals", signals |-> "tracing", tracing |-> "log",
          log |-> "schedule", schedule |-> "journals", journals |-> "watchdog",
          watchdog |-> "tls", tls |-> "background", background |-> "coordinator",
          coordinator |-> "serve"]

\* The steps whose error ends run().
Fallible == {"flags", "keystore", "threshold", "store", "sinks", "tracing",
             "log", "journals", "watchdog", "tls", "serve"}

TypeOK ==
    /\ main \in DOMAIN After \cup {"serve", "serving", "return", "exited"}
    /\ flags \subseteq Options
    /\ open \subseteq {"hsm", "store", "tracing"}
    /\ defers \in Seq({"hsm", "store", "cancel", "tracing"})
    /\ notify \in BOOLEAN /\ ctx \in BOOLEAN
    /\ tasks \in [Tasks -> {"off", "idle", "busy", "stopped"}]
    /\ coordinator \in {"none", "waiting", "napping", "shutting", "stopping", "done"}
    /\ draining \in BOOLEAN /\ nap \in 0..LbDrain /\ timedOut \in BOOLEAN
    /\ http \in {"new", "listening", "shutdown"}
    /\ probes \subseteq {"chain", "store", "not_draining"}
    /\ requests \in [Requests -> {"none", "running", "answered", "refused", "cut"}]
    /\ lb \in BOOLEAN /\ sincePoll \in 0..LBPeriod
    /\ exit \in {"none", "ok", "error", "killed"}

Init ==
    /\ main = "flags"
    /\ flags \in SUBSET Options
    /\ open = {} /\ defers = <<>>
    /\ notify = FALSE /\ ctx = FALSE
    /\ tasks = [t \in Tasks |-> "off"]
    /\ coordinator = "none" /\ draining = FALSE /\ nap = 0 /\ timedOut = FALSE
    /\ http = "new" /\ probes = {}
    /\ requests = [r \in Requests |-> "none"]
    /\ lb = FALSE /\ sincePoll = 0
    /\ exit = "none"

Running == main # "exited"

-----------------------------------------------------------------------------
(* Starting                                                                *)

Advance(s) == main = s /\ main' = After[s]

\* A step that leaves behind nothing another part of this module sees.
Passes(s) ==
    Advance(s) /\ UNCHANGED <<boot, ctx, tasks, drain, http, probes, network, exit>>

\* A step that opens a resource and defers its close.
Opens(s, what) ==
    /\ Advance(s)
    /\ open' = open \cup {what}
    /\ defers' = Append(defers, what)
    /\ UNCHANGED <<flags, notify, ctx, tasks, drain, http, probes, network, exit>>

\* A step that launches those of its tasks that were asked for.
Launches(s, ts) ==
    /\ Advance(s)
    /\ tasks' = [t \in Tasks |-> IF t \in ts \cap flags THEN "idle" ELSE tasks[t]]
    /\ UNCHANGED <<boot, ctx, drain, http, probes, network, exit>>

\* return err
Fails(s) ==
    /\ main = s
    /\ main' = "return"
    /\ exit' = "error"
    /\ UNCHANGED <<boot, ctx, tasks, drain, http, probes, network>>

\* --dir is given and can be made, --pq-mode is known and goes with the store.
CheckFlags ==
    Passes("flags") /\ ~({"hybrid", "hsm"} \subseteq flags)

\* loadOrInitSigner: a missing chain needs --init; the HSM session or the key
\* directory is opened ...
OpenKeyStore ==
    /\ flags \cap {"chain", "init"} # {}
    /\ Advance("keystore")
    /\ open' = open \cup (flags \cap {"hsm"})
    /\ UNCHANGED <<flags, defers, notify, ctx, tasks, drain, http, probes, network,
                   exit>>

\* ... the signer is loaded or made ...
NewSignerWithStore == Passes("signer")

\* ... and root.pub is written.  run() defers the closer it is handed.
WriteRootPub ==
    /\ Advance("rootpub")
    /\ defers' = IF "hsm" \in flags THEN Append(defers, "hsm") ELSE defers
    /\ UNCHANGED <<flags, open, notify, ctx, tasks, drain, http, probes, network,
                   exit>>

\* mutant: the error paths leave the HSM session to the caller
LoadSignerFails_KeepsSession ==
    /\ main \in {"signer", "rootpub"}
    /\ main' = "return"
    /\ exit' = "error"
    /\ UNCHANGED <<boot, ctx, tasks, drain, http, probes, network>>

\* Either of them fails: the session is closed before the error is returned.
LoadSignerFails ==
    /\ main \in {"signer", "rootpub"}
    /\ main' = "return"
    /\ open' = open \ {"hsm"}
    /\ exit' = "error"
    /\ UNCHANGED <<flags, defers, notify, ctx, tasks, drain, http, probes, network>>

\* --threshold-group: the group is read and the coordinator takes over signing.
LoadThresholdGroup == Passes("threshold")

OpenStore == Opens("store", "store")

NewSinks == Passes("sinks")

NotifyContext ==
    /\ Advance("signals")
    /\ notify' = TRUE
    /\ defers' = Append(defers, "cancel")
    /\ UNCHANGED <<flags, open, ctx, tasks, drain, http, probes, network, exit>>

InitTracing == Opens("tracing", "tracing")

NewLog == Passes("log")

ScheduleTasks == Launches("schedule", {"checkpoint", "anchor"})

\* The read journal, when asked for, and the admin journal, always.
OpenJournals == Passes("journals")

StartWatchdog == Launches("watchdog", {"watchdog"})

BuildTLSConfig == Passes("tls")

\* The mux, the janitors, the first two probes and the tripwire.
StartBackground ==
    /\ Advance("background")
    /\ probes' = probes \cup {"chain", "store"}
    /\ tasks' = [tasks EXCEPT !["tripwire"] = IF "tripwire" \in flags THEN "idle" ELSE @]
    /\ UNCHANGED <<boot, ctx, drain, http, network, exit>>

StartCoordinator ==
    /\ Advance("coordinator")
    /\ probes' = probes \cup {"not_draining"}
    /\ coordinator' = "waiting"
    /\ UNCHANGED <<boot, ctx, tasks, draining, nap, timedOut, http, network, exit>>

\* ListenAndServe, unless Shutdown was called before it.
ListenAndServe ==
    /\ main = "serve"
    /\ IF http = "shutdown"
       THEN main' = "return" /\ exit' = "ok" /\ UNCHANGED http
       ELSE main' = "serving" /\ http' = "listening" /\ UNCHANGED exit
    /\ UNCHANGED <<boot, ctx, tasks, drain, probes, network>>

StartFails == \E s \in Fallible : Fails(s)

Starts ==
    \/ CheckFlags
    \/ OpenKeyStore
    \/ NewSignerWithStore
    \/ WriteRootPub
    \/ LoadSignerFails
    \/ LoadThresholdGroup
    \/ OpenStore
    \/ NewSinks
    \/ NotifyContext
    \/ InitTracing
    \/ NewLog
    \/ ScheduleTasks
    \/ OpenJournals
    \/ StartWatchdog
    \/ BuildTLSConfig
    \/ StartBackground
    \/ StartCoordinator
    \/ ListenAndServe
    \/ StartFails

-----------------------------------------------------------------------------
(* Serving                                                                 *)

\* Health.Check: every registered probe passes.  The chain and the store are
\* in place before the listener is.
Ready == "not_draining" \in probes => ~draining

\* /readyz, asked by the load balancer; no answer counts as not ready.
Poll ==
    /\ lb' = (Running /\ http = "listening" /\ Ready)
    /\ sincePoll' = 0
    /\ UNCHANGED <<main, boot, ctx, tasks, drain, http, probes, requests, exit>>

\* A client's request comes through the balancer.
Route(r) ==
    /\ lb
    /\ requests[r] = "none"
    /\ requests' = [requests EXCEPT ![r] =
                        IF Running /\ http = "listening" THEN "running" ELSE "refused"]
    /\ UNCHANGED <<main, boot, ctx, tasks, drain, http, probes, lb, sincePoll, exit>>

HandlerReturns(r) ==
    /\ Running
    /\ requests[r] = "running"
    /\ requests' = [requests EXCEPT ![r] = "answered"]
    /\ UNCHANGED <<main, boot, ctx, tasks, drain, http, probes, lb, sincePoll, exit>>

\* schedule and its like: a tick that is due may be taken though the context is
\* done, select chooses between the two.
TaskBegins(t) ==
    /\ Running
    /\ tasks[t] = "idle"
    /\ tasks' = [tasks EXCEPT ![t] = "busy"]
    /\ UNCHANGED <<main, boot, ctx, drain, http, probes, network, exit>>

TaskEnds(t) ==
    /\ Running
    /\ tasks[t] = "busy"
    /\ tasks' = [tasks EXCEPT ![t] = "idle"]
    /\ UNCHANGED <<main, boot, ctx, drain, http, probes, network, exit>>

TaskReturns(t) ==
    /\ Running
    /\ ctx
    /\ tasks[t] = "idle"
    /\ tasks' = [tasks EXCEPT ![t] = "stopped"]
    /\ UNCHANGED <<main, boot, ctx, drain, http, probes, network, exit>>

Tick ==
    /\ sincePoll < LBPeriod
    /\ sincePoll' = sincePoll + 1
    /\ nap' = IF nap > 0 THEN nap - 1 ELSE 0
    /\ UNCHANGED <<main, boot, ctx, tasks, coordinator, draining, timedOut, http,
                   probes, requests, lb, exit>>

-----------------------------------------------------------------------------
(* Stopping                                                                *)

\* What the end of the process does to the requests it was serving.
Cut == [r \in Requests |-> IF requests[r] = "running" THEN "cut" ELSE requests[r]]

\* SIGTERM or SIGINT: the context, or, where it is not caught, the process.
Signal ==
    /\ Running
    /\ IF notify
       THEN /\ ctx' = TRUE
            /\ UNCHANGED <<main, requests, exit>>
       ELSE /\ main' = "exited" /\ exit' = "killed"
            /\ requests' = Cut
            /\ UNCHANGED ctx
    /\ UNCHANGED <<boot, tasks, drain, http, probes, lb, sincePoll>>

\* mutant: the listener is closed without waiting for the balancer
CoordinatorWakes_NoNap ==
    /\ Running
    /\ coordinator = "waiting"
    /\ ctx
    /\ draining' = TRUE
    /\ nap' = 0
    /\ coordinator' = "napping"
    /\ UNCHANGED <<main, boot, ctx, tasks, timedOut, http, probes, network, exit>>

CoordinatorWakes ==
    /\ Running
    /\ coordinator = "waiting"
    /\ ctx
    /\ draining' = TRUE
    /\ nap' = LbDrain
    /\ coordinator' = "napping"
    /\ UNCHANGED <<main, boot, ctx, tasks, timedOut, http, probes, network, exit>>

\* mutant: only the readiness probe is failed, the listener is never closed
ShutdownBegins_DrainOnly ==
    /\ Running
    /\ coordinator = "napping"
    /\ nap = 0
    /\ coordinator' = "shutting"
    /\ UNCHANGED <<main, boot, ctx, tasks, draining, nap, timedOut, http, probes,
                   network, exit>>

\* srv.Shutdown closes the listener, which makes ListenAndServe return, and
\* then waits for the handlers ...
ShutdownBegins ==
    /\ Running
    /\ coordinator = "napping"
    /\ nap = 0
    /\ http' = "shutdown"
    /\ coordinator' = "shutting"
    /\ UNCHANGED <<main, boot, ctx, tasks, draining, nap, timedOut, probes, network,
                   exit>>

\* ... until all have returned or httpDrain has passed.
ShutdownReturns ==
    /\ Running
    /\ coordinator = "shutting"
    /\ timedOut' = \E r \in Requests : requests[r] = "running"
    /\ coordinator' = "stopping"
    /\ UNCHANGED <<main, boot, ctx, tasks, draining, nap, http, probes, network, exit>>

\* wd.Stop returns when the watchdog's goroutines have.
StopWatchdog ==
    /\ Running
    /\ coordinator = "stopping"
    /\ tasks["watchdog"] \in {"off", "stopped"}
    /\ coordinator' = "done"
    /\ UNCHANGED <<main, boot, ctx, tasks, draining, nap, timedOut, http, probes,
                   network, exit>>

Coordinator ==
    \/ CoordinatorWakes
    \/ ShutdownBegins
    \/ ShutdownReturns
    \/ StopWatchdog

\* http.ErrServerClosed is not an error: run() returns nil.
ServeReturns ==
    /\ main = "serving"
    /\ http = "shutdown"
    /\ main' = "return"
    /\ exit' = "ok"
    /\ UNCHANGED <<boot, ctx, tasks, drain, http, probes, network>>

\* The deferred calls, last first.
RunDeferred ==
    /\ main = "return"
    /\ defers # <<>>
    /\ defers' = SubSeq(defers, 1, Len(defers) - 1)
    /\ LET d == defers[Len(defers)]
       IN  /\ open' = open \ {d}
           /\ ctx' = (ctx \/ d = "cancel")
           /\ notify' = (notify /\ d # "cancel")
    /\ UNCHANGED <<main, flags, tasks, drain, http, probes, network, exit>>

\* run() is over, and with it the process.
Exits ==
    /\ main = "return"
    /\ defers = <<>>
    /\ main' = "exited"
    /\ requests' = Cut
    /\ UNCHANGED <<boot, ctx, tasks, drain, http, probes, lb, sincePoll, exit>>

Main ==
    \/ Starts
    \/ ServeReturns
    \/ RunDeferred
    \/ Exits

-----------------------------------------------------------------------------
Next ==
    \/ Main
    \/ Coordinator
    \/ Signal
    \/ Poll
    \/ Tick
    \/ \E r \in Requests : Route(r) \/ HandlerReturns(r)
    \/ \E t \in Tasks : TaskBegins(t) \/ TaskEnds(t) \/ TaskReturns(t)

Spec == Init /\ [][Next]_vars

\* The two goroutines run and time passes.  Nothing is asked of the handlers,
\* the tasks or the sender of signals.
Fairness ==
    /\ WF_vars(Main)
    /\ WF_vars(Coordinator)
    /\ WF_vars(Tick)
    /\ WF_vars(Poll)

FairSpec == Spec /\ Fairness

-----------------------------------------------------------------------------
(* Properties                                                              *)

\* run() gives back what it opened, on whichever of its early returns it
\* leaves: the HSM session, the store and the trace exporter are all closed
\* when the process ends of itself.
ExitReleasesAll ==
    main = "exited" /\ exit # "killed" => open = {}

\* The readiness probe fails long enough before the listener closes that no
\* balancer sends a request to a closed port.
RoutedIsServed == \A r \in Requests : requests[r] # "refused"

\* A caught signal ends the process, at whichever step of the start or of the
\* service it arrives, and whatever the handlers and the tasks are doing.
ShutdownCompletes == ctx ~> main = "exited"

\* "srv.Shutdown waits for in-flight handlers to finish (up to `httpDrain`)" and
\* "the watchdog is stopped last so its rotations can't race the close": when a
\* service has ended without an error, the store outlives its users.
DrainsBeforeClose ==
    exit = "ok" /\ "store" \notin open =>
        /\ timedOut \/ \A r \in Requests : requests[r] # "running"
        /\ tasks["watchdog"] # "busy"

=============================================================================
