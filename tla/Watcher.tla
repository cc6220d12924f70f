------------------------------ MODULE Watcher ------------------------------
(***************************************************************************)
(* The independent cross-checker (pkg/watcher, cmd/stele-watcher): it asks *)
(* the operator for its latest checkpoint, then one witness after the other*)
(* for its signed seen map, and compares the roots at the operator's size. *)
(* The log grows and witnesses cosign while a pass is under way.           *)
(*                                                                         *)
(* The operator may show a witness another root than it serves; a witness  *)
(* keeps the first root it cosigned at a size (module Witness).            *)
(***************************************************************************)
EXTENDS Integers, Sequences, Keyspace

CONSTANTS
    WitnessURLs,  \* Config.WitnessURLs: a sequence of witnesses
    Roots,        \* the roots the operator may show at one size
    MaxSize,      \* bound: the size of the log
    MaxFaults,    \* bound: requests that fail
    MaxPasses     \* bound: passes of the watcher

Witnesses == {WitnessURLs[i] : i \in DOMAIN WitnessURLs}

VARIABLES
    latest,  \* the checkpoint the operator serves: [size, root]; size 0: none
    seen,    \* per witness: Server.seen, from sizes to roots
    shown,   \* history: every [size, root] the operator signed for someone
    pc,      \* the pass: "idle", "operator" or "witnesses"
    op,      \* rep.OperatorView; size 0: not reachable
    views,   \* rep.WitnessViews: [reachable, root], in the order of the URLs
    code,    \* the exit code of the last pass; 9: none yet
    before,  \* history: seen, when the operator answered
    faults, passes

vars == <<latest, seen, shown, pc, op, views, code, before, faults, passes>>

NoRoot == "none"
NoView == [size |-> 0, root |-> NoRoot]
Running == 9

Init ==
    /\ latest = NoView
    /\ seen = [w \in Witnesses |-> EmptySpace]
    /\ shown = {}
    /\ pc = "idle"
    /\ op = NoView
    /\ views = <<>>
    /\ code = Running
    /\ before = seen
    /\ faults = 0
    /\ passes = 0

-----------------------------------------------------------------------------
(* The operator and the witnesses                                          *)

\* The operator signs a checkpoint and serves it.
ServeCheckpoint(r) ==
    /\ latest.size < MaxSize
    /\ latest' = [size |-> latest.size + 1, root |-> r]
    /\ shown' = shown \cup {latest'}
    /\ UNCHANGED <<seen, pc, op, views, code, before, faults, passes>>

\* A witness cosigns what it is sent, unless it knows another root of that
\* size.
Cosign(w, n, r) ==
    /\ n \notin DOMAIN seen[w]
    /\ seen' = [seen EXCEPT ![w] = Put(@, n, r)]
    /\ shown' = shown \cup {[size |-> n, root |-> r]}
    /\ UNCHANGED <<latest, pc, op, views, code, before, faults, passes>>

-----------------------------------------------------------------------------
(* One pass: Run                                                           *)

Begin ==
    /\ pc = "idle"
    /\ passes < MaxPasses
    /\ passes' = passes + 1
    /\ pc' = "operator"
    /\ op' = NoView
    /\ views' = <<>>
    /\ code' = Running
    /\ UNCHANGED <<latest, seen, shown, before, faults>>

\* fetchOperatorCheckpoint; where there is no checkpoint it answers with an
\* error.
FetchOperatorCheckpoint ==
    /\ pc = "operator"
    /\ op' = latest
    /\ before' = seen
    /\ pc' = "witnesses"
    /\ UNCHANGED <<latest, seen, shown, views, code, faults, passes>>

\* The operator cannot be reached: the witnesses are asked all the same.
OperatorUnreachable ==
    /\ pc = "operator"
    /\ faults < MaxFaults
    /\ faults' = faults + 1
    /\ before' = seen
    /\ pc' = "witnesses"
    /\ UNCHANGED <<latest, seen, shown, op, views, code, passes>>

\* mutant: a witness that is behind counts with its latest root
SeenAtSize_Latest(w) ==
    IF DOMAIN seen[w] = {} THEN NoRoot
    ELSE seen[w][CHOOSE n \in DOMAIN seen[w] : \A m \in DOMAIN seen[w] : m <= n]

\* ss.Seen at the operator's size; nothing where the witness is behind
SeenAtSize(w) == IF op.size \in DOMAIN seen[w] THEN seen[w][op.size] ELSE NoRoot

\* fetchSignedSeen from the next witness; the statement is verified.
FetchSignedSeen ==
    /\ pc = "witnesses"
    /\ Len(views) < Len(WitnessURLs)
    /\ views' = Append(views, [reachable |-> TRUE,
                               root |-> SeenAtSize(WitnessURLs[Len(views) + 1])])
    /\ UNCHANGED <<latest, seen, shown, pc, op, code, before, faults, passes>>

WitnessUnreachable ==
    /\ pc = "witnesses"
    /\ Len(views) < Len(WitnessURLs)
    /\ faults < MaxFaults
    /\ faults' = faults + 1
    /\ views' = Append(views, [reachable |-> FALSE, root |-> NoRoot])
    /\ UNCHANGED <<latest, seen, shown, pc, op, code, before, passes>>

Divergences ==
    {i \in DOMAIN views : views[i].reachable /\ views[i].root \notin {NoRoot, op.root}}

AllErrored == views # <<>> /\ \A i \in DOMAIN views : ~views[i].reachable

\* The outcome and the exit code: 0 consistent, 1 diverged, 2 errored
ExitCode ==
    CASE op = NoView -> 2
      [] op # NoView /\ Divergences # {} -> 1
      [] op # NoView /\ Divergences = {} -> IF AllErrored THEN 2 ELSE 0

Compare ==
    /\ pc = "witnesses"
    /\ Len(views) = Len(WitnessURLs)
    /\ code' = ExitCode
    /\ pc' = "idle"
    /\ UNCHANGED <<latest, seen, shown, op, views, before, faults, passes>>

Next ==
    \/ \E r \in Roots : ServeCheckpoint(r)
    \/ \E w \in Witnesses, n \in 1 .. MaxSize, r \in Roots : Cosign(w, n, r)
    \/ Begin
    \/ FetchOperatorCheckpoint
    \/ OperatorUnreachable
    \/ FetchSignedSeen
    \/ WitnessUnreachable
    \/ Compare

Spec == Init /\ [][Next]_vars

-----------------------------------------------------------------------------
(* Properties                                                              *)

Views == [size: 0 .. MaxSize, root: Roots \cup {NoRoot}]

\* Every variable has its type.
TypeOK ==
    /\ latest \in Views /\ op \in Views /\ shown \subseteq Views
    /\ \A w \in Witnesses : \A n \in DOMAIN seen[w] : seen[w][n] \in Roots
    /\ pc \in {"idle", "operator", "witnesses"}
    /\ Len(views) <= Len(WitnessURLs)
    /\ code \in {0, 1, 2, Running}

DivergenceIsFork ==
    code = 1 => \E a, b \in shown : a.size = b.size /\ a.root # b.root

KnownForkReported ==
    code = 0 =>
        \A i \in DOMAIN views :
            views[i].reachable /\ op.size \in DOMAIN before[WitnessURLs[i]] =>
                before[WitnessURLs[i]][op.size] = op.root

\* The exit code is right both ways, whatever is appended and cosigned between
\* the requests of a pass.  1 is a real fork: the operator signed two roots of
\* one size. 0 hides none that a witness which could be reached knew of when
\* the operator answered (pkg/watcher, Run).
ExitCodeIsRight == DivergenceIsFork /\ KnownForkReported

=============================================================================
