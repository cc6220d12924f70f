---------------------------- MODULE MCOperations ----------------------------
(***************************************************************************)
(* The running of an operator, for TLC: threshold signing, the daemon      *)
(* process, the journals and alarms of its endpoints, anchoring, and keys  *)
(* on a token.  They share no state that their modules describe, so a      *)
(* behaviour of this module is about one of them, chosen at the start,     *)
(* while the others stand still.  Threshold is extended and keeps its      *)
(* names: every endpoint leads to the member's own cosigner, and m3 may    *)
(* have none.                                                              *)
(***************************************************************************)
EXTENDS Threshold, ServerPart, AnchoringPart, TokenPart

CONSTANTS m1, m2, m3

MCMembers == {m1, m2, m3}
MCRoutes == {[k \in S |-> k] : S \in {MCMembers, {m1, m2}}}

VARIABLE part  \* the component this behaviour is about

-----------------------------------------------------------------------------
Parts == {"threshold", "daemon", "api", "anchors", "hsm"}

\* Of a part that stands still, one initial state is enough.
AllInit ==
    /\ part \in Parts
    /\ Init /\ Process!Init /\ API!Init /\ Anchors!Init /\ Hsm!Init
    /\ part # "threshold" =>
          /\ route = CHOOSE r \in Routes : TRUE
          /\ msg = CHOOSE m \in Messages : TRUE
    /\ part # "daemon" => dFlags = {}

AllNext ==
    \/ /\ part = "threshold"
       /\ Next
       /\ UNCHANGED <<part, daemonVars, apiVars, anchorVars, hsmVars>>
    \/ /\ part = "daemon"
       /\ Process!Next
       /\ UNCHANGED <<part, vars, apiVars, anchorVars, hsmVars>>
    \/ /\ part = "api"
       /\ API!Next
       /\ UNCHANGED <<part, vars, daemonVars, anchorVars, hsmVars>>
    \/ /\ part = "anchors"
       /\ Anchors!Next
       /\ UNCHANGED <<part, vars, daemonVars, apiVars, hsmVars>>
    \/ /\ part = "hsm"
       /\ Hsm!Next
       /\ UNCHANGED <<part, vars, daemonVars, apiVars, anchorVars>>

allVars == <<part, vars, daemonVars, apiVars, anchorVars, hsmVars>>

\* The fairness of Threshold, Daemon and Endpoints, each in its own behaviours.
\* No action of Threshold that is fair can be taken before a Sign.
AllFairness ==
    /\ Fairness
    /\ WF_daemonVars(part = "daemon" /\ Process!Main)
    /\ WF_daemonVars(part = "daemon" /\ Process!Coordinator)
    /\ WF_daemonVars(part = "daemon" /\ Process!Tick)
    /\ WF_daemonVars(part = "daemon" /\ Process!Poll)
    /\ \A a \in ApiRequests \X Honeypots : WF_apiVars(API!Fire(a))

AllSpec == AllInit /\ [][AllNext]_allVars /\ AllFairness

=============================================================================
