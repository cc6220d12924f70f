------------------------------ MODULE MCObservers ---------------------------
(***************************************************************************)
(* The producers and the parts that observe a log, for TLC: enrollment,    *)
(* the read API with its clients, the mirror, the tripwire and the         *)
(* watcher.  Each is about a log of its own and none reads what another    *)
(* one writes, so a behaviour of one of them does not depend on the rest.  *)
(* A behaviour of this module is therefore about one of them, chosen at    *)
(* the start, while the others stand still.  Enrollment is extended and    *)
(* keeps its names.                                                        *)
(***************************************************************************)
EXTENDS Enrollment, ReadersPart, WatcherPart

MCWitnessURLs == <<"w1", "w2">>

VARIABLE part  \* the component this behaviour is about

-----------------------------------------------------------------------------
Parts == {"producers", "reads", "copy", "alarm", "watch"}

\* Of a part that stands still, one initial state is enough.
AllInit ==
    /\ part \in Parts
    /\ part # "producers" => hybrid = FALSE
    /\ Init /\ Reads!Init /\ Copy!Init /\ Alarm!Init /\ Watch!Init

AllNext ==
    \/ /\ part = "producers"
       /\ Next
       /\ UNCHANGED <<part, readsVars, copyVars, alarmVars, watchVars>>
    \/ /\ part = "reads"
       /\ Reads!Next
       /\ UNCHANGED <<part, vars, copyVars, alarmVars, watchVars>>
    \/ /\ part = "copy"
       /\ Copy!Next
       /\ UNCHANGED <<part, vars, readsVars, alarmVars, watchVars>>
    \/ /\ part = "alarm"
       /\ Alarm!Next
       /\ UNCHANGED <<part, vars, readsVars, copyVars, watchVars>>
    \/ /\ part = "watch"
       /\ Watch!Next
       /\ UNCHANGED <<part, vars, readsVars, copyVars, alarmVars>>

allVars == <<part, vars, readsVars, copyVars, alarmVars, watchVars>>

AllSpec == AllInit /\ [][AllNext]_allVars

=============================================================================
