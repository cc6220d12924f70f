------------------------------ MODULE MCServices ----------------------------
(***************************************************************************)
(* The services around a log, for TLC: the signing key and its rotations,  *)
(* the journals of the API, the ingest gate, the rotation watchdog, and    *)
(* backup with recovery.  They share no state, so a behaviour of one of    *)
(* them does not depend on the rest; a behaviour of this module is about   *)
(* one of them, chosen at the start, while the others stand still.  FwdSec *)
(* is extended and keeps its names.                                        *)
(***************************************************************************)
EXTENDS FwdSec, JournalPart, GatePart, UpkeepPart

VARIABLE part  \* the component this behaviour is about

-----------------------------------------------------------------------------
Parts == {"signer", "journals", "gate", "dog", "backup"}

\* Of a part that stands still, one initial state is enough.
AllInit ==
    /\ part \in Parts
    /\ Init /\ Journals!Init /\ Gate!Init /\ Dog!Init /\ Backup!Init
    /\ part # "signer" => /\ hybrid = CHOOSE m \in HybridModes : TRUE
                          /\ threshold = CHOOSE m \in ThresholdModes : TRUE

AllNext ==
    \/ /\ part = "signer"
       /\ Next
       /\ UNCHANGED <<part, journalsVars, gateVars, dogVars, backupVars>>
    \/ /\ part = "journals"
       /\ Journals!Next
       /\ UNCHANGED <<part, vars, gateVars, dogVars, backupVars>>
    \/ /\ part = "gate"
       /\ Gate!Next
       /\ UNCHANGED <<part, vars, journalsVars, dogVars, backupVars>>
    \/ /\ part = "dog"
       /\ Dog!Next
       /\ UNCHANGED <<part, vars, journalsVars, gateVars, backupVars>>
    \/ /\ part = "backup"
       /\ Backup!Next
       /\ UNCHANGED <<part, vars, journalsVars, gateVars, dogVars>>

allVars == <<part, vars, journalsVars, gateVars, dogVars, backupVars>>

AllSpec == AllInit /\ [][AllNext]_allVars

=============================================================================
