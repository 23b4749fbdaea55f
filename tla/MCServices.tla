----------------------------- MODULE MCServices -----------------------------
(***************************************************************************)
(* The services around the API, side by side. The parts share no variable, *)
(* and a behaviour is one of the part that Init selects: the others stay   *)
(* in an initial state.                                                    *)
(***************************************************************************)
EXTENDS ImageTasks, EditableTasks, ImageFiles, CallLog, KeyStore, TLC

VARIABLE part

serviceVars == <<part, vars, editableVars, imageVars, logVars, storeVars>>

ServiceInit ==
    /\ part \in {"tasks", "editable", "files", "log", "store"}
    /\ Init /\ EditableInit /\ ImageInit /\ LogInit /\ StoreInit
    /\ part = "files" \/ mode = "local"
    /\ part = "store" \/ backend = CHOOSE b \in Backends : TRUE

ServiceNext ==
    \/ part = "tasks"    /\ Next
       /\ UNCHANGED <<part, editableVars, imageVars, logVars, storeVars>>
    \/ part = "editable" /\ EditableNext
       /\ UNCHANGED <<part, vars, imageVars, logVars, storeVars>>
    \/ part = "files"    /\ ImageNext
       /\ UNCHANGED <<part, vars, editableVars, logVars, storeVars>>
    \/ part = "log"      /\ LogNext
       /\ UNCHANGED <<part, vars, editableVars, imageVars, storeVars>>
    \/ part = "store"    /\ StoreNext
       /\ UNCHANGED <<part, vars, editableVars, imageVars, logVars>>

ServiceSpec == ServiceInit /\ [][ServiceNext]_serviceVars
=============================================================================
