------------------------------- MODULE MCTasks -------------------------------
(***************************************************************************)
(* The image tasks and the backups, side by side: work in threads that     *)
(* must end, on files a restart finds.  The parts share no variable, and a *)
(* behaviour is one of the part that Init selects: the other stays in an   *)
(* initial state.                                                          *)
(***************************************************************************)
EXTENDS ImageTasks, Backups, TLC

VARIABLE part

taskVars == <<part, vars, backupVars>>

TaskInit ==
    /\ part \in {"tasks", "backup"}
    /\ Init /\ BackupInit
    /\ part = "backup" \/ backupSettings = CHOOSE s \in BackupSettings : TRUE

TaskNext ==
    \/ part = "tasks"  /\ Next /\ UNCHANGED <<part, backupVars>>
    \/ part = "backup" /\ BackupNext /\ UNCHANGED <<part, vars>>

\* Handlers and the thread of a backup run, and their requests end.
TaskFairness ==
    /\ \A h \in Threads : WF_vars(part = "tasks" /\ Step(h))
    /\ WF_backupVars(part = "backup" /\ JobStep)

TaskSpec == TaskInit /\ [][TaskNext]_taskVars /\ TaskFairness
=============================================================================
