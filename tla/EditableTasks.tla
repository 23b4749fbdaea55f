---------------------------- MODULE EditableTasks ----------------------------
(***************************************************************************)
(* The tasks that make PPT and PSD files (services/                        *)
(* editable_file_task_service.py) and the export each of them runs         *)
(* (services/openai_backend_api.py): a client submits a task under an id   *)
(* of its own and asks for it again and again; a thread runs it; the tasks *)
(* are saved after every change and recovered when the process starts.     *)
(***************************************************************************)
EXTENDS Naturals, FiniteSets, Functions

CONSTANTS
    Owners, TaskIds,
    MaxStoreFaults   \* bound: crashes and saves that fail

ASSUME EditableAssumption == MaxStoreFaults \in Nat

VARIABLES
    fileTasks,   \* _tasks: the status of each task there is
    saved,       \* editable_file_tasks.json
    exporting,   \* the threads under way: what each is about to do
    paid,        \* how many generations upstream made for each task
    storeFaults

editableVars == <<fileTasks, saved, exporting, paid, storeFaults>>

TaskKeys        == Owners \X TaskIds
UnfinishedFiles == {"queued", "running"}
SetStatus(function, key, status) ==
    [x \in DOMAIN function \cup {key} |-> IF x = key THEN status ELSE function[x]]
StoreFault == storeFaults < MaxStoreFaults /\ storeFaults' = storeFaults + 1

\* _save_locked writes another file and puts it in place of the old one, or raises.
SaveTasks  == saved' = fileTasks' /\ UNCHANGED storeFaults
SaveBreaks == StoreFault /\ UNCHANGED saved

-----------------------------------------------------------------------------
(* _submit: the task is saved before its thread is started.                *)

\* A task that is there already is shown to the client as it is.
SubmitNew(key) ==
    /\ key \notin DOMAIN fileTasks
    /\ fileTasks' = SetStatus(fileTasks, key, "queued")
    /\ \/ SaveTasks /\ exporting' = SetStatus(exporting, key, "starting")
       \/ SaveBreaks /\ UNCHANGED exporting
    /\ UNCHANGED paid

-----------------------------------------------------------------------------
(* _run_task.                                                              *)

ThreadAt(key, pc)   == key \in DOMAIN exporting /\ exporting[key] = pc
ThreadGoes(key, pc) == exporting' = [exporting EXCEPT ![key] = pc]
ThreadDies(key)     == exporting' = Restrict(exporting, DOMAIN exporting \ {key})

\* The first update is made before anything is caught.
RunFileTask(key) ==
    /\ ThreadAt(key, "starting")
    /\ fileTasks' = SetStatus(fileTasks, key, "running")
    /\ \/ SaveTasks /\ ThreadGoes(key, "preparing")
       \/ SaveBreaks /\ ThreadDies(key)
    /\ UNCHANGED paid

\* The checks, the choice of an account and the refresh of its token, the uploads and the
\* preparation of the conversation.
PrepareExport(key) ==
    /\ ThreadAt(key, "preparing")
    /\ \/ ThreadGoes(key, "conversing")
       \/ ThreadGoes(key, "failing")
    /\ UNCHANGED <<fileTasks, saved, paid, storeFaults>>

\* The conversation makes the files; the stream may break or tell no conversation id.
Converse(key) ==
    /\ ThreadAt(key, "conversing")
    /\ paid' = [paid EXCEPT ![key] = @ + 1]
    /\ \/ ThreadGoes(key, "waiting")
       \/ ThreadGoes(key, "failing")
    /\ UNCHANGED <<fileTasks, saved, storeFaults>>

\* The document is read until it has both files, or the time is over.
AwaitFiles(key) ==
    /\ ThreadAt(key, "waiting")
    /\ \/ ThreadGoes(key, "downloading")
       \/ ThreadGoes(key, "failing")
    /\ UNCHANGED <<fileTasks, saved, paid, storeFaults>>

\* The files are downloaded one by one, and both must be there.
Download(key) ==
    /\ ThreadAt(key, "downloading")
    /\ \/ ThreadGoes(key, "succeeding")
       \/ ThreadGoes(key, "failing")
    /\ UNCHANGED <<fileTasks, saved, paid, storeFaults>>

\* A success that cannot be saved is an error, which then cannot be saved either or can.
FileTaskSucceeds(key) ==
    /\ ThreadAt(key, "succeeding")
    /\ fileTasks' = SetStatus(fileTasks, key, "success")
    /\ \/ SaveTasks /\ ThreadDies(key)
       \/ SaveBreaks /\ ThreadGoes(key, "failing")
    /\ UNCHANGED paid

FileTaskFails(key) ==
    /\ ThreadAt(key, "failing")
    /\ fileTasks' = SetStatus(fileTasks, key, "error")
    /\ ThreadDies(key)
    /\ SaveTasks \/ SaveBreaks
    /\ UNCHANGED paid

-----------------------------------------------------------------------------
\* Mutant: tasks that were not finished are run again.
RestartRunning ==
    /\ StoreFault
    /\ fileTasks' = [key \in DOMAIN saved |->
                     IF saved[key] \in UnfinishedFiles THEN "queued" ELSE saved[key]]
    /\ exporting' = [key \in {k \in DOMAIN saved : saved[k] \in UnfinishedFiles} |-> "starting"]
    /\ saved' = fileTasks'
    /\ UNCHANGED paid

\* The process dies, and recovers what it had saved: unfinished tasks have failed.
RestartTasks ==
    /\ StoreFault
    /\ fileTasks' = [key \in DOMAIN saved |->
                     IF saved[key] \in UnfinishedFiles THEN "error" ELSE saved[key]]
    /\ exporting' = <<>>
    /\ saved' = fileTasks'
    /\ UNCHANGED paid

EditableInit ==
    /\ fileTasks = <<>> /\ saved = <<>> /\ exporting = <<>>
    /\ paid = [key \in TaskKeys |-> 0]
    /\ storeFaults = 0

EditableNext ==
    \/ RestartTasks
    \/ \E key \in TaskKeys :
          \/ SubmitNew(key) \/ RunFileTask(key) \/ PrepareExport(key) \/ Converse(key)
          \/ AwaitFiles(key) \/ Download(key) \/ FileTaskSucceeds(key) \/ FileTaskFails(key)

EditableSpec == EditableInit /\ [][EditableNext]_editableVars

-----------------------------------------------------------------------------
\* A task is paid for once, however often its client submits it, whatever saves fail, and
\* however often the process dies: what may have been generated is never made again.
PaidOnce == \A key \in TaskKeys : paid[key] <= 1
=============================================================================
