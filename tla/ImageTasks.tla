------------------------------ MODULE ImageTasks ------------------------------
(***************************************************************************)
(* The asynchronous image tasks of services/image_task_service.py: clients *)
(* submit under an identifier of their own and poll, a thread per task     *)
(* generates, failed polls can be continued, and the tasks are kept in a   *)
(* file that outlives the process.                                         *)
(*                                                                         *)
(* One action is one section under ImageTaskService._lock with the saves   *)
(* it makes.  A save may fail (SavesMayFail): the tasks in memory have     *)
(* changed by then, and the exception takes the caller where it takes it.  *)
(***************************************************************************)
EXTENDS Naturals, FiniteSets

CONSTANTS
    Keys,           \* owner and client_task_id, together the key of a task
    Threads,        \* bound: threads alive at once
    NoKey,          \* an idle thread has no task
    SavesMayFail,   \* whether writing the file can raise
    Restarts,       \* whether the process may die and start again
    ImagesUpstream  \* tasks whose image turns up upstream after the timeout

ASSUME TaskAssumption ==
    /\ NoKey \notin Keys
    /\ SavesMayFail \in BOOLEAN
    /\ Restarts \in BOOLEAN
    /\ ImagesUpstream \subseteq Keys

VARIABLES
    tasks,  \* _tasks: the record of each key, NoTask when there is none
    file,   \* the same, as last written to image_tasks.json
    job,    \* the key each thread works for
    pc,     \* where it is
    acked   \* keys some client has been told of, until the task expires

vars == <<tasks, file, job, pc, acked>>

Terminal   == {"success", "error"}
Unfinished == {"queued", "running"}

\* `why` is what the error text says, `conv` whether a conversation_id is kept,
\* `old` whether updated_at lies before the retention cutoff.
Task   == [status : Terminal \cup Unfinished, why : {"none", "timeout", "other"},
           conv : BOOLEAN, old : BOOLEAN]
NoTask == [status |-> "none", why |-> "none", conv |-> FALSE, old |-> FALSE]

Fresh(status, why, conv) ==
    [status |-> status, why |-> why, conv |-> conv, old |-> FALSE]

-----------------------------------------------------------------------------
(* The file and the retention.                                             *)

Saved(new)   == tasks' = new /\ file' = new
Unsaved(new) == SavesMayFail /\ tasks' = new /\ UNCHANGED file

Expired(ts) == {k \in Keys : ts[k].status \in Terminal /\ ts[k].old}
Cleanup(ts) == [k \in Keys |-> IF k \in Expired(ts) THEN NoTask ELSE ts[k]]

\* _update_task: an unknown key is left alone, any other is changed and saved.
Updated(k, status, why, conv) ==
    IF tasks[k] = NoTask THEN tasks
    ELSE [tasks EXCEPT ![k] = Fresh(status, why, conv)]

\* A thread leaves its task.
Leaves(h) ==
    /\ job' = [job EXCEPT ![h] = NoKey]
    /\ pc'  = [pc EXCEPT ![h] = "idle"]

-----------------------------------------------------------------------------
(* Clients.                                                                *)

\* Mutant of Submit: the task is looked up before the lock is taken, so a
\* repeated submission starts a thread of its own.
SubmitUnchecked(k) ==
    LET kept == Cleanup(tasks) IN
    /\ acked' = (acked \ Expired(tasks)) \cup {k}
    /\ \E h \in Threads :
           /\ pc[h] = "idle"
           /\ Saved([kept EXCEPT ![k] = Fresh("queued", "none", FALSE)])
           /\ job' = [job EXCEPT ![h] = k]
           /\ pc'  = [pc EXCEPT ![h] = "created"]

\* Mutant of Submit: the answer does not wait for the file.
SubmitUnsaved(k) ==
    LET kept == Cleanup(tasks) IN
    /\ kept[k] = NoTask
    /\ acked' = (acked \ Expired(tasks)) \cup {k}
    /\ tasks' = [kept EXCEPT ![k] = Fresh("queued", "none", FALSE)]
    /\ UNCHANGED file
    /\ \E h \in Threads :
           /\ pc[h] = "idle"
           /\ job' = [job EXCEPT ![h] = k]
           /\ pc'  = [pc EXCEPT ![h] = "created"]

\* _submit of a key that is known: the task is returned.  Expired tasks go first.
SubmitKnown(k) ==
    LET kept == Cleanup(tasks) IN
    /\ kept[k] # NoTask
    /\ IF Expired(tasks) = {}
       THEN UNCHANGED <<tasks, file>> /\ acked' = acked \cup {k}
       ELSE \/ Saved(kept) /\ acked' = (acked \ Expired(tasks)) \cup {k}
            \/ Unsaved(kept) /\ acked' = acked \ Expired(tasks)
    /\ UNCHANGED <<job, pc>>

\* _submit of a new key: the task is written before the client hears of it, then
\* a thread is started.  When the write fails the task stays, without a thread.
Submit(k) ==
    LET kept == Cleanup(tasks)
        new  == [kept EXCEPT ![k] = Fresh("queued", "none", FALSE)]
    IN /\ kept[k] = NoTask
       /\ \/ /\ Saved(new)
             /\ acked' = (acked \ Expired(tasks)) \cup {k}
             /\ \E h \in Threads : /\ pc[h] = "idle"
                                   /\ job' = [job EXCEPT ![h] = k]
                                   /\ pc'  = [pc EXCEPT ![h] = "created"]
          \/ /\ Unsaved(new)
             /\ acked' = acked \ Expired(tasks)
             /\ UNCHANGED <<job, pc>>

\* list_tasks and dashboard_summary only clean up.
ListTasks ==
    /\ Expired(tasks) # {}
    /\ Saved(Cleanup(tasks)) \/ Unsaved(Cleanup(tasks))
    /\ acked' = acked \ Expired(tasks)
    /\ UNCHANGED <<job, pc>>

\* Mutant of ResumePoll: the status is not set to running.
ResumePollKeepingStatus(k) ==
    /\ tasks[k].status = "error" /\ tasks[k].why = "timeout" /\ tasks[k].conv
    /\ \E h \in Threads : /\ pc[h] = "idle"
                          /\ job' = [job EXCEPT ![h] = k]
                          /\ pc'  = [pc EXCEPT ![h] = "resuming"]
    /\ UNCHANGED <<tasks, file, acked>>

\* resume_poll of a task that timed out and whose conversation is known.
ResumePoll(k) ==
    LET new == Updated(k, "running", "none", TRUE) IN
    /\ tasks[k].status = "error" /\ tasks[k].why = "timeout" /\ tasks[k].conv
    /\ \/ /\ Saved(new)
          /\ \E h \in Threads : /\ pc[h] = "idle"
                                /\ job' = [job EXCEPT ![h] = k]
                                /\ pc'  = [pc EXCEPT ![h] = "resuming"]
       \/ Unsaved(new) /\ UNCHANGED <<job, pc>>
    /\ UNCHANGED acked

-----------------------------------------------------------------------------
(* The threads: _run_task and _run_resume_poll.                            *)

\* The first update of _run_task is outside its try: the thread dies with it.
RunTask(h) ==
    LET new == Updated(job[h], "running", "none", tasks[job[h]].conv) IN
    /\ pc[h] = "created"
    /\ \/ /\ Saved(new)
          /\ pc' = [pc EXCEPT ![h] = "working"]
          /\ UNCHANGED job
       \/ Unsaved(new) /\ Leaves(h)
    /\ UNCHANGED acked

\* progress_callback: a failed save raises inside the handler.
Progress(h) ==
    /\ pc[h] = "working"
    /\ \/ Saved(tasks) /\ UNCHANGED pc
       \/ Unsaved(tasks) /\ pc' = [pc EXCEPT ![h] = "failing"]
    /\ UNCHANGED <<job, acked>>

\* The handler returned images.  The update is inside the try: when its save fails
\* the thread goes on to report an error.
TaskSucceeds(h) ==
    LET new == Updated(job[h], "success", "none", tasks[job[h]].conv) IN
    /\ pc[h] = "working"
    /\ \/ Saved(new) /\ Leaves(h)
       \/ Unsaved(new) /\ pc' = [pc EXCEPT ![h] = "failing"] /\ UNCHANGED job
    /\ UNCHANGED acked

\* Mutant of TaskFails: the exception is logged and the task left as it is.
TaskFailsSilently(h) ==
    /\ pc[h] \in {"working", "failing"}
    /\ Leaves(h)
    /\ UNCHANGED <<tasks, file, acked>>

\* The handler raised, returned no image, or a save did.  A timeout may carry the
\* conversation to continue.
TaskFails(h) ==
    /\ pc[h] \in {"working", "failing"}
    /\ \E why \in {"timeout", "other"}, conv \in BOOLEAN :
           /\ pc[h] = "failing" => why = "other" /\ ~conv
           /\ LET new == Updated(job[h], "error", why, conv \/ tasks[job[h]].conv)
              IN Saved(new) \/ Unsaved(new)
    /\ Leaves(h)
    /\ UNCHANGED acked

\* _run_resume_poll builds OpenAIBackendAPI(proxy_url=...), which takes no such
\* argument: the thread reports the TypeError before it polls anything.
ResumeFails(h) ==
    LET new == Updated(job[h], "error", "other", tasks[job[h]].conv) IN
    /\ pc[h] = "resuming"
    /\ Saved(new) \/ Unsaved(new)
    /\ Leaves(h)
    /\ UNCHANGED acked

-----------------------------------------------------------------------------
(* Time and restarts.                                                      *)

Aged(t) == [t EXCEPT !.old = TRUE]

\* At least one day passes over a finished task: its thread is long gone.
Age(k) ==
    /\ tasks[k].status \in Terminal /\ ~tasks[k].old
    /\ k \notin {job[h] : h \in Threads}
    /\ tasks' = [tasks EXCEPT ![k] = Aged(tasks[k])]
    /\ file'  = IF file[k] = NoTask THEN file ELSE [file EXCEPT ![k] = Aged(file[k])]
    /\ UNCHANGED <<job, pc, acked>>

\* _load_locked does not read conversation_id back.
Loaded == [k \in Keys |-> IF file[k] = NoTask THEN NoTask
                          ELSE [file[k] EXCEPT !.conv = FALSE]]

\* Mutants of Recovered: unfinished tasks are left as they are; every task is
\* taken for an unfinished one.
RecoveredAsTheyAre == Loaded
RecoveredAllFailed ==
    [k \in Keys |-> IF Loaded[k] = NoTask THEN NoTask ELSE Fresh("error", "other", FALSE)]

\* _recover_unfinished_locked
Recovered ==
    [k \in Keys |-> IF Loaded[k].status \in Unfinished
                    THEN Fresh("error", "other", FALSE) ELSE Loaded[k]]

\* The process dies and __init__ runs: load, recover, clean up, and save when
\* one of the two changed anything.
Restart ==
    LET kept == Cleanup(Recovered) IN
    /\ Restarts
    /\ tasks' = kept
    /\ file'  = IF kept = Loaded THEN file ELSE kept
    /\ acked' = acked \ Expired(Recovered)
    /\ job' = [h \in Threads |-> NoKey]
    /\ pc'  = [h \in Threads |-> "idle"]

-----------------------------------------------------------------------------
Init ==
    /\ tasks = [k \in Keys |-> NoTask]
    /\ file = [k \in Keys |-> NoTask]
    /\ job = [h \in Threads |-> NoKey]
    /\ pc = [h \in Threads |-> "idle"]
    /\ acked = {}

Client(k) == Submit(k) \/ SubmitKnown(k) \/ ResumePoll(k)
Step(h)   == RunTask(h) \/ TaskSucceeds(h) \/ TaskFails(h) \/ ResumeFails(h)

Next ==
    \/ \E k \in Keys : Client(k) \/ Age(k)
    \/ \E h \in Threads : Step(h) \/ Progress(h)
    \/ ListTasks
    \/ Restart

Spec == Init /\ [][Next]_vars

\* Handlers end: every network call and every poll has a timeout.
FairSpec == Spec /\ \A h \in Threads : WF_vars(Step(h))

-----------------------------------------------------------------------------
\* A busy thread has a task.
TypeOK ==
    /\ tasks \in [Keys -> Task \cup {NoTask}]
    /\ file \in [Keys -> Task \cup {NoTask}]
    /\ job \in [Threads -> Keys \cup {NoKey}]
    /\ pc \in [Threads -> {"idle", "created", "working", "failing", "resuming"}]
    /\ acked \subseteq Keys
    /\ \A h \in Threads : job[h] = NoKey <=> pc[h] = "idle"

\* One thread at most works for a task, whatever clients repeat: no image is paid
\* for twice, and nobody overwrites the result of another thread.
OneThreadEach ==
    \A h, i \in Threads : (h # i /\ job[h] # NoKey) => job[h] # job[i]

\* A task shown as queued or running has a thread that works for it.
NoTaskAbandoned ==
    \A k \in Keys : tasks[k].status \in Unfinished => \E h \in Threads : job[h] = k

\* A task a client has been told of is there until it expires, across restarts.
AcceptedTasksKept == \A k \in acked : tasks[k] # NoTask

\* A success is final: nothing but expiry (and a new submission then) ends it.
SuccessIsFinal ==
    [][\A k \in Keys : (tasks[k].status = "success" /\ tasks'[k].status # "success")
                           => tasks[k].old]_vars

\* The threads, the file and the locks implement the statuses clients rely on.
Lifecycle == INSTANCE TaskLifecycle WITH status <- [k \in Keys |-> tasks[k].status]
ImplementsLifecycle == Lifecycle!Spec

\* Every task a client submits comes to an end.
EveryTaskEnds ==
    \A k \in Keys : (tasks[k].status \in Unfinished) ~> (tasks[k].status \notin Unfinished)

\* A task that timed out gets its image when it is continued and the image is
\* there: what the resume-poll API is for.
ContinuedTaskRecovers ==
    \A k \in ImagesUpstream :
        (\E h \in Threads : job[h] = k /\ pc[h] = "resuming") ~> (tasks[k].status = "success")
=============================================================================
