--------------------------- MODULE ImageTasks_proofs ---------------------------
(* Proofs about the image tasks, for every number of keys and threads.     *)
EXTENDS ImageTasks, TLAPS

\* What each stage of a thread says about its task; the reason why a second thread
\* is never started: a task with a thread is not expired, and its status is one
\* neither a submission nor a resume-poll takes up.
StageMatchesTask ==
    \A h \in Threads :
        /\ job[h] # NoKey => ~tasks[job[h]].old
        /\ pc[h] = "created" => tasks[job[h]].status = "queued"
        /\ pc[h] \in {"working", "resuming"} => tasks[job[h]].status = "running"
        /\ pc[h] = "failing" => tasks[job[h]].status \in {"running", "success"}

ThreadInv == TypeOK /\ StageMatchesTask /\ OneThreadEach

-----------------------------------------------------------------------------
(* Types.                                                                  *)

LEMMA FreshType ==
    ASSUME NEW s \in Terminal \cup Unfinished, NEW w \in {"none", "timeout", "other"},
           NEW c \in BOOLEAN
    PROVE  Fresh(s, w, c) \in Task
BY DEF Fresh, Task

LEMMA CleanupType ==
    ASSUME NEW ts \in [Keys -> Task \cup {NoTask}]
    PROVE  Cleanup(ts) \in [Keys -> Task \cup {NoTask}]
BY DEF Cleanup

LEMMA UpdatedType ==
    ASSUME TypeOK, NEW k \in Keys \cup {NoKey}, NEW s \in Terminal \cup Unfinished,
           NEW w \in {"none", "timeout", "other"}, NEW c \in BOOLEAN
    PROVE  Updated(k, s, w, c) \in [Keys -> Task \cup {NoTask}]
BY FreshType DEF Updated, TypeOK

LEMMA ConvType ==
    ASSUME TypeOK, NEW k \in Keys
    PROVE  tasks[k].conv \in BOOLEAN
<1>1. tasks[k] \in Task \/ tasks[k] = NoTask
    BY DEF TypeOK
<1>2. \A t \in Task : t.conv \in BOOLEAN
    BY DEF Task
<1>3. NoTask.conv \in BOOLEAN
    BY DEF NoTask
<1> QED BY <1>1, <1>2, <1>3

LEMMA BusyThread ==
    ASSUME TypeOK, NEW h \in Threads, pc[h] # "idle"
    PROVE  job[h] \in Keys
BY DEF TypeOK

LEMMA LeavesType ==
    ASSUME TypeOK, NEW h \in Threads, Leaves(h)
    PROVE  /\ job' \in [Threads -> Keys \cup {NoKey}]
           /\ pc' \in [Threads -> {"idle", "created", "working", "failing", "resuming"}]
           /\ \A i \in Threads : job'[i] = NoKey <=> pc'[i] = "idle"
BY DEF TypeOK, Leaves

LEMMA SavingType ==
    ASSUME TypeOK, NEW new \in [Keys -> Task \cup {NoTask}], Saved(new) \/ Unsaved(new)
    PROVE  /\ tasks' \in [Keys -> Task \cup {NoTask}]
           /\ file' \in [Keys -> Task \cup {NoTask}]
BY DEF TypeOK, Saved, Unsaved

LEMMA StepType ==
    ASSUME TypeOK, NEW h \in Threads, Step(h) \/ Progress(h)
    PROVE  TypeOK'
<1>1. CASE RunTask(h)
    <2>1. job[h] \in Keys /\ tasks[job[h]].conv \in BOOLEAN
        BY <1>1, BusyThread, ConvType DEF RunTask
    <2>2. Updated(job[h], "running", "none", tasks[job[h]].conv)
              \in [Keys -> Task \cup {NoTask}]
        BY <2>1, UpdatedType DEF Unfinished
    <2>3. /\ tasks' \in [Keys -> Task \cup {NoTask}]
          /\ file' \in [Keys -> Task \cup {NoTask}]
        BY <1>1, <2>2, SavingType DEF RunTask
    <2> QED BY <1>1, <2>3, LeavesType, TaskAssumption DEF RunTask, TypeOK
<1>2. CASE TaskSucceeds(h)
    <2>1. job[h] \in Keys /\ tasks[job[h]].conv \in BOOLEAN
        BY <1>2, BusyThread, ConvType DEF TaskSucceeds
    <2>2. Updated(job[h], "success", "none", tasks[job[h]].conv)
              \in [Keys -> Task \cup {NoTask}]
        BY <2>1, UpdatedType DEF Terminal
    <2>3. /\ tasks' \in [Keys -> Task \cup {NoTask}]
          /\ file' \in [Keys -> Task \cup {NoTask}]
        BY <1>2, <2>2, SavingType DEF TaskSucceeds
    <2> QED BY <1>2, <2>3, LeavesType, TaskAssumption DEF TaskSucceeds, TypeOK
<1>3. CASE TaskFails(h)
    <2>1. job[h] \in Keys /\ tasks[job[h]].conv \in BOOLEAN
        BY <1>3, BusyThread, ConvType DEF TaskFails
    <2>2. PICK why \in {"timeout", "other"}, conv \in BOOLEAN :
              \/ Saved(Updated(job[h], "error", why, conv \/ tasks[job[h]].conv))
              \/ Unsaved(Updated(job[h], "error", why, conv \/ tasks[job[h]].conv))
        BY <1>3 DEF TaskFails
    <2>3. (conv \/ tasks[job[h]].conv) \in BOOLEAN
        OBVIOUS
    <2>4. Updated(job[h], "error", why, conv \/ tasks[job[h]].conv)
              \in [Keys -> Task \cup {NoTask}]
        BY <2>1, <2>3, UpdatedType DEF Terminal
    <2>5. /\ tasks' \in [Keys -> Task \cup {NoTask}]
          /\ file' \in [Keys -> Task \cup {NoTask}]
        BY <2>2, <2>4, SavingType
    <2> QED BY <1>3, <2>5, LeavesType DEF TaskFails, TypeOK
<1>4. CASE ResumeFails(h)
    <2>1. job[h] \in Keys /\ tasks[job[h]].conv \in BOOLEAN
        BY <1>4, BusyThread, ConvType DEF ResumeFails
    <2>2. Updated(job[h], "error", "other", tasks[job[h]].conv)
              \in [Keys -> Task \cup {NoTask}]
        BY <2>1, UpdatedType DEF Terminal
    <2>3. /\ tasks' \in [Keys -> Task \cup {NoTask}]
          /\ file' \in [Keys -> Task \cup {NoTask}]
        BY <1>4, <2>2, SavingType DEF ResumeFails
    <2> QED BY <1>4, <2>3, LeavesType DEF ResumeFails, TypeOK
<1>5. CASE Progress(h)
    <2>1. /\ tasks' \in [Keys -> Task \cup {NoTask}]
          /\ file' \in [Keys -> Task \cup {NoTask}]
        BY <1>5, SavingType DEF Progress, TypeOK
    <2> QED BY <1>5, <2>1 DEF Progress, TypeOK
<1> QED BY <1>1, <1>2, <1>3, <1>4, <1>5 DEF Step

LEMMA ClientType ==
    ASSUME TypeOK, NEW k \in Keys, Client(k) \/ Age(k)
    PROVE  TypeOK'
<1>0. Cleanup(tasks) \in [Keys -> Task \cup {NoTask}]
    BY CleanupType DEF TypeOK
<1>1. CASE Submit(k)
    <2>1. [Cleanup(tasks) EXCEPT ![k] = Fresh("queued", "none", FALSE)]
              \in [Keys -> Task \cup {NoTask}]
        BY <1>0, FreshType DEF Unfinished
    <2>2. /\ tasks' \in [Keys -> Task \cup {NoTask}]
          /\ file' \in [Keys -> Task \cup {NoTask}]
        BY <1>1, <2>1, SavingType DEF Submit
    <2> QED BY <1>1, <2>2, TaskAssumption DEF Submit, TypeOK
<1>2. CASE SubmitKnown(k)
    <2>1. /\ tasks' \in [Keys -> Task \cup {NoTask}]
          /\ file' \in [Keys -> Task \cup {NoTask}]
        BY <1>0, <1>2, SavingType DEF SubmitKnown, TypeOK
    <2> QED BY <1>2, <2>1 DEF SubmitKnown, TypeOK
<1>3. CASE ResumePoll(k)
    <2>1. Updated(k, "running", "none", TRUE) \in [Keys -> Task \cup {NoTask}]
        BY UpdatedType DEF Unfinished
    <2>2. /\ tasks' \in [Keys -> Task \cup {NoTask}]
          /\ file' \in [Keys -> Task \cup {NoTask}]
        BY <1>3, <2>1, SavingType DEF ResumePoll
    <2>3. CASE UNCHANGED <<job, pc>>
        BY <1>3, <2>2, <2>3 DEF ResumePoll, TypeOK
    <2>4. ASSUME NEW h \in Threads, pc[h] = "idle", job' = [job EXCEPT ![h] = k],
                 pc' = [pc EXCEPT ![h] = "resuming"]
          PROVE  TypeOK'
        <3>1. acked' = acked
            BY <1>3 DEF ResumePoll
        <3>2. /\ job' \in [Threads -> Keys \cup {NoKey}]
              /\ pc' \in [Threads -> {"idle", "created", "working", "failing", "resuming"}]
              /\ \A i \in Threads : job'[i] = NoKey <=> pc'[i] = "idle"
            BY <2>4, TaskAssumption DEF TypeOK
        <3> QED BY <2>2, <3>1, <3>2 DEF TypeOK
    <2> QED BY <1>3, <2>3, <2>4 DEF ResumePoll
<1>4. CASE Age(k)
    <2>1. \A t \in Task : Aged(t) \in Task
        BY DEF Aged, Task
    <2>2. tasks[k] \in Task
        BY <1>4 DEF Age, TypeOK, NoTask, Terminal
    <2>3. file[k] # NoTask => file[k] \in Task
        BY DEF TypeOK
    <2> QED BY <1>4, <2>1, <2>2, <2>3 DEF Age, TypeOK
<1> QED BY <1>1, <1>2, <1>3, <1>4 DEF Client

LEMMA RecoveredType ==
    ASSUME TypeOK
    PROVE  Recovered \in [Keys -> Task \cup {NoTask}]
<1>1. \A t \in Task : [t EXCEPT !.conv = FALSE] \in Task
    BY DEF Task
<1>2. Loaded \in [Keys -> Task \cup {NoTask}]
    BY <1>1 DEF Loaded, TypeOK
<1>3. Fresh("error", "other", FALSE) \in Task
    BY FreshType DEF Terminal
<1> QED BY <1>2, <1>3 DEF Recovered

\* Type correctness, whatever fails and whoever repeats what.
THEOREM TasksTypeCorrect == Spec => []TypeOK
<1>1. Init => TypeOK
    BY TaskAssumption DEF Init, TypeOK
<1>2. TypeOK /\ [Next]_vars => TypeOK'
    <2> SUFFICES ASSUME TypeOK, [Next]_vars PROVE TypeOK'
        OBVIOUS
    <2>1. ASSUME NEW k \in Keys, Client(k) \/ Age(k) PROVE TypeOK'
        BY <2>1, ClientType
    <2>2. ASSUME NEW h \in Threads, Step(h) \/ Progress(h) PROVE TypeOK'
        BY <2>2, StepType
    <2>3. CASE ListTasks
        <3>1. Cleanup(tasks) \in [Keys -> Task \cup {NoTask}]
            BY CleanupType DEF TypeOK
        <3> QED BY <2>3, <3>1, SavingType DEF ListTasks, TypeOK
    <2>4. CASE Restart
        <3>1. Cleanup(Recovered) \in [Keys -> Task \cup {NoTask}]
            BY RecoveredType, CleanupType
        <3> QED BY <2>4, <3>1, TaskAssumption DEF Restart, TypeOK
    <2>5. CASE UNCHANGED vars
        BY <2>5 DEF vars, TypeOK
    <2> QED BY <2>1, <2>2, <2>3, <2>4, <2>5 DEF Next
<1> QED BY <1>1, <1>2, PTL DEF Spec
-----------------------------------------------------------------------------
(* One thread per task.                                                    *)

\* A key the cleaned-up table does not know has no thread.
LEMMA UnknownIsFree ==
    ASSUME ThreadInv, NEW k \in Keys, Cleanup(tasks)[k] = NoTask, NEW h \in Threads
    PROVE  job[h] # k
<1> SUFFICES ASSUME job[h] = k PROVE FALSE
    OBVIOUS
<1>1. ~tasks[k].old /\ tasks[k].status \in Terminal \cup Unfinished
    BY TaskAssumption DEF ThreadInv, TypeOK, StageMatchesTask, Terminal, Unfinished
<1>2. k \notin Expired(tasks)
    BY <1>1 DEF Expired
<1>3. tasks[k] = NoTask
    BY <1>2 DEF Cleanup
<1> QED BY <1>1, <1>3 DEF NoTask, Terminal, Unfinished

\* Cleaning up spares every task that has a thread.
LEMMA CleanupSparesBusy ==
    ASSUME ThreadInv, NEW h \in Threads, job[h] # NoKey
    PROVE  Cleanup(tasks)[job[h]] = tasks[job[h]]
BY DEF ThreadInv, TypeOK, StageMatchesTask, Cleanup, Expired

LEMMA UpdatedKey ==
    ASSUME TypeOK, NEW k \in Keys, tasks[k].status # "none",
           NEW s, NEW w, NEW c
    PROVE  Updated(k, s, w, c) = [tasks EXCEPT ![k] = Fresh(s, w, c)]
BY DEF Updated, NoTask

LEMMA FreshFields ==
    ASSUME NEW s, NEW w, NEW c
    PROVE  Fresh(s, w, c).status = s /\ Fresh(s, w, c).old = FALSE
BY DEF Fresh

LEMMA LeavesOthers ==
    ASSUME TypeOK, NEW h \in Threads, Leaves(h)
    PROVE  /\ job'[h] = NoKey /\ pc'[h] = "idle"
           /\ \A i \in Threads \ {h} : job'[i] = job[i] /\ pc'[i] = pc[i]
BY DEF TypeOK, Leaves

LEMMA StepThreads ==
    ASSUME ThreadInv, NEW h \in Threads, Step(h) \/ Progress(h)
    PROVE  StageMatchesTask' /\ OneThreadEach'
<1> USE DEF ThreadInv
<1>1. pc[h] # "idle" /\ job[h] \in Keys /\ tasks[job[h]].status # "none"
    BY BusyThread DEF Step, Progress, RunTask, TaskSucceeds, TaskFails, ResumeFails,
                      StageMatchesTask, TypeOK
<1>2. \A i \in Threads \ {h} : job[i] # job[h]
    BY <1>1, TaskAssumption DEF OneThreadEach
<1>3. CASE RunTask(h)
    <2>1. PICK c : tasks' = [tasks EXCEPT ![job[h]] = Fresh("running", "none", c)]
        BY <1>1, <1>3, UpdatedKey DEF RunTask, Saved, Unsaved
    <2>2. tasks'[job[h]].status = "running" /\ ~tasks'[job[h]].old
        BY <1>1, <2>1 DEF TypeOK, Fresh
    <2>3. \A k \in Keys \ {job[h]} : tasks'[k] = tasks[k]
        BY <2>1 DEF TypeOK
    <2>4. CASE pc' = [pc EXCEPT ![h] = "working"] /\ job' = job
        BY <1>1, <1>2, <2>2, <2>3, <2>4 DEF StageMatchesTask, OneThreadEach, TypeOK
    <2>5. CASE Leaves(h)
        BY <1>2, <2>3, <2>5, LeavesOthers DEF StageMatchesTask, OneThreadEach, TypeOK
    <2> QED BY <1>3, <2>4, <2>5 DEF RunTask
<1>4. CASE TaskSucceeds(h)
    <2>1. PICK c : tasks' = [tasks EXCEPT ![job[h]] = Fresh("success", "none", c)]
        BY <1>1, <1>4, UpdatedKey DEF TaskSucceeds, Saved, Unsaved
    <2>2. tasks'[job[h]].status = "success" /\ ~tasks'[job[h]].old
        BY <1>1, <2>1 DEF TypeOK, Fresh
    <2>3. \A k \in Keys \ {job[h]} : tasks'[k] = tasks[k]
        BY <2>1 DEF TypeOK
    <2>4. CASE pc' = [pc EXCEPT ![h] = "failing"] /\ job' = job
        BY <1>1, <1>2, <2>2, <2>3, <2>4 DEF StageMatchesTask, OneThreadEach, TypeOK
    <2>5. CASE Leaves(h)
        BY <1>2, <2>3, <2>5, LeavesOthers DEF StageMatchesTask, OneThreadEach, TypeOK
    <2> QED BY <1>4, <2>4, <2>5 DEF TaskSucceeds
<1>5. CASE TaskFails(h) \/ ResumeFails(h)
    <2>1. PICK w, c : tasks' = [tasks EXCEPT ![job[h]] = Fresh("error", w, c)]
        BY <1>1, <1>5, UpdatedKey DEF TaskFails, ResumeFails, Saved, Unsaved
    <2>2. Leaves(h)
        BY <1>5 DEF TaskFails, ResumeFails
    <2> QED BY <1>1, <1>2, <2>1, <2>2 DEF Leaves, StageMatchesTask, OneThreadEach, TypeOK
<1>6. CASE Progress(h)
    <2>1. tasks' = tasks /\ job' = job
          /\ (pc' = pc \/ pc' = [pc EXCEPT ![h] = "failing"]) /\ pc[h] = "working"
        BY <1>6 DEF Progress, Saved, Unsaved
    <2> QED BY <2>1 DEF StageMatchesTask, OneThreadEach, TypeOK
<1> QED BY <1>3, <1>4, <1>5, <1>6 DEF Step

LEMMA ClientThreads ==
    ASSUME ThreadInv, NEW k \in Keys, Client(k) \/ Age(k)
    PROVE  StageMatchesTask' /\ OneThreadEach'
<1> USE DEF ThreadInv
<1>0. Cleanup(tasks) \in [Keys -> Task \cup {NoTask}]
    BY CleanupType DEF TypeOK
<1>1. CASE Submit(k)
    <2>1. tasks' = [Cleanup(tasks) EXCEPT ![k] = Fresh("queued", "none", FALSE)]
        BY <1>1 DEF Submit, Saved, Unsaved
    <2>2. \A h \in Threads : job[h] # k
        BY <1>1, UnknownIsFree DEF Submit
    <2>3. \A h \in Threads : job[h] # NoKey => tasks'[job[h]] = tasks[job[h]]
        BY <1>0, <2>1, <2>2, CleanupSparesBusy DEF TypeOK
    <2>4. tasks'[k].status = "queued" /\ ~tasks'[k].old
        BY <1>0, <2>1, FreshFields
    <2>5. CASE UNCHANGED <<job, pc>>
        BY <2>3, <2>5 DEF StageMatchesTask, OneThreadEach, TypeOK
    <2>6. ASSUME NEW h \in Threads, pc[h] = "idle",
                 job' = [job EXCEPT ![h] = k], pc' = [pc EXCEPT ![h] = "created"]
          PROVE  StageMatchesTask' /\ OneThreadEach'
        BY <2>2, <2>3, <2>4, <2>6 DEF StageMatchesTask, OneThreadEach, TypeOK
    <2> QED BY <1>1, <2>5, <2>6 DEF Submit
<1>2. CASE SubmitKnown(k)
    <2>1. tasks' = tasks \/ tasks' = Cleanup(tasks)
        BY <1>2 DEF SubmitKnown, Saved, Unsaved
    <2>2. \A h \in Threads : job[h] # NoKey => tasks'[job[h]] = tasks[job[h]]
        BY <2>1, CleanupSparesBusy
    <2> QED BY <1>2, <2>2 DEF SubmitKnown, StageMatchesTask, OneThreadEach, TypeOK
<1>3. CASE ResumePoll(k)
    <2>1. tasks[k].status = "error"
        BY <1>3 DEF ResumePoll
    <2>2. tasks' = [tasks EXCEPT ![k] = Fresh("running", "none", TRUE)]
        <3>1. tasks' = Updated(k, "running", "none", TRUE)
            BY <1>3 DEF ResumePoll, Saved, Unsaved
        <3>2. tasks[k] # NoTask
            BY <2>1 DEF NoTask
        <3> QED BY <3>1, <3>2 DEF Updated
    <2>3. \A h \in Threads : job[h] # k
        BY <2>1, TaskAssumption DEF StageMatchesTask, TypeOK
    <2>4. tasks'[k].status = "running" /\ ~tasks'[k].old
        BY <2>2, FreshFields DEF TypeOK
    <2>5. \A h \in Threads : job[h] # NoKey => tasks'[job[h]] = tasks[job[h]]
        BY <2>2, <2>3 DEF TypeOK
    <2>6. CASE UNCHANGED <<job, pc>>
        BY <2>5, <2>6 DEF StageMatchesTask, OneThreadEach, TypeOK
    <2>7. ASSUME NEW h \in Threads, pc[h] = "idle",
                 job' = [job EXCEPT ![h] = k], pc' = [pc EXCEPT ![h] = "resuming"]
          PROVE  StageMatchesTask' /\ OneThreadEach'
        BY <2>3, <2>4, <2>5, <2>7 DEF StageMatchesTask, OneThreadEach, TypeOK
    <2> QED BY <1>3, <2>6, <2>7 DEF ResumePoll
<1>4. CASE Age(k)
    <2>1. \A h \in Threads : job[h] # k
        BY <1>4 DEF Age
    <2>2. \A h \in Threads : job[h] # NoKey => tasks'[job[h]] = tasks[job[h]]
        BY <1>4, <2>1 DEF Age, TypeOK
    <2> QED BY <1>4, <2>2 DEF Age, StageMatchesTask, OneThreadEach, TypeOK
<1> QED BY <1>1, <1>2, <1>3, <1>4 DEF Client

LEMMA ThreadInvariant == Spec => []ThreadInv
<1>1. Init => ThreadInv
    BY TaskAssumption DEF Init, ThreadInv, TypeOK, StageMatchesTask, OneThreadEach
<1>2. TypeOK /\ TypeOK' /\ ThreadInv /\ [Next]_vars => ThreadInv'
    <2> SUFFICES ASSUME ThreadInv, [Next]_vars
                 PROVE  StageMatchesTask' /\ OneThreadEach'
        BY DEF ThreadInv
    <2>1. ASSUME NEW k \in Keys, Client(k) \/ Age(k)
          PROVE  StageMatchesTask' /\ OneThreadEach'
        BY <2>1, ClientThreads
    <2>2. ASSUME NEW h \in Threads, Step(h) \/ Progress(h)
          PROVE  StageMatchesTask' /\ OneThreadEach'
        BY <2>2, StepThreads
    <2>3. CASE ListTasks
        <3>1. tasks' = Cleanup(tasks) /\ UNCHANGED <<job, pc>>
            BY <2>3 DEF ListTasks, Saved, Unsaved
        <3>2. \A h \in Threads : job[h] # NoKey => tasks'[job[h]] = tasks[job[h]]
            BY <3>1, CleanupSparesBusy
        <3> QED BY <3>1, <3>2 DEF ThreadInv, StageMatchesTask, OneThreadEach, TypeOK
    <2>4. CASE Restart
        BY <2>4 DEF Restart, StageMatchesTask, OneThreadEach
    <2>5. CASE UNCHANGED vars
        BY <2>5 DEF vars, ThreadInv, StageMatchesTask, OneThreadEach
    <2> QED BY <2>1, <2>2, <2>3, <2>4, <2>5 DEF Next
<1> QED BY <1>1, <1>2, TasksTypeCorrect, PTL DEF Spec

\* One thread at most works for a task: repeated submissions, concurrent
\* continuations, expiry, restarts and failing saves never start a second one.
THEOREM OneThreadEachHolds == Spec => []OneThreadEach
<1>1. ThreadInv => OneThreadEach
    BY DEF ThreadInv
<1> QED BY <1>1, ThreadInvariant, PTL

-----------------------------------------------------------------------------
(* No task without a thread, when saves succeed.                           *)

\* Every action but the end of a thread leaves the threads of the other tasks.
LEMMA NotAbandonedStep ==
    ASSUME ~SavesMayFail, ThreadInv, NoTaskAbandoned, NEW h \in Threads,
           Step(h) \/ Progress(h)
    PROVE  NoTaskAbandoned'
<1> USE DEF ThreadInv
<1>1. pc[h] # "idle" /\ job[h] \in Keys /\ tasks[job[h]].status # "none"
    BY BusyThread DEF Step, Progress, RunTask, TaskSucceeds, TaskFails, ResumeFails,
                      StageMatchesTask, TypeOK
<1>2. CASE RunTask(h)
    <2>1. PICK t : tasks' = [tasks EXCEPT ![job[h]] = t]
        BY <1>1, <1>2, UpdatedKey DEF RunTask, Saved, Unsaved
    <2>2. job' = job
        BY <1>2 DEF RunTask, Unsaved
    <2> QED BY <1>1, <2>1, <2>2 DEF NoTaskAbandoned, TypeOK
<1>3. CASE TaskSucceeds(h) \/ TaskFails(h) \/ ResumeFails(h)
    <2>1. PICK s, w, c : /\ s \in Terminal
                         /\ tasks' = [tasks EXCEPT ![job[h]] = Fresh(s, w, c)]
        BY <1>1, <1>3, UpdatedKey
           DEF TaskSucceeds, TaskFails, ResumeFails, Saved, Unsaved, Terminal
    <2>2. Leaves(h)
        BY <1>3 DEF TaskSucceeds, TaskFails, ResumeFails, Unsaved
    <2>3. tasks'[job[h]].status \notin Unfinished
        BY <1>1, <2>1 DEF TypeOK, Fresh, Terminal, Unfinished
    <2>4. \A k \in Keys \ {job[h]} : tasks'[k] = tasks[k]
        BY <2>1 DEF TypeOK
    <2> QED BY <2>2, <2>3, <2>4, LeavesOthers DEF NoTaskAbandoned
<1>4. CASE Progress(h)
    BY <1>4 DEF Progress, Saved, Unsaved, NoTaskAbandoned
<1> QED BY <1>2, <1>3, <1>4 DEF Step

LEMMA NotAbandonedClient ==
    ASSUME ~SavesMayFail, ThreadInv, NoTaskAbandoned, NEW k \in Keys,
           Client(k) \/ Age(k)
    PROVE  NoTaskAbandoned'
<1> USE DEF ThreadInv
<1>0. /\ Cleanup(tasks) \in [Keys -> Task \cup {NoTask}]
      /\ \A u \in Keys : Cleanup(tasks)[u].status \in Unfinished
                             => tasks[u].status \in Unfinished
    BY CleanupType DEF TypeOK, Cleanup, NoTask, Unfinished
<1>1. CASE Submit(k)
    <2>1. tasks' = [Cleanup(tasks) EXCEPT ![k] = Fresh("queued", "none", FALSE)]
        BY <1>1 DEF Submit, Saved, Unsaved
    <2>2. PICK h \in Threads : pc[h] = "idle" /\ job' = [job EXCEPT ![h] = k]
        BY <1>1 DEF Submit, Unsaved
    <2>3. job'[h] = k /\ \A i \in Threads : job[i] # NoKey => job'[i] = job[i]
        BY <2>2 DEF TypeOK
    <2>4. \A u \in Keys \ {k} : tasks'[u] = Cleanup(tasks)[u]
        BY <1>0, <2>1
    <2> QED BY <1>0, <2>3, <2>4, TaskAssumption DEF NoTaskAbandoned
<1>2. CASE SubmitKnown(k)
    <2>1. tasks' = tasks \/ tasks' = Cleanup(tasks)
        BY <1>2 DEF SubmitKnown, Saved, Unsaved
    <2>2. job' = job
        BY <1>2 DEF SubmitKnown
    <2> QED BY <1>0, <2>1, <2>2 DEF NoTaskAbandoned
<1>3. CASE ResumePoll(k)
    <2>1. tasks' = Updated(k, "running", "none", TRUE)
        BY <1>3 DEF ResumePoll, Saved, Unsaved
    <2>2. PICK h \in Threads : pc[h] = "idle" /\ job' = [job EXCEPT ![h] = k]
        BY <1>3 DEF ResumePoll, Unsaved
    <2>3. job'[h] = k /\ \A i \in Threads : job[i] # NoKey => job'[i] = job[i]
        BY <2>2 DEF TypeOK
    <2>4. \A u \in Keys \ {k} : tasks'[u] = tasks[u]
        BY <2>1 DEF Updated, TypeOK
    <2> QED BY <2>3, <2>4, TaskAssumption DEF NoTaskAbandoned
<1>4. CASE Age(k)
    <2>1. tasks[k].status \notin Unfinished
        BY <1>4 DEF Age, Terminal, Unfinished
    <2>2. tasks[k] \in Task
        BY <2>1, <1>4 DEF Age, TypeOK, NoTask, Terminal
    <2>3. tasks'[k].status = tasks[k].status
        BY <1>4, <2>2 DEF Age, Aged, TypeOK, Task
    <2>4. \A u \in Keys \ {k} : tasks'[u] = tasks[u]
        BY <1>4 DEF Age, TypeOK
    <2>5. job' = job
        BY <1>4 DEF Age
    <2> QED BY <2>1, <2>3, <2>4, <2>5 DEF NoTaskAbandoned
<1> QED BY <1>1, <1>2, <1>3, <1>4 DEF Client

\* After a restart no task is unfinished.
LEMMA RestartFinishesAll ==
    ASSUME TypeOK, NEW k \in Keys
    PROVE  Cleanup(Recovered)[k].status \notin Unfinished
<1>1. Recovered[k].status \notin Unfinished
    BY DEF Recovered, Fresh, Unfinished
<1> QED BY <1>1 DEF Cleanup, NoTask, Unfinished

\* When the file can be written, a task shown as queued or running always has a
\* thread that will finish it: after a restart, a continuation or an expiry too.
THEOREM NoTaskAbandonedHolds ==
    ASSUME ~SavesMayFail
    PROVE  Spec => []NoTaskAbandoned
<1>1. Init => NoTaskAbandoned
    BY DEF Init, NoTaskAbandoned, NoTask, Unfinished
<1>2. ThreadInv /\ NoTaskAbandoned /\ [Next]_vars => NoTaskAbandoned'
    <2> SUFFICES ASSUME ThreadInv, NoTaskAbandoned, [Next]_vars PROVE NoTaskAbandoned'
        OBVIOUS
    <2>1. ASSUME NEW k \in Keys, Client(k) \/ Age(k) PROVE NoTaskAbandoned'
        BY <2>1, NotAbandonedClient
    <2>2. ASSUME NEW h \in Threads, Step(h) \/ Progress(h) PROVE NoTaskAbandoned'
        BY <2>2, NotAbandonedStep
    <2>3. CASE ListTasks
        BY <2>3 DEF ListTasks, Saved, Unsaved, Cleanup, NoTask, Unfinished, NoTaskAbandoned
    <2>4. CASE Restart
        BY <2>4, RestartFinishesAll DEF Restart, NoTaskAbandoned, ThreadInv
    <2>5. CASE UNCHANGED vars
        BY <2>5 DEF vars, NoTaskAbandoned
    <2> QED BY <2>1, <2>2, <2>3, <2>4, <2>5 DEF Next
<1> QED BY <1>1, <1>2, ThreadInvariant, PTL DEF Spec

-----------------------------------------------------------------------------
(* What a client was told of survives, when saves succeed.                 *)

\* The file holds what the memory does, up to the conversation of a task.
FileCurrent ==
    \A k \in Keys : file[k].status = tasks[k].status /\ file[k].old = tasks[k].old

KeptInv == AcceptedTasksKept /\ FileCurrent

LEMMA MissingStatus ==
    ASSUME TypeOK, NEW k \in Keys
    PROVE  /\ tasks[k] = NoTask <=> tasks[k].status = "none"
           /\ file[k] = NoTask <=> file[k].status = "none"
BY DEF TypeOK, Task, NoTask, Terminal, Unfinished

LEMMA KeptStep ==
    ASSUME ~SavesMayFail, TypeOK, KeptInv, NEW h \in Threads, Step(h) \/ Progress(h)
    PROVE  KeptInv'
<1>1. PICK new : Saved(new) /\ \A k \in Keys : tasks[k] # NoTask => new[k] # NoTask
    <2>1. \A k, s, w, c : s # "none" =>
              \A u \in Keys : tasks[u] # NoTask => Updated(k, s, w, c)[u] # NoTask
        BY DEF Updated, Fresh, NoTask, TypeOK
    <2> QED BY <2>1 DEF Step, Progress, RunTask, TaskSucceeds, TaskFails, ResumeFails, Unsaved
<1>2. acked' = acked
    BY DEF Step, Progress, RunTask, TaskSucceeds, TaskFails, ResumeFails
<1> QED BY <1>1, <1>2 DEF KeptInv, AcceptedTasksKept, FileCurrent, Saved, TypeOK

LEMMA KeptClient ==
    ASSUME ~SavesMayFail, TypeOK, KeptInv, NEW k \in Keys, Client(k) \/ Age(k)
    PROVE  KeptInv'
<1> USE DEF KeptInv
<1>0. /\ Cleanup(tasks) \in [Keys -> Task \cup {NoTask}]
      /\ \A u \in Keys : (tasks[u] # NoTask /\ u \notin Expired(tasks))
                             => Cleanup(tasks)[u] # NoTask
    BY CleanupType DEF TypeOK, Cleanup
<1>1. CASE Submit(k)
    <2>1. /\ tasks' = [Cleanup(tasks) EXCEPT ![k] = Fresh("queued", "none", FALSE)]
          /\ file' = tasks'
          /\ acked' = (acked \ Expired(tasks)) \cup {k}
        BY <1>1 DEF Submit, Saved, Unsaved
    <2>2. tasks'[k] # NoTask
        BY <1>0, <2>1 DEF Fresh, NoTask
    <2>3. \A u \in acked' \ {k} : tasks'[u] # NoTask
        BY <1>0, <2>1 DEF AcceptedTasksKept, TypeOK
    <2> QED BY <2>1, <2>2, <2>3 DEF AcceptedTasksKept, FileCurrent
<1>2. CASE SubmitKnown(k)
    <2>1. CASE Expired(tasks) = {}
        <3>1. tasks[k] # NoTask
            BY <1>2, <2>1 DEF SubmitKnown, Cleanup
        <3> QED BY <1>2, <2>1, <3>1 DEF SubmitKnown, AcceptedTasksKept, FileCurrent
    <2>2. CASE Expired(tasks) # {}
        <3>1. /\ tasks' = Cleanup(tasks) /\ file' = tasks'
              /\ acked' = (acked \ Expired(tasks)) \cup {k}
              /\ Cleanup(tasks)[k] # NoTask
            BY <1>2, <2>2 DEF SubmitKnown, Saved, Unsaved
        <3> QED BY <1>0, <3>1 DEF AcceptedTasksKept, FileCurrent, TypeOK
    <2> QED BY <2>1, <2>2
<1>3. CASE ResumePoll(k)
    <2>1. /\ tasks' = Updated(k, "running", "none", TRUE)
          /\ file' = tasks' /\ acked' = acked
        BY <1>3 DEF ResumePoll, Saved, Unsaved
    <2>2. \A u \in Keys : tasks[u] # NoTask => tasks'[u] # NoTask
        BY <2>1 DEF Updated, Fresh, NoTask, TypeOK
    <2> QED BY <2>1, <2>2 DEF AcceptedTasksKept, FileCurrent, TypeOK
<1>4. CASE Age(k)
    <2>1. tasks[k] \in Task /\ file[k] \in Task
        BY <1>4, MissingStatus DEF Age, FileCurrent, TypeOK, Terminal
    <2>2. file[k] # NoTask
        BY <1>4, MissingStatus DEF Age, FileCurrent, Terminal
    <2>3. /\ tasks' = [tasks EXCEPT ![k] = Aged(tasks[k])]
          /\ file' = [file EXCEPT ![k] = Aged(file[k])]
          /\ acked' = acked
        BY <1>4, <2>2 DEF Age
    <2>4. \A t \in Task : Aged(t).status = t.status /\ Aged(t).old = TRUE
        BY DEF Aged, Task
    <2>5. FileCurrent'
        <3>1. /\ \A u \in Keys : u # k => tasks'[u] = tasks[u] /\ file'[u] = file[u]
              /\ tasks'[k] = Aged(tasks[k]) /\ file'[k] = Aged(file[k])
            BY <2>3 DEF TypeOK
        <3>2. /\ Aged(tasks[k]).status = tasks[k].status /\ Aged(tasks[k]).old = TRUE
              /\ Aged(file[k]).status = file[k].status /\ Aged(file[k]).old = TRUE
            BY <2>1, <2>4
        <3>3. file[k].status = tasks[k].status
            BY DEF FileCurrent
        <3>4. tasks'[k].status = file'[k].status /\ tasks'[k].old = file'[k].old
            BY <3>1, <3>2, <3>3
        <3> QED BY <3>1, <3>4 DEF FileCurrent
    <2>6. \A u \in Keys : tasks[u] # NoTask => tasks'[u] # NoTask
        BY <2>1, <2>3, <2>4 DEF TypeOK, NoTask
    <2> QED BY <2>3, <2>5, <2>6 DEF AcceptedTasksKept, TypeOK
<1> QED BY <1>1, <1>2, <1>3, <1>4 DEF Client

\* Only the conversation is lost when the file is read.
LEMMA LoadedStatus ==
    ASSUME TypeOK, NEW k \in Keys
    PROVE  Loaded[k].status = file[k].status /\ Loaded[k].old = file[k].old
<1>1. CASE file[k] = NoTask
    BY <1>1 DEF Loaded
<1>2. CASE file[k] # NoTask
    <2>1. file[k] \in Task /\ Loaded[k] = [file[k] EXCEPT !.conv = FALSE]
        BY <1>2 DEF Loaded, TypeOK
    <2> QED BY <2>1 DEF Task
<1> QED BY <1>1, <1>2

LEMMA KeptRestart ==
    ASSUME TypeOK, KeptInv, Restart
    PROVE  KeptInv'
<1> DEFINE kept == Cleanup(Recovered)
<1>1. /\ tasks' = kept
      /\ file' = IF kept = Loaded THEN file ELSE kept
      /\ acked' = acked \ Expired(Recovered)
    BY DEF Restart
<1>2. \A k \in Keys : Loaded[k].status = file[k].status /\ Loaded[k].old = file[k].old
    BY LoadedStatus
<1>3. ASSUME NEW k \in acked' PROVE kept[k] # NoTask
    <2>1. k \in Keys /\ k \in acked /\ k \notin Expired(Recovered)
        BY <1>1, <1>3 DEF TypeOK
    <2>2. file[k].status # "none"
        BY <2>1, MissingStatus DEF KeptInv, AcceptedTasksKept, FileCurrent
    <2>3. Recovered[k] # NoTask
        BY <1>2, <2>1, <2>2 DEF Recovered, Fresh, NoTask
    <2> QED BY <2>1, <2>3 DEF Cleanup
<1> QED BY <1>1, <1>2, <1>3 DEF KeptInv, AcceptedTasksKept, FileCurrent

LEMMA KeptInvariant ==
    ASSUME ~SavesMayFail
    PROVE  Spec => []KeptInv
<1>1. Init => KeptInv
    BY DEF Init, KeptInv, AcceptedTasksKept, FileCurrent
<1>2. TypeOK /\ KeptInv /\ [Next]_vars => KeptInv'
    <2> SUFFICES ASSUME TypeOK, KeptInv, [Next]_vars PROVE KeptInv'
        OBVIOUS
    <2>1. ASSUME NEW k \in Keys, Client(k) \/ Age(k) PROVE KeptInv'
        BY <2>1, KeptClient
    <2>2. ASSUME NEW h \in Threads, Step(h) \/ Progress(h) PROVE KeptInv'
        BY <2>2, KeptStep
    <2>3. CASE ListTasks
        <3>1. /\ tasks' = Cleanup(tasks) /\ file' = tasks'
              /\ acked' = acked \ Expired(tasks)
            BY <2>3 DEF ListTasks, Saved, Unsaved
        <3> QED BY <3>1 DEF KeptInv, AcceptedTasksKept, FileCurrent, Cleanup, TypeOK
    <2>4. CASE Restart
        BY <2>4, KeptRestart
    <2>5. CASE UNCHANGED vars
        BY <2>5 DEF vars, KeptInv, AcceptedTasksKept, FileCurrent
    <2> QED BY <2>1, <2>2, <2>3, <2>4, <2>5 DEF Next
<1> QED BY <1>1, <1>2, TasksTypeCorrect, PTL DEF Spec

\* When the file can be written, a task a client has been told of is there until it
\* expires: the answer never precedes the save, and no restart loses it.
THEOREM AcceptedTasksKeptHolds ==
    ASSUME ~SavesMayFail
    PROVE  Spec => []AcceptedTasksKept
<1>1. KeptInv => AcceptedTasksKept
    BY DEF KeptInv
<1> QED BY <1>1, KeptInvariant, PTL

-----------------------------------------------------------------------------
(* A success is final, when saves succeed.                                 *)

\* No thread has a failed save to report.
NoneFailing == \A h \in Threads : pc[h] # "failing"

LEMMA NoneFailingHolds ==
    ASSUME ~SavesMayFail
    PROVE  Spec => []NoneFailing
<1>1. Init => NoneFailing
    BY DEF Init, NoneFailing
<1>2. TypeOK /\ NoneFailing /\ [Next]_vars => NoneFailing'
    <2> SUFFICES ASSUME TypeOK, NoneFailing, [Next]_vars
                 PROVE  NoneFailing'
        OBVIOUS
    <2>1. ASSUME NEW k \in Keys, Client(k) \/ Age(k)
          PROVE  NoneFailing'
        BY <2>1 DEF TypeOK, NoneFailing, Client, Submit, SubmitKnown, ResumePoll, Age
    <2>2. ASSUME NEW h \in Threads, Step(h) \/ Progress(h)
          PROVE  NoneFailing'
        BY <2>2 DEF TypeOK, NoneFailing, Step, RunTask, TaskSucceeds, TaskFails,
                    ResumeFails, Progress, Leaves, Unsaved
    <2>3. CASE ListTasks \/ Restart \/ UNCHANGED vars
        BY <2>3 DEF TypeOK, NoneFailing, ListTasks, Restart, vars
    <2> QED BY <2>1, <2>2, <2>3 DEF Next
<1> QED BY <1>1, <1>2, TasksTypeCorrect, PTL DEF Spec

\* A success is left by expiry only.
FinalStep ==
    \A k \in Keys : (tasks[k].status = "success" /\ tasks'[k].status # "success")
                        => tasks[k].old

LEMMA CleanupFinal ==
    ASSUME TypeOK, NEW k \in Keys, Cleanup(tasks)[k].status # tasks[k].status
    PROVE  tasks[k].old
BY DEF Cleanup, Expired

LEMMA FinalThread ==
    ASSUME ~SavesMayFail, ThreadInv, NoneFailing, NEW h \in Threads,
           Step(h) \/ Progress(h)
    PROVE  FinalStep
<1>1. CASE Progress(h)
    BY <1>1 DEF Progress, Saved, Unsaved, FinalStep
<1>2. CASE Step(h)
    <2>1. pc[h] \in {"created", "working", "resuming"}
        BY <1>2 DEF Step, RunTask, TaskSucceeds, TaskFails, ResumeFails, NoneFailing
    <2>2. job[h] \in Keys
        BY <2>1, BusyThread DEF ThreadInv
    <2>3. tasks[job[h]].status # "success"
        BY <2>1 DEF ThreadInv, StageMatchesTask
    <2>4. \E s, w, c : tasks' = Updated(job[h], s, w, c)
        BY <1>2 DEF Step, RunTask, TaskSucceeds, TaskFails, ResumeFails, Saved, Unsaved
    <2>5. \A k \in Keys : k # job[h] => tasks'[k] = tasks[k]
        BY <2>4 DEF Updated, ThreadInv, TypeOK
    <2> QED BY <2>3, <2>5 DEF FinalStep
<1> QED BY <1>1, <1>2

LEMMA FinalClient ==
    ASSUME ~SavesMayFail, TypeOK, NEW k \in Keys, Client(k) \/ Age(k)
    PROVE  FinalStep
<1>1. CASE Submit(k)
    <2>1. /\ tasks' = [Cleanup(tasks) EXCEPT ![k] = Fresh("queued", "none", FALSE)]
          /\ Cleanup(tasks)[k] = NoTask
        BY <1>1 DEF Submit, Saved, Unsaved
    <2>2. \A u \in Keys \ {k} : tasks'[u] = Cleanup(tasks)[u]
        BY <2>1 DEF Cleanup
    <2>3. Cleanup(tasks)[k].status # "success"
        BY <2>1 DEF NoTask
    <2> QED BY <2>2, <2>3, CleanupFinal DEF FinalStep
<1>2. CASE SubmitKnown(k)
    <2>1. tasks' = tasks \/ tasks' = Cleanup(tasks)
        BY <1>2 DEF SubmitKnown, Saved, Unsaved
    <2> QED BY <2>1, CleanupFinal DEF FinalStep
<1>3. CASE ResumePoll(k)
    <2>1. tasks[k].status = "error" /\ tasks' = Updated(k, "running", "none", TRUE)
        BY <1>3 DEF ResumePoll, Saved, Unsaved
    <2>2. \A u \in Keys \ {k} : tasks'[u] = tasks[u]
        BY <2>1 DEF Updated, TypeOK
    <2> QED BY <2>1, <2>2 DEF FinalStep
<1>4. CASE Age(k)
    <2>1. tasks' = [tasks EXCEPT ![k] = Aged(tasks[k])] /\ tasks[k] \in Task
        BY <1>4 DEF Age, TypeOK, NoTask, Terminal
    <2>2. Aged(tasks[k]).status = tasks[k].status
        BY <2>1 DEF Aged, Task
    <2> QED BY <2>1, <2>2 DEF FinalStep, TypeOK
<1> QED BY <1>1, <1>2, <1>3, <1>4 DEF Client

LEMMA FinalRestart ==
    ASSUME TypeOK, FileCurrent, Restart
    PROVE  FinalStep
<1>1. \A k \in Keys : Loaded[k].status = tasks[k].status /\ Loaded[k].old = tasks[k].old
    BY LoadedStatus DEF FileCurrent
<1>2. ASSUME NEW k \in Keys, tasks[k].status = "success"
      PROVE  Recovered[k].status = "success" /\ Recovered[k].old = tasks[k].old
    BY <1>1, <1>2 DEF Recovered, Unfinished
<1>3. tasks' = Cleanup(Recovered)
    BY DEF Restart
<1> QED BY <1>2, <1>3 DEF FinalStep, Cleanup, Expired

\* When the file can be written, a success stays one until it expires, for every number
\* of clients and threads: no thread, repeated submission, continuation or restart
\* overwrites it (_update_task, _recover_unfinished_locked).
THEOREM SuccessIsFinalHolds ==
    ASSUME ~SavesMayFail
    PROVE  Spec => SuccessIsFinal
<1>1. ThreadInv /\ NoneFailing /\ KeptInv /\ [Next]_vars =>
          [\A k \in Keys : (tasks[k].status = "success" /\ tasks'[k].status # "success")
                               => tasks[k].old]_vars
    <2> SUFFICES ASSUME ThreadInv, NoneFailing, KeptInv, Next
                 PROVE  FinalStep
        BY DEF FinalStep
    <2>1. ASSUME NEW k \in Keys, Client(k) \/ Age(k) PROVE FinalStep
        BY <2>1, FinalClient DEF ThreadInv
    <2>2. ASSUME NEW h \in Threads, Step(h) \/ Progress(h) PROVE FinalStep
        BY <2>2, FinalThread
    <2>3. CASE ListTasks
        BY <2>3, CleanupFinal DEF ListTasks, Saved, Unsaved, FinalStep, ThreadInv
    <2>4. CASE Restart
        BY <2>4, FinalRestart DEF ThreadInv, KeptInv
    <2> QED BY <2>1, <2>2, <2>3, <2>4 DEF Next
<1> QED BY <1>1, ThreadInvariant, NoneFailingHolds, KeptInvariant, PTL
        DEF Spec, SuccessIsFinal

-----------------------------------------------------------------------------
(* The statuses implement TaskLifecycle, when saves succeed.               *)

Status == [k \in Keys |-> tasks[k].status]

\* Changing one task changes its status only.
LEMMA StatusOfOne ==
    ASSUME TypeOK, NEW k \in Keys, NEW s, NEW w, NEW c,
           tasks' = [tasks EXCEPT ![k] = Fresh(s, w, c)]
    PROVE  Status' = [Status EXCEPT ![k] = s]
BY DEF TypeOK, Status, Fresh

LEMMA CleanupStatus ==
    ASSUME TypeOK
    PROVE  /\ Expired(tasks) \in SUBSET Lifecycle!Finished
           /\ [k \in Keys |-> Cleanup(tasks)[k].status] = Lifecycle!Forget(Expired(tasks))
BY DEF TypeOK, Expired, Cleanup, NoTask, Lifecycle!Finished, Lifecycle!Forget,
       Terminal, Lifecycle!Terminal

LEMMA StepImplements ==
    ASSUME ~SavesMayFail, ThreadInv, NoneFailing, NEW h \in Threads,
           Step(h) \/ Progress(h)
    PROVE  Lifecycle!Next \/ UNCHANGED Status
<1> USE DEF ThreadInv
<1>1. pc[h] # "idle" /\ job[h] \in Keys
    BY BusyThread DEF Step, Progress, RunTask, TaskSucceeds, TaskFails, ResumeFails
<1> PICK k \in Keys : k = job[h]
    BY <1>1
<1>2. CASE RunTask(h)
    <2>1. tasks[k].status = "queued"
        BY <1>2 DEF RunTask, StageMatchesTask
    <2>2. PICK w, c : tasks' = [tasks EXCEPT ![k] = Fresh("running", w, c)]
        BY <1>1, <1>2, <2>1, UpdatedKey DEF RunTask, Saved, Unsaved
    <2>3. Status' = [Status EXCEPT ![k] = "running"]
        BY <1>1, <2>2, StatusOfOne
    <2>4. Lifecycle!Start(k)
        BY <1>1, <2>1, <2>3 DEF Lifecycle!Start, Status
    <2> QED BY <1>1, <2>4 DEF Lifecycle!Next
<1>3. CASE TaskSucceeds(h) \/ TaskFails(h) \/ ResumeFails(h)
    <2>1. CASE tasks[k].status = "running"
        <3>1. PICK s, w, c : s \in Terminal /\ tasks' = [tasks EXCEPT ![k] = Fresh(s, w, c)]
            BY <1>1, <1>3, <2>1, UpdatedKey
               DEF TaskSucceeds, TaskFails, ResumeFails, Saved, Unsaved, Terminal
        <3>2. Status' = [Status EXCEPT ![k] = s]
            BY <1>1, <3>1, StatusOfOne
        <3>3. Lifecycle!Finish(k)
            BY <1>1, <2>1, <3>1, <3>2
               DEF Lifecycle!Finish, Lifecycle!Terminal, Terminal, Status
        <3> QED BY <1>1, <3>3 DEF Lifecycle!Next
    <2> QED BY <1>3, <2>1
            DEF TaskSucceeds, TaskFails, ResumeFails, StageMatchesTask, NoneFailing
<1>4. CASE Progress(h)
    BY <1>4 DEF Progress, Saved, Unsaved, Status
<1> QED BY <1>2, <1>3, <1>4 DEF Step

LEMMA ClientImplements ==
    ASSUME ~SavesMayFail, TypeOK, NEW k \in Keys, Client(k) \/ Age(k)
    PROVE  Lifecycle!Next \/ UNCHANGED Status
<1>0. Cleanup(tasks) \in [Keys -> Task \cup {NoTask}]
    BY CleanupType DEF TypeOK
<1>1. CASE Submit(k)
    <2>1. tasks' = [Cleanup(tasks) EXCEPT ![k] = Fresh("queued", "none", FALSE)]
        BY <1>1 DEF Submit, Saved, Unsaved
    <2>2. tasks[k].status = "none" \/ k \in Expired(tasks)
        BY <1>1, MissingStatus DEF Submit, Cleanup
    <2>3. Status' = [Lifecycle!Forget(Expired(tasks)) EXCEPT ![k] = "queued"]
        BY <1>0, <2>1, CleanupStatus DEF Status, Fresh
    <2>4. Lifecycle!Submit(k)
        BY <2>2, <2>3, CleanupStatus DEF Lifecycle!Submit, Status
    <2> QED BY <2>4 DEF Lifecycle!Next
<1>2. CASE SubmitKnown(k)
    <2>1. tasks' = tasks \/ tasks' = Cleanup(tasks)
        BY <1>2 DEF SubmitKnown, Saved, Unsaved
    <2>2. tasks' = Cleanup(tasks) => Lifecycle!Expire
        BY CleanupStatus DEF Lifecycle!Expire, Status
    <2> QED BY <2>1, <2>2 DEF Lifecycle!Next, Status
<1>3. CASE ResumePoll(k)
    <2>1. tasks[k].status = "error" /\ tasks[k] # NoTask
        BY <1>3 DEF ResumePoll, NoTask
    <2>2. tasks' = [tasks EXCEPT ![k] = Fresh("running", "none", TRUE)]
        BY <1>3, <2>1 DEF ResumePoll, Saved, Unsaved, Updated
    <2>3. Status' = [Status EXCEPT ![k] = "running"]
        BY <2>2, StatusOfOne
    <2>4. Lifecycle!Continue(k)
        BY <2>1, <2>3 DEF Lifecycle!Continue, Status
    <2> QED BY <2>4 DEF Lifecycle!Next
<1>4. CASE Age(k)
    <2>1. tasks[k] \in Task
        BY <1>4 DEF Age, TypeOK, NoTask, Terminal
    <2>2. Aged(tasks[k]).status = tasks[k].status
        BY <2>1 DEF Aged, Task
    <2> QED BY <1>4, <2>2 DEF Age, Status, TypeOK
<1> QED BY <1>1, <1>2, <1>3, <1>4 DEF Client

LEMMA RestartImplements ==
    ASSUME TypeOK, FileCurrent, Restart
    PROVE  Lifecycle!Interrupt
<1> DEFINE S == Expired(Recovered)
<1>1. \A k \in Keys : Loaded[k].status = tasks[k].status /\ Loaded[k].old = tasks[k].old
    BY LoadedStatus DEF FileCurrent
<1>2. \A k \in Keys : Recovered[k].status = IF tasks[k].status \in Unfinished THEN "error"
                                            ELSE tasks[k].status
    BY <1>1 DEF Recovered, Fresh
<1>3. \A k \in S : tasks[k].status \in Terminal
    BY <1>1 DEF Expired, Recovered, Fresh
<1>4. tasks' = Cleanup(Recovered)
    BY DEF Restart
<1>5. Status' = [k \in Keys |-> IF tasks[k].status \in Unfinished THEN "error"
                               ELSE IF k \in S THEN "none" ELSE tasks[k].status]
    BY <1>2, <1>3, <1>4 DEF Status, Cleanup, NoTask, Terminal, Unfinished
<1>6. S \in SUBSET Lifecycle!Finished
    BY <1>3 DEF Lifecycle!Finished, Lifecycle!Terminal, Terminal, Status, Expired
<1> QED BY <1>5, <1>6
        DEF Lifecycle!Interrupt, Lifecycle!Forget, Lifecycle!Unfinished, Unfinished, Status

\* When the file can be written, the threads, the file and the locks implement the
\* life of a task as its client sees it.
THEOREM TasksImplementLifecycle ==
    ASSUME ~SavesMayFail
    PROVE  Spec => ImplementsLifecycle
<1>1. Init => Lifecycle!Init
    BY DEF Init, Lifecycle!Init, NoTask
<1>2. ThreadInv /\ NoneFailing /\ KeptInv /\ [Next]_vars => [Lifecycle!Next]_Status
    <2> SUFFICES ASSUME ThreadInv, NoneFailing, KeptInv, [Next]_vars
                 PROVE  Lifecycle!Next \/ UNCHANGED Status
        OBVIOUS
    <2> USE DEF ThreadInv
    <2>1. ASSUME NEW k \in Keys, Client(k) \/ Age(k)
          PROVE  Lifecycle!Next \/ UNCHANGED Status
        BY <2>1, ClientImplements
    <2>2. ASSUME NEW h \in Threads, Step(h) \/ Progress(h)
          PROVE  Lifecycle!Next \/ UNCHANGED Status
        BY <2>2, StepImplements
    <2>3. CASE ListTasks
        <3>1. tasks' = Cleanup(tasks)
            BY <2>3 DEF ListTasks, Saved, Unsaved
        <3>2. Lifecycle!Expire
            BY <3>1, CleanupStatus DEF Lifecycle!Expire, Status
        <3> QED BY <3>2 DEF Lifecycle!Next
    <2>4. CASE Restart
        BY <2>4, RestartImplements DEF KeptInv, Lifecycle!Next
    <2>5. CASE UNCHANGED vars
        BY <2>5 DEF vars, Status
    <2> QED BY <2>1, <2>2, <2>3, <2>4, <2>5 DEF Next
<1> QED BY <1>1, <1>2, ThreadInvariant, NoneFailingHolds, KeptInvariant, PTL
        DEF Spec, ImplementsLifecycle, Lifecycle!Spec, Status
=============================================================================
