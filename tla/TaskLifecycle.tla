---------------------------- MODULE TaskLifecycle ----------------------------
(***************************************************************************)
(* What an image task promises to the client that polls it: the statuses   *)
(* it goes through, with no threads, file or locks.  ImageTasks implements *)
(* it (services/image_task_service.py).                                    *)
(***************************************************************************)
EXTENDS FiniteSets

CONSTANT Keys

VARIABLE status  \* the status list_tasks shows, "none" for a missing task

Terminal   == {"success", "error"}
Unfinished == {"queued", "running"}

Init == status \in [Keys -> Terminal \cup {"none"}]

\* Finished tasks past their retention go, any number of them at once.
Forget(S) == [k \in Keys |-> IF k \in S THEN "none" ELSE status[k]]
Finished  == {k \in Keys : status[k] \in Terminal}

\* A task identifier the service does not know starts a task; one it knows, never.
Submit(k) ==
    \E S \in SUBSET Finished :
        /\ status[k] = "none" \/ k \in S
        /\ status' = [Forget(S) EXCEPT ![k] = "queued"]

Start(k)  == status[k] = "queued"  /\ status' = [status EXCEPT ![k] = "running"]
Finish(k) ==
    /\ status[k] = "running"
    /\ \E s \in Terminal : status' = [status EXCEPT ![k] = s]

\* resume-poll of a failed task.
Continue(k) == status[k] = "error" /\ status' = [status EXCEPT ![k] = "running"]

Expire == \E S \in SUBSET Finished : status' = Forget(S)

\* A restart of the service fails every task it interrupts.
Interrupt ==
    \E S \in SUBSET Finished :
        status' = [k \in Keys |-> IF status[k] \in Unfinished THEN "error"
                                  ELSE Forget(S)[k]]

Next ==
    \/ \E k \in Keys : Submit(k) \/ Start(k) \/ Finish(k) \/ Continue(k)
    \/ Expire
    \/ Interrupt

Spec == Init /\ [][Next]_status
=============================================================================
