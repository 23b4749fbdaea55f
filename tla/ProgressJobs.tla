----------------------------- MODULE ProgressJobs -----------------------------
(***************************************************************************)
(* The progress an operator sees of a check or of a new login of several   *)
(* accounts (services/account_service.py, api/accounts.py): a record that  *)
(* the threads of the job update and the page reads.  What a check or a    *)
(* login does to its account is the subject of AccountChecks.              *)
(***************************************************************************)
EXTENDS Naturals, FiniteSets

CONSTANTS
    JobAccounts,  \* the accounts the operator selected
    JobKinds      \* "refresh", "relogin"

ASSUME JobAssumption == JobKinds \subseteq {"refresh", "relogin"} /\ IsFiniteSet(JobAccounts)

VARIABLES
    jobKind,   \* what the request started, "none" before
    progress,  \* its record: processed and done; done without a record
    jobStep,   \* how far each account is
    submitted, \* whether re_login_accounts has gone through all of them
    started,   \* how many threads it started
    died       \* whether one of these died without a word

jobVars == <<jobKind, progress, jobStep, submitted, started, died>>

Total == Cardinality(JobAccounts)

JobMoves(a, step) == jobStep' = [jobStep EXCEPT ![a] = step]

\* The request; init_refresh_progress or init_relogin_progress follows in a thread.
JobStarts ==
    /\ jobKind = "none"
    /\ jobKind' \in JobKinds
    /\ jobStep' = [a \in JobAccounts |-> IF jobKind' = "refresh" THEN "running" ELSE "queued"]
    /\ UNCHANGED <<progress, submitted, started, died>>

-----------------------------------------------------------------------------
(* refresh_accounts: one thread counts what the others finished.           *)

Counted == progress' = [progress EXCEPT !.processed = @ + 1]

\* A check is over, whatever it found or raised, and is counted.
CountChecked(a) ==
    /\ jobKind = "refresh" /\ jobStep[a] = "running"
    /\ JobMoves(a, "counted")
    /\ Counted
    /\ UNCHANGED <<jobKind, submitted, started, died>>

\* finish_refresh_progress
FinishRefresh ==
    /\ jobKind = "refresh" /\ ~progress.done
    /\ \A a \in JobAccounts : jobStep[a] = "counted"
    /\ progress' = [progress EXCEPT !.done = TRUE]
    /\ UNCHANGED <<jobKind, jobStep, submitted, started, died>>

-----------------------------------------------------------------------------
(* re_login_accounts: a thread per account, the last of which ends the job. *)

\* update_relogin_progress
Reported ==
    progress' = [processed |-> progress.processed + 1,
                 done |-> progress.done \/ progress.processed + 1 >= Total]

\* The account is gone or has no password.
Skip(a) ==
    /\ jobStep[a] = "queued" /\ ~submitted
    /\ JobMoves(a, "counted")
    /\ Reported
    /\ UNCHANGED <<jobKind, submitted, started, died>>

Submit(a) ==
    /\ jobStep[a] = "queued" /\ ~submitted
    /\ JobMoves(a, "login")
    /\ started' = started + 1
    /\ UNCHANGED <<jobKind, progress, submitted, died>>

\* With no thread the job is done; else the threads end it.
SubmittedAll ==
    /\ jobKind = "relogin" /\ ~submitted
    /\ \A a \in JobAccounts : jobStep[a] # "queued"
    /\ submitted' = TRUE
    /\ progress' = [progress EXCEPT !.done = @ \/ started = 0]
    /\ UNCHANGED <<jobKind, jobStep, started, died>>

\* _password_re_login_thread: every way it ends, by an exception, too, is reported. The
\* mutant reports only a success.
LoginSilent(a) ==
    /\ jobStep[a] = "login"
    /\ JobMoves(a, "counted")
    /\ Reported \/ UNCHANGED progress
    /\ UNCHANGED <<jobKind, submitted, started, died>>
LoginEnds(a) ==
    /\ jobStep[a] = "login"
    /\ JobMoves(a, "counted")
    /\ Reported
    /\ UNCHANGED <<jobKind, submitted, started, died>>

\* But when saving the failure of the account raises in the handler of the exception.
LoginDies(a) ==
    /\ jobStep[a] = "login"
    /\ JobMoves(a, "counted")
    /\ died' = TRUE
    /\ UNCHANGED <<jobKind, progress, submitted, started>>

-----------------------------------------------------------------------------
JobInit ==
    /\ jobKind = "none"
    /\ progress = [processed |-> 0, done |-> FALSE]
    /\ jobStep = [a \in JobAccounts |-> "none"]
    /\ submitted = FALSE /\ started = 0 /\ died = FALSE

JobProceeds ==
    \/ FinishRefresh \/ SubmittedAll
    \/ \E a \in JobAccounts : CountChecked(a) \/ Skip(a) \/ Submit(a) \/ LoginEnds(a)

JobNext == JobStarts \/ JobProceeds \/ \E a \in JobAccounts : LoginDies(a)

-----------------------------------------------------------------------------
\* The page is told that the job is done, unless a thread died without a word, and it is
\* never told so before every account was dealt with.
EveryJobIsDone ==
    /\ [](progress.done => progress.processed = Total)
    /\ (jobKind # "none") ~> (progress.done \/ died)
=============================================================================
