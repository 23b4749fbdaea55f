----------------------------- MODULE Registration -----------------------------
(***************************************************************************)
(* Automatic registration of accounts: the runner of                       *)
(* services/register_service.py that keeps worker threads busy until its   *)
(* target is reached, the workers of services/register/openai_register.py  *)
(* that register one account each, and the pool of Outlook mailboxes of    *)
(* services/register/mail_provider.py they take their addresses from.      *)
(*                                                                         *)
(* The state of the mailboxes and the switch `enabled` are kept in files,  *)
(* each change of which is one section under its lock.  The file of the    *)
(* mailboxes is emptied and written in place: a save may raise before or   *)
(* after it was emptied and a crash may tear it, and a file that is not    *)
(* JSON is loaded as one without records.  What the pages of the provider  *)
(* answer is nondeterministic; a challenge inside a step is the subject of *)
(* ProxyClearance.                                                         *)
(***************************************************************************)
EXTENDS Naturals, FiniteSets

CONSTANTS
    Mailboxes,     \* the imported addresses, numbered in the order of the import
    NoMailbox,
    RegWorkers,    \* the threads of the executor
    NoWorker,
    RegModes,      \* modes of the run: "total", "available"
    RegTarget,     \* total and target_available
    MaxSubmitted,  \* bound: submissions of a run that has no total
    MaxEvents      \* bound: starts, resets of the mailboxes, failed saves, restarts

ASSUME RegistrationAssumption ==
    /\ Mailboxes \subseteq Nat /\ NoMailbox \notin Mailboxes
    /\ NoWorker \notin RegWorkers
    /\ RegModes \subseteq {"total", "available"}
    /\ {RegTarget, MaxSubmitted, MaxEvents} \subseteq Nat

VARIABLES
    regMode,   \* config mode
    enabled,   \* config enabled, in memory and in the file
    runner,    \* where the runner is, "none" without a thread
    counts,    \* its submitted, done, success and fail
    workPc,    \* where each worker is
    mailbox,   \* the mailbox of its registration
    authLock,  \* platform_authorize_lock
    mailState, \* outlook_token_used.json
    staleBoxes,\* in_use for more than OUTLOOK_IN_USE_STALE_SECONDS
    created,   \* addresses for which the provider has an account
    normal,    \* accounts the run added that are in the pool with status normal
    reopened,  \* addresses an operator gave free, a crash or a failed save left in use,
               \* or whose record was lost with the file
    events     \* how many of these there have been

regVars == <<regMode, enabled, runner, counts, workPc, mailbox, authLock, mailState,
             staleBoxes, created, normal, reopened, events>>

\* failed stands for token_invalid, too: they are treated alike.
MailStates == {"unused", "in_use", "used", "failed"}
Finished   == {"ok", "failed", "refused"}
Futures    == {w \in RegWorkers : workPc[w] # "idle"}
ZeroCounts == [submitted |-> 0, done |-> 0, success |-> 0, fail |-> 0]
MailboxHolders(m) == {w \in RegWorkers : mailbox[w] = m}

Event == events < MaxEvents /\ events' = events + 1

-----------------------------------------------------------------------------
(* The mailboxes.                                                          *)

\* _outlook_entry_available
Unused(m) == mailState[m] = "unused" \/ m \in staleBoxes

\* The first one of the pool.
Claimable(m) == Unused(m) /\ \A n \in Mailboxes : Unused(n) => m <= n

SetMail(m, state) ==
    /\ mailState' = [mailState EXCEPT ![m] = state]
    /\ staleBoxes' = staleBoxes \ {m}

Recorded == {m \in Mailboxes : mailState[m] # "unused"}

\* A file that was emptied, or half written, is loaded as no records.
LoseRecords ==
    /\ mailState' = [m \in Mailboxes |-> "unused"]
    /\ staleBoxes' = {}
    /\ reopened' = reopened \cup Recorded

\* A save raises: the file is as it was, which leaves `kept` in use, or empty.
MailSaveRaises(kept) ==
    /\ Event
    /\ \/ reopened' = reopened \cup kept /\ UNCHANGED <<mailState, staleBoxes>>
       \/ LoseRecords

\* reset_outlook_token_pool_state; the scope unused prunes the import instead.
ResetMailboxes(scope) ==
    LET cleared == {m \in Mailboxes :
                        mailState[m] \in (IF scope = "all" THEN MailStates \ {"unused"}
                                          ELSE {"failed", "in_use"})}
    IN /\ cleared # {}
       /\ Event
       /\ mailState' = [m \in Mailboxes |-> IF m \in cleared THEN "unused" ELSE mailState[m]]
       /\ staleBoxes' = staleBoxes \ cleared
       /\ reopened' = reopened \cup cleared
       /\ UNCHANGED <<regMode, enabled, runner, counts, workPc, mailbox, authLock, created,
                      normal>>

\* An hour passes over a mailbox nobody works with: a registration has timeouts that
\* end it long before.
BecomesStale(m) ==
    /\ mailState[m] = "in_use" /\ m \notin staleBoxes /\ MailboxHolders(m) = {}
    /\ staleBoxes' = staleBoxes \cup {m}
    /\ UNCHANGED <<regMode, enabled, runner, counts, workPc, mailbox, authLock, mailState,
                   created, normal, reopened, events>>

-----------------------------------------------------------------------------
(* The workers.                                                            *)

worker == <<regMode, enabled, runner, counts, events>>

\* create_mailbox of the Outlook provider: the claim is one section under the lock.
Claim(w) ==
    /\ workPc[w] = "claiming"
    /\ \E m \in Mailboxes :
          /\ Claimable(m)
          /\ SetMail(m, "in_use")
          /\ mailbox' = [mailbox EXCEPT ![w] = m]
    /\ workPc' = [workPc EXCEPT ![w] = "signup"]
    /\ UNCHANGED <<worker, authLock, created, normal, reopened>>

ClaimRaises(w) ==
    /\ workPc[w] = "claiming" /\ \E m \in Mailboxes : Unused(m)
    /\ MailSaveRaises({})
    /\ workPc' = [workPc EXCEPT ![w] = "failed"]
    /\ UNCHANGED <<regMode, enabled, runner, counts, mailbox, authLock, created, normal>>

NoneLeft(w) ==
    /\ workPc[w] = "claiming" /\ \A m \in Mailboxes : ~Unused(m)
    /\ workPc' = [workPc EXCEPT ![w] = "failed"]
    /\ UNCHANGED <<worker, mailbox, authLock, mailState, staleBoxes, created, normal, reopened>>

\* Both authorize requests are made under platform_authorize_lock, challenge, cooling
\* off and second attempt included.
Authorize(w) ==
    /\ workPc[w] \in {"signup", "authorize"} /\ authLock = NoWorker
    /\ authLock' = w
    /\ UNCHANGED <<worker, workPc, mailbox, mailState, staleBoxes, created, normal, reopened>>

Authorized(w) ==
    /\ workPc[w] \in {"signup", "authorize"} /\ authLock = w
    /\ authLock' = NoWorker
    /\ workPc' = [workPc EXCEPT ![w] = IF @ = "signup" THEN "code" ELSE "exchange"]
    /\ UNCHANGED <<worker, mailbox, mailState, staleBoxes, created, normal, reopened>>

\* A registration fails: the mailbox is marked; the mutant gives it free.
GoneReleasing(w) ==
    /\ SetMail(mailbox[w], "unused")
    /\ mailbox' = [mailbox EXCEPT ![w] = NoMailbox]
    /\ UNCHANGED <<worker, created, normal, reopened>>
Gone(w) ==
    /\ SetMail(mailbox[w], "failed")
    /\ mailbox' = [mailbox EXCEPT ![w] = NoMailbox]
    /\ UNCHANGED <<worker, created, normal, reopened>>

AuthorizeFails(w) ==
    /\ workPc[w] \in {"signup", "authorize"} /\ authLock = w
    /\ authLock' = NoWorker
    /\ workPc' = [workPc EXCEPT ![w] = "failed"]
    /\ Gone(w)

\* wait_for_code, _validate_otp, _create_account: the code came and was right, and
\* from here the provider has an account for the address.
CreateAccount(w) ==
    /\ workPc[w] = "code" /\ mailbox[w] \notin created
    /\ created' = created \cup {mailbox[w]}
    /\ workPc' = [workPc EXCEPT ![w] = "authorize"]
    /\ UNCHANGED <<worker, mailbox, authLock, mailState, staleBoxes, normal, reopened>>

\* No code, a wrong one, or a refusal, which may concern the whole run
\* (registration_disallowed).
CreateAccountFails(w) ==
    /\ workPc[w] = "code"
    /\ \E how \in {"failed", "refused"} : workPc' = [workPc EXCEPT ![w] = how]
    /\ Gone(w)
    /\ UNCHANGED authLock

\* The tokens are there: the mailbox is marked as used before the account is saved.
Exchange(w) ==
    /\ workPc[w] = "exchange"
    /\ SetMail(mailbox[w], "used")
    /\ workPc' = [workPc EXCEPT ![w] = "saving"]
    /\ UNCHANGED <<worker, mailbox, authLock, created, normal, reopened>>

ExchangeFails(w) ==
    /\ workPc[w] = "exchange"
    /\ workPc' = [workPc EXCEPT ![w] = "failed"]
    /\ Gone(w)
    /\ UNCHANGED authLock

\* mark_mailbox_result raises, after a failure or after the tokens came: the registration
\* fails with its error, whatever the first one was.
MarkRaises(w) ==
    /\ \/ workPc[w] \in {"signup", "authorize"} /\ authLock = w /\ authLock' = NoWorker
       \/ workPc[w] \in {"code", "exchange"} /\ UNCHANGED authLock
    /\ MailSaveRaises({mailbox[w]})
    /\ workPc' = [workPc EXCEPT ![w] = "failed"]
    /\ mailbox' = [mailbox EXCEPT ![w] = NoMailbox]
    /\ UNCHANGED <<regMode, enabled, runner, counts, created, normal>>

\* add_account_items, then refresh_accounts, whose errors do not matter.
SaveAccount(w) ==
    /\ workPc[w] = "saving"
    /\ normal' = normal \cup {mailbox[w]}
    /\ workPc' = [workPc EXCEPT ![w] = "ok"]
    /\ mailbox' = [mailbox EXCEPT ![w] = NoMailbox]
    /\ UNCHANGED <<worker, authLock, mailState, staleBoxes, created, reopened>>

\* Saving raised: the worker failed, and the account is lost.
SaveFails(w) ==
    /\ workPc[w] = "saving"
    /\ workPc' = [workPc EXCEPT ![w] = "failed"]
    /\ mailbox' = [mailbox EXCEPT ![w] = NoMailbox]
    /\ UNCHANGED <<worker, authLock, mailState, staleBoxes, created, normal, reopened>>

\* Elsewhere in the program an account stops being normal.
WearsOut(m) ==
    /\ m \in normal /\ regMode = "available"
    /\ normal' = normal \ {m}
    /\ UNCHANGED <<regMode, enabled, runner, counts, workPc, mailbox, authLock, mailState,
                   staleBoxes, created, reopened, events>>

-----------------------------------------------------------------------------
(* The runner and its operators.                                           *)

others == <<regMode, mailbox, authLock, mailState, staleBoxes, created, normal, reopened>>

\* start(): with a runner it only sets the switch.
StartRun ==
    /\ Event
    /\ enabled' = TRUE
    /\ IF runner = "none" THEN runner' = "filling" /\ counts' = ZeroCounts
                          ELSE UNCHANGED <<runner, counts>>
    /\ UNCHANGED <<others, workPc>>

StopRun ==
    /\ enabled
    /\ enabled' = FALSE
    /\ UNCHANGED <<others, runner, counts, workPc, events>>

TargetReached ==
    IF regMode = "total" THEN counts.submitted >= RegTarget
                         ELSE Cardinality(normal) >= RegTarget

WantsMore == enabled /\ ~TargetReached /\ Cardinality(Futures) < Cardinality(RegWorkers)
Capped    == regMode = "available" /\ counts.submitted >= MaxSubmitted

SubmitWorker(w) ==
    /\ runner = "filling" /\ WantsMore /\ ~Capped
    /\ workPc[w] = "idle"
    /\ workPc' = [workPc EXCEPT ![w] = "claiming"]
    /\ counts' = [counts EXCEPT !.submitted = @ + 1]
    /\ UNCHANGED <<others, enabled, runner, events>>

StopFilling ==
    /\ runner = "filling" /\ (~WantsMore \/ Capped)
    /\ runner' = "deciding"
    /\ UNCHANGED <<others, enabled, counts, workPc, events>>

\* Mutant of Decide: only a stop ends a run.
DecideWhenStopped ==
    /\ runner = "deciding"
    /\ runner' = IF Futures # {} THEN "waiting" ELSE IF ~enabled THEN "leaving" ELSE "filling"
    /\ UNCHANGED <<others, enabled, counts, workPc, events>>

\* Nothing runs: the run is over, or the runner sleeps and looks again.
Decide ==
    /\ runner = "deciding"
    /\ runner' = IF Futures # {} THEN "waiting"
                 ELSE IF ~enabled \/ regMode = "total" THEN "leaving" ELSE "filling"
    /\ UNCHANGED <<others, enabled, counts, workPc, events>>

\* wait(FIRST_COMPLETED): every future that is done is counted.
Collect ==
    LET finished == {w \in RegWorkers : workPc[w] \in Finished}
        ok       == {w \in finished : workPc[w] = "ok"}
    IN /\ runner = "waiting" /\ finished # {}
       /\ counts' = [counts EXCEPT !.done = @ + Cardinality(finished),
                                   !.success = @ + Cardinality(ok),
                                   !.fail = @ + Cardinality(finished \ ok)]
       /\ enabled' = (enabled /\ \A w \in finished : workPc[w] # "refused")
       /\ workPc' = [w \in RegWorkers |-> IF w \in finished THEN "idle" ELSE workPc[w]]
       /\ runner' = "filling"
       /\ UNCHANGED <<others, events>>

\* The end of _run clears the switch, whoever has set it meanwhile.
LeaveRun ==
    /\ runner = "leaving"
    /\ enabled' = FALSE
    /\ runner' = "left"
    /\ UNCHANGED <<others, counts, workPc, events>>

RunnerDies ==
    /\ runner = "left"
    /\ runner' = "none"
    /\ UNCHANGED <<others, enabled, counts, workPc, events>>

\* The process dies, perhaps with a worker in the middle of a save of the mailboxes;
\* __init__ starts the run again when the file says enabled.
Crash ==
    /\ Event
    /\ workPc' = [w \in RegWorkers |-> "idle"]
    /\ mailbox' = [w \in RegWorkers |-> NoMailbox]
    /\ authLock' = NoWorker
    /\ \/ reopened' = reopened \cup {m \in Mailboxes : mailState[m] = "in_use"}
          /\ UNCHANGED <<mailState, staleBoxes>>
       \/ (\E w \in Futures : workPc[w] \notin Finished \cup {"saving"}) /\ LoseRecords
    /\ runner' = IF enabled THEN "filling" ELSE "none"
    /\ counts' = ZeroCounts
    /\ UNCHANGED <<regMode, enabled, created, normal>>

-----------------------------------------------------------------------------
RegInit ==
    /\ regMode \in RegModes
    /\ enabled = FALSE /\ runner = "none" /\ counts = ZeroCounts
    /\ workPc = [w \in RegWorkers |-> "idle"]
    /\ mailbox = [w \in RegWorkers |-> NoMailbox]
    /\ authLock = NoWorker
    /\ mailState = [m \in Mailboxes |-> "unused"]
    /\ staleBoxes = {} /\ created = {} /\ normal = {} /\ reopened = {}
    /\ events = 0

WorkerStep(w) ==
    \/ Claim(w) \/ NoneLeft(w) \/ Authorized(w) \/ AuthorizeFails(w)
    \/ CreateAccount(w) \/ CreateAccountFails(w)
    \/ Exchange(w) \/ ExchangeFails(w) \/ SaveAccount(w) \/ SaveFails(w)

RunnerStep ==
    \/ \E w \in RegWorkers : SubmitWorker(w)
    \/ StopFilling \/ Decide \/ Collect \/ LeaveRun \/ RunnerDies

RegNext ==
    \/ RunnerStep
    \/ \E w \in RegWorkers : WorkerStep(w) \/ Authorize(w) \/ ClaimRaises(w) \/ MarkRaises(w)
    \/ StartRun \/ StopRun \/ Crash
    \/ \E scope \in {"all", "failed"} : ResetMailboxes(scope)
    \/ \E m \in Mailboxes : BecomesStale(m) \/ WearsOut(m)

RegSpec == RegInit /\ [][RegNext]_regVars

-----------------------------------------------------------------------------
\* Until an operator gives a mailbox free, a crash or a save that raises leaves it in use,
\* or its record is lost with the file, one worker at most has it, and an address the
\* provider has an account for is not handed out again, however the registration ended.
MailboxTakenOnce ==
    \A m \in Mailboxes \ reopened :
        /\ Cardinality(MailboxHolders(m)) <= 1
        /\ m \in created => ~Unused(m)

\* A run that is stopped ends, unless it is started again; and one with a total ends by
\* itself, also when no mailbox is left or the platform refuses.
EveryRunEnds ==
    /\ (runner # "none" /\ ~enabled) ~> (runner = "none" \/ enabled)
    /\ (runner # "none" /\ regMode = "total") ~> (runner = "none")
=============================================================================
