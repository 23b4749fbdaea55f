--------------------------- MODULE Supply_proofs ----------------------------
(***************************************************************************)
(* What is proved of what supplies the account pool and looks after it,    *)
(* each for every value of its constants: registration, imports, OAuth     *)
(* logins, the codes of mailboxes and the checks of accounts.              *)
(***************************************************************************)
EXTENDS Registration, ImportJobs, OAuthSessions, MailCodes, AccountChecks,
        FiniteSetTheorems, WellFoundedInduction, TLAPS

-----------------------------------------------------------------------------
(* Registration: no mailbox is taken twice.                                *)

\* The places of a worker that has a mailbox.
Holding == {"signup", "code", "authorize", "exchange", "saving"}

MailType ==
    /\ workPc \in [RegWorkers -> {"idle", "claiming"} \cup Holding \cup Finished]
    /\ mailbox \in [RegWorkers -> Mailboxes \cup {NoMailbox}]
    /\ \A w \in RegWorkers : mailbox[w] \in Mailboxes <=> workPc[w] \in Holding
    /\ mailState \in [Mailboxes -> MailStates]

\* What the file says of a mailbox that one of the workers has.
StateOf(w) == IF workPc[w] = "saving" THEN "used" ELSE "in_use"

\* Of a mailbox that was not given free the file knows exactly who has it: one worker or none.
\* Hence one is stale only when it was left in use before.
FileAgrees ==
    /\ staleBoxes \subseteq reopened
    /\ \A w \in RegWorkers :
           mailbox[w] \in Mailboxes \ reopened => mailState[mailbox[w]] = StateOf(w)
    /\ \A v, w \in RegWorkers :
           (mailbox[w] \in Mailboxes \ reopened /\ mailbox[v] = mailbox[w]) => v = w
    /\ \A m \in Mailboxes \ reopened :
           mailState[m] = "in_use" => \E w \in RegWorkers : mailbox[w] = m

\* And the provider has no account for one that is unused.
CreatedTaken == \A m \in created \ reopened : m \in Mailboxes => mailState[m] # "unused"

RegInv == MailType /\ FileAgrees /\ CreatedTaken

\* The claim takes an unused mailbox, or one that was given free.
LEMMA ClaimKeeps ==
    ASSUME RegInv, NEW w \in RegWorkers, Claim(w)
    PROVE  RegInv'
<1> USE RegistrationAssumption DEF RegInv
<1>1. PICK m \in Mailboxes :
          /\ Unused(m) /\ SetMail(m, "in_use")
          /\ mailbox' = [mailbox EXCEPT ![w] = m]
          /\ workPc' = [workPc EXCEPT ![w] = "signup"]
          /\ UNCHANGED <<created, reopened>>
    BY DEF Claim, Claimable
<1>2. MailType'
    BY <1>1 DEF MailType, SetMail, MailStates, Holding
<1>3. m \notin reopened => \A v \in RegWorkers : mailbox[v] # m
    BY <1>1 DEF Unused, FileAgrees, StateOf
<1>4. FileAgrees'
    <2>1. /\ mailbox[w] \notin Mailboxes /\ mailbox'[w] = m /\ StateOf(w)' = "in_use"
          /\ \A v \in RegWorkers \ {w} : mailbox'[v] = mailbox[v] /\ StateOf(v)' = StateOf(v)
          /\ mailState'[m] = "in_use"
          /\ \A n \in Mailboxes \ {m} : mailState'[n] = mailState[n]
          /\ staleBoxes' \subseteq staleBoxes /\ reopened' = reopened
        BY <1>1 DEF Claim, MailType, StateOf, SetMail, Holding
    <2>2. \A v \in RegWorkers :
              mailbox'[v] \in Mailboxes \ reopened => mailState'[mailbox'[v]] = StateOf(v)'
        <3> SUFFICES ASSUME NEW v \in RegWorkers, mailbox'[v] \in Mailboxes \ reopened
                     PROVE  mailState'[mailbox'[v]] = StateOf(v)'
            OBVIOUS
        <3>1. CASE v = w
            BY <2>1, <3>1
        <3>2. CASE v # w
            <4>1. mailbox'[v] = mailbox[v] /\ mailbox[v] # m
                BY <1>3, <2>1, <3>2
            <4>2. StateOf(v)' = StateOf(v)
                BY <2>1, <3>2
            <4>3. mailState[mailbox[v]] = StateOf(v)
                BY <2>1, <4>1 DEF FileAgrees
            <4>4. mailState'[mailbox[v]] = mailState[mailbox[v]]
                BY <2>1, <4>1
            <4> QED BY <4>1, <4>2, <4>3, <4>4
        <3> QED BY <3>1, <3>2
    <2>3. \A u, v \in RegWorkers :
              (mailbox'[v] \in Mailboxes \ reopened /\ mailbox'[u] = mailbox'[v]) => u = v
        BY <1>3, <2>1 DEF FileAgrees
    <2>4. \A n \in Mailboxes \ reopened :
              mailState'[n] = "in_use" => \E v \in RegWorkers : mailbox'[v] = n
        BY <2>1 DEF FileAgrees
    <2> QED BY <2>1, <2>2, <2>3, <2>4 DEF FileAgrees
<1>5. CreatedTaken'
    BY <1>1 DEF MailType, CreatedTaken, SetMail
<1> QED BY <1>2, <1>4, <1>5

\* A worker goes on with its mailbox, whose state does not change.
LEMMA GoingOnKeeps ==
    ASSUME RegInv, NEW w \in RegWorkers,
           Authorize(w) \/ Authorized(w) \/ CreateAccount(w) \/ NoneLeft(w)
    PROVE  RegInv'
<1> USE RegistrationAssumption DEF RegInv
<1>1. /\ UNCHANGED <<mailbox, mailState, staleBoxes, reopened>>
      /\ \A v \in RegWorkers : (workPc'[v] = "saving") <=> (workPc[v] = "saving")
      /\ MailType'
    BY DEF Authorize, Authorized, CreateAccount, NoneLeft, MailType, Holding, Finished
<1>2. FileAgrees'
    BY <1>1 DEF FileAgrees, StateOf
<1>3. CASE UNCHANGED created
    BY <1>1, <1>2, <1>3 DEF CreatedTaken
<1>4. CASE CreateAccount(w)
    <2>1. mailbox[w] \in Mailboxes /\ workPc[w] = "code" /\ created' = created \cup {mailbox[w]}
        BY <1>4 DEF CreateAccount, MailType, Holding
    <2>2. mailbox[w] \notin reopened => mailState[mailbox[w]] = "in_use"
        BY <2>1 DEF FileAgrees, StateOf
    <2> QED BY <1>1, <1>2, <2>1, <2>2 DEF CreatedTaken
<1> QED BY <1>3, <1>4 DEF Authorize, Authorized, NoneLeft

\* A registration ends: its mailbox is marked as failed, or was marked as used before.
LEMMA LeavingKeeps ==
    ASSUME RegInv, NEW w \in RegWorkers,
           \/ AuthorizeFails(w) \/ CreateAccountFails(w) \/ ExchangeFails(w)
           \/ SaveAccount(w) \/ SaveFails(w)
    PROVE  RegInv'
<1> USE RegistrationAssumption DEF RegInv
<1>1. /\ workPc[w] \in Holding /\ mailbox[w] \in Mailboxes
      /\ mailbox' = [mailbox EXCEPT ![w] = NoMailbox]
      /\ UNCHANGED <<created, reopened>>
      /\ \E how \in Finished : workPc' = [workPc EXCEPT ![w] = how]
    BY DEF AuthorizeFails, CreateAccountFails, ExchangeFails, SaveAccount, SaveFails, Gone,
           MailType, Holding, Finished
<1>2. \/ SetMail(mailbox[w], "failed")
      \/ UNCHANGED <<mailState, staleBoxes>> /\ workPc[w] = "saving"
    BY DEF AuthorizeFails, CreateAccountFails, ExchangeFails, SaveAccount, SaveFails, Gone
<1>3. MailType'
    BY <1>1, <1>2 DEF MailType, SetMail, MailStates, Holding, Finished
<1>4. CASE SetMail(mailbox[w], "failed")
    <2>1. FileAgrees'
        BY <1>1, <1>4 DEF MailType, FileAgrees, StateOf, SetMail, Holding, Finished
    <2>2. CreatedTaken'
        BY <1>1, <1>4 DEF MailType, CreatedTaken, SetMail
    <2> QED BY <1>3, <2>1, <2>2
<1>5. CASE UNCHANGED <<mailState, staleBoxes>> /\ workPc[w] = "saving"
    <2>1. mailbox[w] \notin reopened => mailState[mailbox[w]] = "used"
        BY <1>1, <1>5 DEF FileAgrees, StateOf
    <2>2. FileAgrees'
        BY <1>1, <1>5, <2>1 DEF MailType, FileAgrees, StateOf, Holding, Finished
    <2>3. CreatedTaken'
        BY <1>1, <1>5 DEF CreatedTaken
    <2> QED BY <1>3, <2>2, <2>3
<1> QED BY <1>2, <1>4, <1>5

LEMMA ExchangeKeeps ==
    ASSUME RegInv, NEW w \in RegWorkers, Exchange(w)
    PROVE  RegInv'
<1> USE RegistrationAssumption DEF RegInv
<1>1. /\ mailbox[w] \in Mailboxes /\ workPc[w] = "exchange"
      /\ SetMail(mailbox[w], "used") /\ workPc' = [workPc EXCEPT ![w] = "saving"]
      /\ UNCHANGED <<mailbox, created, reopened>>
    BY DEF Exchange, MailType, Holding
<1>2. MailType'
    BY <1>1 DEF MailType, SetMail, MailStates, Holding
<1>3. FileAgrees'
    BY <1>1 DEF MailType, FileAgrees, StateOf, SetMail
<1>4. CreatedTaken'
    BY <1>1 DEF MailType, CreatedTaken, SetMail
<1> QED BY <1>2, <1>3, <1>4

\* All records lost: every mailbox is one that was given free, or has no account and
\* nobody who works with it.
LEMMA LosingKeeps ==
    ASSUME RegInv, MailType', LoseRecords, UNCHANGED created,
           \A w \in RegWorkers : \/ workPc'[w] = workPc[w] /\ mailbox'[w] = mailbox[w]
                               \/ mailbox'[w] = NoMailbox
    PROVE  RegInv'
<1> USE RegistrationAssumption DEF RegInv
<1>1. /\ \A m \in Mailboxes : mailState'[m] = "unused"
      /\ staleBoxes' = {} /\ reopened' = reopened \cup Recorded
    BY DEF LoseRecords
<1>2. \A w \in RegWorkers : mailbox'[w] \in Mailboxes =>
          mailbox'[w] = mailbox[w] /\ workPc'[w] = workPc[w] /\ mailbox[w] \in reopened'
    BY <1>1 DEF FileAgrees, StateOf, Recorded
<1>3. FileAgrees'
    BY <1>1, <1>2 DEF FileAgrees
<1>4. CreatedTaken'
    BY <1>1 DEF CreatedTaken, Recorded
<1> QED BY <1>3, <1>4

\* A save that raises.
LEMMA RaisingKeeps ==
    ASSUME RegInv, NEW w \in RegWorkers, ClaimRaises(w) \/ MarkRaises(w)
    PROVE  RegInv'
<1> USE RegistrationAssumption DEF RegInv
<1>1. /\ workPc' = [workPc EXCEPT ![w] = "failed"]
      /\ mailbox' = [mailbox EXCEPT ![w] = NoMailbox] /\ UNCHANGED created
      /\ \/ UNCHANGED <<mailState, staleBoxes>>
            /\ reopened \subseteq reopened' /\ (mailbox[w] \in Mailboxes => mailbox[w] \in reopened')
         \/ LoseRecords
    BY DEF ClaimRaises, MarkRaises, MailSaveRaises, MailType, Holding
<1>2. MailType'
    BY <1>1 DEF MailType, LoseRecords, MailStates, Holding, Finished
<1>3. CASE LoseRecords
    BY <1>1, <1>2, <1>3, LosingKeeps DEF MailType
<1>4. CASE /\ UNCHANGED <<mailState, staleBoxes>> /\ reopened \subseteq reopened'
           /\ mailbox[w] \in Mailboxes => mailbox[w] \in reopened'
    <2>1. FileAgrees'
        BY <1>1, <1>4 DEF FileAgrees, StateOf, MailType
    <2>2. CreatedTaken'
        BY <1>1, <1>4 DEF CreatedTaken
    <2> QED BY <1>2, <2>1, <2>2
<1> QED BY <1>1, <1>3, <1>4

\* What the runner, time, the operators and a crash do.
LEMMA OthersKeep ==
    ASSUME RegInv,
           \/ RunnerStep \/ StartRun \/ StopRun \/ Crash
           \/ \E scope \in {"all", "failed"} : ResetMailboxes(scope)
           \/ \E m \in Mailboxes : BecomesStale(m) \/ WearsOut(m)
    PROVE  RegInv'
<1> USE RegistrationAssumption DEF RegInv
<1>1. ASSUME NEW w \in RegWorkers, SubmitWorker(w) PROVE RegInv'
    BY <1>1 DEF SubmitWorker, others, MailType, FileAgrees, CreatedTaken, StateOf, Holding
<1>2. CASE Collect
    <2>1. /\ UNCHANGED <<mailbox, mailState, staleBoxes, created, reopened>>
          /\ workPc' \in [RegWorkers -> {"idle", "claiming"} \cup Holding \cup Finished]
          /\ \A w \in RegWorkers : workPc'[w] = workPc[w]
                                       \/ (workPc[w] \in Finished /\ workPc'[w] = "idle")
        BY <1>2 DEF Collect, others, MailType
    <2> QED BY <2>1 DEF MailType, FileAgrees, CreatedTaken, StateOf, Holding, Finished
<1>3. CASE StopFilling \/ Decide \/ LeaveRun \/ RunnerDies \/ StartRun \/ StopRun
    <2>1. UNCHANGED <<workPc, mailbox, mailState, staleBoxes, created, reopened>>
        BY <1>3 DEF StopFilling, Decide, LeaveRun, RunnerDies, StartRun, StopRun, others
    <2> QED BY <2>1 DEF MailType, FileAgrees, CreatedTaken, StateOf
<1>4. CASE Crash
    <2>1. MailType'
        BY <1>4 DEF Crash, MailType, LoseRecords, MailStates, Holding, Finished
    <2>2. CASE LoseRecords
        BY <1>4, <2>1, <2>2, LosingKeeps DEF Crash
    <2>3. CASE /\ UNCHANGED <<mailState, staleBoxes>>
               /\ reopened' = reopened \cup {m \in Mailboxes : mailState[m] = "in_use"}
        BY <1>4, <2>1, <2>3 DEF Crash, MailType, FileAgrees, CreatedTaken, StateOf
    <2> QED BY <1>4, <2>2, <2>3 DEF Crash
<1>5. ASSUME NEW scope \in {"all", "failed"}, ResetMailboxes(scope) PROVE RegInv'
    <2>1. PICK cleared \in SUBSET Mailboxes :
              /\ mailState' = [m \in Mailboxes |-> IF m \in cleared THEN "unused" ELSE mailState[m]]
              /\ staleBoxes' = staleBoxes \ cleared
              /\ reopened' = reopened \cup cleared
              /\ UNCHANGED <<workPc, mailbox, created>>
        BY <1>5 DEF ResetMailboxes
    <2> QED BY <2>1 DEF MailType, FileAgrees, CreatedTaken, StateOf, MailStates
<1>6. ASSUME NEW m \in Mailboxes, BecomesStale(m) PROVE RegInv'
    <2>1. m \in reopened
        BY <1>6 DEF BecomesStale, FileAgrees, MailboxHolders
    <2> QED BY <1>6, <2>1 DEF BecomesStale, MailType, FileAgrees, CreatedTaken, StateOf
<1>7. ASSUME NEW m \in Mailboxes, WearsOut(m) PROVE RegInv'
    BY <1>7 DEF WearsOut, MailType, FileAgrees, CreatedTaken, StateOf
<1> QED BY <1>1, <1>2, <1>3, <1>4, <1>5, <1>6, <1>7 DEF RunnerStep

LEMMA RegInvariant == RegSpec => []RegInv
<1>1. RegInit => RegInv
    BY RegistrationAssumption DEF RegInit, RegInv, MailType, FileAgrees, CreatedTaken,
       StateOf, MailStates, Holding
<1>2. RegInv /\ [RegNext]_regVars => RegInv'
    <2> SUFFICES ASSUME RegInv, [RegNext]_regVars PROVE RegInv'
        OBVIOUS
    <2>1. ASSUME NEW w \in RegWorkers,
                 WorkerStep(w) \/ Authorize(w) \/ ClaimRaises(w) \/ MarkRaises(w)
          PROVE  RegInv'
        BY <2>1, ClaimKeeps, GoingOnKeeps, LeavingKeeps, ExchangeKeeps, RaisingKeeps
           DEF WorkerStep
    <2>2. CASE UNCHANGED regVars
        BY <2>2 DEF regVars, RegInv, MailType, FileAgrees, CreatedTaken, StateOf
    <2> QED BY <2>1, <2>2, OthersKeep DEF RegNext
<1> QED BY <1>1, <1>2, PTL DEF RegSpec

\* For any number of workers, mailboxes, runs, resets, failed saves and crashes no mailbox
\* is taken twice unless an operator gave it free, a crash or a failed save left it in
\* use, or its record was lost with the file (create_mailbox, mark_mailbox_result
\* of mail_provider.py, worker of openai_register.py).
THEOREM MailboxTakenOnceHolds == RegSpec => []MailboxTakenOnce
<1>1. RegInv => MailboxTakenOnce
    <2> SUFFICES ASSUME RegInv, NEW m \in Mailboxes \ reopened
                 PROVE  /\ Cardinality(MailboxHolders(m)) <= 1
                        /\ m \in created => ~Unused(m)
        BY DEF MailboxTakenOnce
    <2>1. Cardinality(MailboxHolders(m)) <= 1
        <3>1. CASE MailboxHolders(m) = {}
            BY <3>1, FS_EmptySet
        <3>2. ASSUME NEW w \in MailboxHolders(m) PROVE Cardinality(MailboxHolders(m)) = 1
            <4>1. MailboxHolders(m) = {w}
                BY <3>2 DEF MailboxHolders, RegInv, FileAgrees
            <4> QED BY <4>1, FS_Singleton
        <3> QED BY <3>1, <3>2
    <2>2. m \in created => ~Unused(m)
        BY DEF RegInv, FileAgrees, CreatedTaken, Unused
    <2> QED BY <2>1, <2>2
<1> QED BY <1>1, RegInvariant, PTL

-----------------------------------------------------------------------------
(* Imports: the operator has the last word, and the counters add up.       *)

ImportStatuses == {"pending", "running", "failed"}
ImportJob == [status : {"none", "completed"} \cup ImportStatuses,
              completed : Nat, taken : Nat, failed : Nat, errors : Nat]

ImportPlaces  == {"idle", "read", "set", "asking", "fetching", "adding"}
ImportUpdates == {"none", "start", "error", "count", "counted", "nothing", "done"}
Importer      == {i \in [pc : ImportPlaces, server : Servers \cup {NoServer},
                         left : Nat, tokens : Nat, update : ImportUpdates,
                         read : ImportJob, settings : Nat] :
                      i.pc \in {"read", "set"} => i.update # "none"}

ImportTypeOK ==
    /\ importApi \in {"cpa", "sub2api"}
    /\ servers \in [Servers -> [settings : Nat, job : ImportJob]]
    /\ importer \in [ImportRuns -> Importer]
    /\ edits \in Nat /\ results \in [Servers -> Nat] /\ ordered \in [Servers -> Nat]
    /\ \A r \in ImportRuns : importer[r].server \in Servers \/ importer[r] = Idle

\* What an import that runs has of its n results, and what of it is in the job; `seen`
\* are the results it is through with.
Counts(api, i, job, seen, n) ==
    \/ /\ i.pc = "fetching"
       /\ job.errors = seen - i.tokens
       /\ job.completed = IF api = "cpa" THEN seen ELSE 0
    \/ /\ i.pc = "asking"
       /\ seen = 0 /\ i.tokens = 0 /\ job.errors = 0 /\ job.completed = 0 /\ n = Files
    \/ /\ i.pc = "adding"
       /\ seen = n /\ job.errors = n - i.tokens /\ job.completed = Files
    \/ /\ i.pc \in {"read", "set"}
       /\ \/ /\ i.update = "start"
             /\ seen = 0 /\ i.tokens = 0 /\ job.errors = 0 /\ job.completed = 0 /\ n = Files
          \/ /\ i.update = "error"
             /\ job.errors = seen - i.tokens - 1
             /\ job.completed = IF api = "cpa" THEN seen - 1 ELSE 0
          \/ /\ i.update = "count" /\ api = "cpa"
             /\ job.errors = seen - i.tokens /\ job.completed = seen - 1
          \/ /\ i.update = "counted" /\ api = "sub2api"
             /\ seen = n /\ job.errors = n - i.tokens /\ job.completed = 0
          \/ /\ i.update \in {"nothing", "done"}
             /\ seen = n /\ job.errors = n - i.tokens /\ job.completed = Files

\* The status may be set to failed by the operator, the counts are of the import.
SameCounts(job, other) ==
    /\ job.completed = other.completed /\ job.errors = other.errors
    /\ job.failed = other.failed /\ job.taken = other.taken

\* An import i of n results that reports to this job alone.
Reports(api, i, job, n) ==
    /\ i.left \in 0 .. n /\ i.tokens \in 0 .. n - i.left
    /\ job.failed = job.errors /\ job.status \in ImportStatuses
    /\ Counts(api, i, job, n - i.left, n)
    /\ i.pc = "set" => i.read.status \in ImportStatuses /\ SameCounts(i.read, job)

AddsUp(job, n) ==
    /\ job.completed <= Files
    /\ job.status = "completed" => /\ job.completed = Files
                                   /\ job.taken + job.failed = n
                                   /\ job.failed = job.errors

\* The servers whose job is the one of one import, which are there.
Single(s) == s \in Servers \ overlapped /\ servers[s].settings # 0

ImportInv ==
    /\ ImportTypeOK
    /\ OperatorHasLastWord
    /\ \A q, r \in ImportRuns :
           (importer[q].server \in Servers \ overlapped
                /\ importer[q].server = importer[r].server) => q = r
    /\ \A s \in Servers : servers[s].settings = 0 => servers[s].job = NoJob
    /\ \A r \in ImportRuns : Single(importer[r].server) =>
           Reports(importApi, importer[r], servers[importer[r].server].job,
                   results[importer[r].server])
    /\ \A s \in Servers \ overlapped : AddsUp(servers[s].job, results[s])
    /\ importApi = "cpa" => /\ \A s \in Servers : results[s] = Files
                            /\ \A r \in ImportRuns : importer[r].pc # "asking"

\* A thread moves on, and may have written its job or learnt of its results.
ImporterMoves(r, s, i, job, n) ==
    /\ s = importer[r].server /\ s \in Servers
    /\ i \in Importer /\ (i = Idle \/ i.server = s)
    /\ importer' = [importer EXCEPT ![r] = i]
    /\ job \in ImportJob
    /\ servers' = [servers EXCEPT ![s].job = job]
    /\ servers[s].settings = 0 => job = NoJob
    /\ n \in Nat /\ results' = [results EXCEPT ![s] = n]
    /\ importApi = "cpa" => n = Files /\ i.pc # "asking"
    /\ Single(s) => (i = Idle \/ Reports(importApi, i, job, n)) /\ AddsUp(job, n)
    /\ UNCHANGED <<importApi, edits, ordered, overlapped>>

LEMMA NoJobAddsUp == NoJob \in ImportJob /\ \A n : AddsUp(NoJob, n)
BY ImportAssumption DEF NoJob, ImportJob, AddsUp

LEMMA ImporterMovesStep ==
    ASSUME ImportInv, NEW r \in ImportRuns, NEW s, NEW i, NEW job, NEW n,
           ImporterMoves(r, s, i, job, n)
    PROVE  ImportInv'
<1> USE DEF ImportInv, ImporterMoves
<1>0. NoServer \notin Servers /\ Idle.server = NoServer
    BY ImportAssumption DEF Idle
<1>1. /\ servers'[s] = [settings |-> servers[s].settings, job |-> job]
      /\ results'[s] = n
      /\ \A t \in Servers \ {s} : servers'[t] = servers[t] /\ results'[t] = results[t]
    BY DEF ImportTypeOK
<1>2. /\ importer'[r] = i
      /\ \A q \in ImportRuns \ {r} : importer'[q] = importer[q]
    BY DEF ImportTypeOK
<1>3. ImportTypeOK'
    BY DEF ImportTypeOK
<1>4. \A t \in Servers : servers'[t].settings = servers[t].settings
    BY <1>1
<1>5. OperatorHasLastWord'
    BY <1>4 DEF OperatorHasLastWord
<1>6. \A t : Single(t)' = Single(t)
    BY <1>4 DEF Single
<1>7. ASSUME NEW q \in ImportRuns, Single(importer'[q].server)
      PROVE  Reports(importApi, importer'[q], servers'[importer'[q].server].job,
                     results'[importer'[q].server])
    <2>1. CASE q = r
        BY <1>0, <1>1, <1>2, <1>7, <2>1 DEF Single
    <2>2. CASE q # r
        <3>1. importer[q].server # s
            BY <1>2, <1>7, <2>2 DEF Single
        <3> QED BY <1>1, <1>2, <1>7, <2>2, <3>1 DEF Single
    <2> QED BY <2>1, <2>2
<1>8. ASSUME NEW t \in Servers, t \notin overlapped PROVE AddsUp(servers'[t].job, results'[t])
    <2>1. CASE servers[s].settings = 0
        BY <1>1, <1>8, <2>1, NoJobAddsUp
    <2>2. CASE servers[s].settings # 0
        BY <1>1, <1>8, <2>2 DEF Single
    <2> QED BY <2>1, <2>2
<1>9. \A t \in Servers : servers'[t].settings = 0 => servers'[t].job = NoJob
    BY <1>1
<1>10. \A q, p \in ImportRuns :
           (importer'[q].server \in Servers \ overlapped
                /\ importer'[q].server = importer'[p].server) => q = p
    BY <1>0, <1>2
<1>11. importApi = "cpa" => /\ \A t \in Servers : results'[t] = Files
                           /\ \A q \in ImportRuns : importer'[q].pc # "asking"
    BY <1>1, <1>2
<1> QED BY <1>3, <1>5, <1>6, <1>7, <1>8, <1>9, <1>10, <1>11

\* A thread that is somewhere works for a server that exists or was deleted.
LEMMA ImporterServer ==
    ASSUME ImportInv, NEW r \in ImportRuns, importer[r].pc # "idle"
    PROVE  /\ importer[r].server \in Servers /\ importer[r] \in Importer
           /\ servers[importer[r].server].job \in ImportJob
           /\ results[importer[r].server] \in Nat
BY DEF ImportInv, ImportTypeOK, Idle

\* A thread moves on and leaves its job.
LEMMA ImporterRuns ==
    ASSUME ImportInv, NEW r \in ImportRuns, importer[r].pc # "idle", NEW i \in Importer,
           importer' = [importer EXCEPT ![r] = i],
           i = Idle \/ i.server = importer[r].server,
           Single(importer[r].server) => (i = Idle \/
               Reports(importApi, i, servers[importer[r].server].job,
                       results[importer[r].server])),
           importApi = "cpa" => i.pc # "asking",
           UNCHANGED <<importApi, servers, edits, results, ordered, overlapped>>
    PROVE  ImportInv'
<1> DEFINE s == importer[r].server
           job == servers[s].job
           n == results[s]
<1>1. s \in Servers /\ job \in ImportJob /\ n \in Nat
    BY ImporterServer
<1>2. servers' = [servers EXCEPT ![s].job = job] /\ results' = [results EXCEPT ![s] = n]
    BY <1>1 DEF ImportInv, ImportTypeOK
<1>3. (Single(s) => AddsUp(job, n)) /\ (importApi = "cpa" => n = Files)
    BY <1>1 DEF ImportInv, Single
<1>4. servers[s].settings = 0 => job = NoJob
    BY <1>1 DEF ImportInv
<1> HIDE DEF job, n
<1>5. ImporterMoves(r, s, i, job, n)
    BY <1>1, <1>2, <1>3, <1>4 DEF ImporterMoves, job, n
<1> QED BY <1>5, ImporterMovesStep

LEMMA ReadJobStep ==
    ASSUME ImportInv, NEW r \in ImportRuns, ReadJob(r)
    PROVE  ImportInv'
<1> DEFINE s == importer[r].server
           i == [importer[r] EXCEPT !.pc = "set", !.read = Job(r)]
<1>1. s \in Servers /\ importer[r] \in Importer /\ Job(r) \in ImportJob
    BY ImporterServer DEF ReadJob, Job
<1>2. importer[r].pc = "read" /\ importer' = [importer EXCEPT ![r] = i]
    BY DEF ReadJob, ImportInv, ImportTypeOK
<1>3. i \in Importer /\ i.server = s
    BY <1>1, <1>2 DEF Importer, ImportPlaces
<1>4. ASSUME Single(s) PROVE Reports(importApi, i, Job(r), results[s])
    <2>1. Reports(importApi, importer[r], Job(r), results[s])
        BY <1>4 DEF ImportInv, Job
    <2> QED BY <1>1, <1>2, <2>1 DEF Reports, Counts, SameCounts, Importer
<1>5. i.pc = "set"
    BY <1>1, <1>2 DEF Importer
<1> HIDE DEF i
<1> QED BY <1>5, <1>2, <1>3, <1>4, ImporterRuns DEF ReadJob, Job

LEMMA ExportStep ==
    ASSUME ImportInv, NEW r \in ImportRuns, Export(r)
    PROVE  ImportInv'
<1> DEFINE s == importer[r].server
           job == servers[s].job
<1>1. PICK tokens, without, skipped \in 0 .. MaxExported :
         Exported(r, tokens, ExportErrors(tokens + without + skipped, without))
    BY DEF Export
<1> DEFINE e == ExportErrors(tokens + without + skipped, without)
           i == [importer[r] EXCEPT !.pc = "fetching", !.left = e, !.tokens = tokens]
           n == IF s \in overlapped THEN results[s] ELSE tokens + e
<1>3. tokens \in Nat /\ e \in Nat
    BY <1>1, ImportAssumption DEF ExportErrors
<1>2. importer' = [importer EXCEPT ![r] = i]
    BY <1>1 DEF Exported, ImportInv, ImportTypeOK
<1>12. results' = IF s \in overlapped THEN results ELSE [results EXCEPT ![s] = tokens + e]
    BY <1>1 DEF Exported
<1> HIDE DEF e
<1>4. /\ s \in Servers /\ importer[r] \in Importer /\ job \in ImportJob
      /\ results[s] \in Nat /\ importer[r].pc = "asking" /\ importApi # "cpa"
      /\ importApi \in {"cpa", "sub2api"}
    BY ImporterServer DEF Export, ImportInv, ImportTypeOK
<1>5. /\ i \in Importer /\ i.server = s /\ i.pc = "fetching" /\ i.left = e
      /\ i.tokens = tokens
    <2>1. /\ importer[r] \in [pc : ImportPlaces, server : Servers \cup {NoServer},
                     left : Nat, tokens : Nat, update : ImportUpdates,
                     read : ImportJob, settings : Nat]
          /\ importer[r].pc = "asking" /\ importer[r].server = s
        BY <1>4 DEF Importer
    <2> QED BY <1>3, <2>1 DEF Importer, ImportPlaces
<1>6. n \in Nat /\ results' = [results EXCEPT ![s] = n]
    <2>1. results \in [Servers -> Nat] /\ tokens + e \in Nat
        BY <1>3 DEF ImportInv, ImportTypeOK
    <2> QED BY <1>12, <1>4, <2>1
<1>7. importer' = [importer EXCEPT ![r] = i] /\ servers' = [servers EXCEPT ![s].job = job]
    BY <1>2, <1>4 DEF ImportInv, ImportTypeOK, Export
<1>8. ASSUME Single(s) PROVE Reports(importApi, i, job, n) /\ AddsUp(job, n)
    <2>1. Reports(importApi, importer[r], job, results[s]) /\ AddsUp(job, results[s])
        BY <1>8 DEF ImportInv, Single
    <2>2. job.errors = 0 /\ job.completed = 0 /\ n = tokens + e
        BY <1>4, <1>8, <2>1 DEF Reports, Counts, Single
    <2>3. job.failed = 0 /\ job.status \in ImportStatuses /\ job.status # "completed"
        BY <2>1, <2>2 DEF Reports, ImportStatuses
    <2>4. n - i.left = tokens /\ i.left \in 0 .. n /\ i.tokens \in 0 .. n - i.left
        BY <1>3, <1>5, <2>2
    <2> HIDE DEF i, n, job
    <2>5. Counts(importApi, i, job, n - i.left, n)
        BY <1>3, <1>4, <1>5, <2>2, <2>4 DEF Counts
    <2>6. Reports(importApi, i, job, n)
        BY <1>5, <2>2, <2>3, <2>4, <2>5 DEF Reports
    <2>7. AddsUp(job, n)
        BY <2>1, <2>3 DEF AddsUp
    <2> QED BY <2>6, <2>7
<1>9. servers[s].settings = 0 => job = NoJob
    BY <1>4 DEF ImportInv
<1>10. UNCHANGED <<importApi, edits, ordered, overlapped>>
    BY DEF Export
<1> HIDE DEF i, n, job
<1>11. ImporterMoves(r, s, i, job, n)
    BY <1>4, <1>5, <1>6, <1>7, <1>8, <1>9, <1>10 DEF ImporterMoves
<1> QED BY <1>11, ImporterMovesStep

LEMMA ExportRaisesStep ==
    ASSUME ImportInv, NEW r \in ImportRuns, ExportRaises(r)
    PROVE  ImportInv'
<1> DEFINE s == importer[r].server
           i == [importer[r] EXCEPT !.pc = "fetching", !.left = Files]
<1>1. /\ s \in Servers /\ importer[r] \in Importer /\ servers[s].job \in ImportJob
      /\ results[s] \in Nat /\ importer[r].pc = "asking" /\ importApi # "cpa" /\ Files \in Nat
    BY ImporterServer, ImportAssumption DEF ExportRaises, ImportInv
<1>2. i \in Importer /\ i.server = s /\ i.pc = "fetching" /\ i.left = Files
      /\ i.tokens = importer[r].tokens /\ i.tokens \in Nat
    BY <1>1 DEF Importer, ImportPlaces
<1>3. ASSUME Single(s) PROVE Reports(importApi, i, servers[s].job, results[s])
    <2>1. Reports(importApi, importer[r], servers[s].job, results[s])
        BY <1>3 DEF ImportInv
    <2> HIDE DEF i
    <2>2. /\ results[s] = Files /\ i.tokens = 0 /\ servers[s].job.errors = 0
          /\ servers[s].job.completed = 0
        BY <1>1, <1>2, <2>1 DEF Reports, Counts
    <2> QED BY <1>1, <1>2, <2>1, <2>2 DEF Reports, Counts
<1>4. importer' = [importer EXCEPT ![r] = i]
    BY DEF ExportRaises, ImportInv, ImportTypeOK
<1> HIDE DEF i
<1> QED BY <1>1, <1>2, <1>3, <1>4, ImporterRuns DEF ExportRaises

LEMMA FetchFileStep ==
    ASSUME ImportInv, NEW r \in ImportRuns, FetchFile(r)
    PROVE  ImportInv'
<1>1. PICK ok \in BOOLEAN : /\ ok => importApi = "cpa"
                            /\ importer' = [importer EXCEPT ![r] = Fetched(r, ok)]
    BY DEF FetchFile
<1> DEFINE s == importer[r].server
           i == Fetched(r, ok)
<1>2. s \in Servers /\ importer[r] \in Importer /\ servers[s].job \in ImportJob
      /\ results[s] \in Nat
    BY ImporterServer DEF FetchFile
<1>3. importer[r].pc = "fetching" /\ importer[r].left > 0 /\ importApi \in {"cpa", "sub2api"}
    BY DEF FetchFile, ImportInv, ImportTypeOK
<1>4. /\ i.pc = "read" /\ i.left = importer[r].left - 1 /\ i.server = s
      /\ i.update = IF ok THEN "count" ELSE "error"
      /\ i.tokens = IF ok THEN importer[r].tokens + 1 ELSE importer[r].tokens
      /\ i \in Importer
    <2> DEFINE j == [importer[r] EXCEPT !.left = @ - 1, !.pc = "read"]
    <2>1. /\ j \in [pc : ImportPlaces, server : Servers \cup {NoServer},
                     left : Nat, tokens : Nat, update : ImportUpdates,
                     read : ImportJob, settings : Nat]
          /\ j.left = importer[r].left - 1 /\ j.server = s
          /\ j.tokens = importer[r].tokens /\ j.pc = "read"
        <3>1. importer[r] \in [pc : ImportPlaces, server : Servers \cup {NoServer},
                     left : Nat, tokens : Nat, update : ImportUpdates,
                     read : ImportJob, settings : Nat]
            BY <1>2 DEF Importer
        <3>2. importer[r].left - 1 \in Nat
            BY <1>3, <3>1
        <3> QED BY <3>1, <3>2 DEF ImportPlaces
    <2>2. i = IF ok THEN [j EXCEPT !.tokens = @ + 1, !.update = "count"]
              ELSE [j EXCEPT !.update = "error"]
        BY DEF Fetched
    <2> HIDE DEF j, i
    <2>3. CASE ~ok
        BY <2>1, <2>2, <2>3 DEF Importer, ImportUpdates
    <2>4. CASE ok
        <3>1. i = [j EXCEPT !.tokens = j.tokens + 1, !.update = "count"]
            BY <2>2, <2>4
        <3>2. j.tokens + 1 \in Nat
            BY <2>1
        <3>3. i \in Importer
            BY <2>1, <3>1, <3>2 DEF Importer, ImportUpdates
        <3> QED BY <2>1, <2>4, <3>1, <3>3
    <2> QED BY <2>3, <2>4
<1> HIDE DEF i
<1>5. ASSUME Single(s) PROVE Reports(importApi, i, servers[s].job, results[s])
    <2>1. Reports(importApi, importer[r], servers[s].job, results[s])
        BY <1>5 DEF ImportInv
    <2>2. importer[r].left \in Nat /\ importer[r].tokens \in Nat
        BY <1>2 DEF Importer
    <2> QED BY <1>1, <1>2, <1>3, <1>4, <2>1, <2>2 DEF Reports, Counts
<1>6. UNCHANGED <<importApi, servers, edits, results, ordered, overlapped>>
    BY DEF FetchFile
<1> QED BY <1>1, <1>3, <1>4, <1>5, <1>6, ImporterRuns DEF i

LEMMA FetchedAllStep ==
    ASSUME ImportInv, NEW r \in ImportRuns, FetchedAll(r)
    PROVE  ImportInv'
<1> DEFINE s == importer[r].server
           i == IF importApi = "cpa" THEN [importer[r] EXCEPT !.pc = "adding"]
                ELSE [importer[r] EXCEPT !.pc = "read", !.update = "counted"]
<1>2. s \in Servers /\ importer[r] \in Importer /\ servers[s].job \in ImportJob
      /\ results[s] \in Nat
    BY ImporterServer DEF FetchedAll
<1>3. importer[r].pc = "fetching" /\ importer[r].left = 0 /\ importApi \in {"cpa", "sub2api"}
    BY DEF FetchedAll, ImportInv, ImportTypeOK
<1>4. i \in Importer /\ i.server = s /\ i.pc # "asking"
    BY <1>2, <1>3 DEF Importer, ImportPlaces, ImportUpdates
<1>5. ASSUME Single(s) PROVE Reports(importApi, i, servers[s].job, results[s])
    <2>1. Reports(importApi, importer[r], servers[s].job, results[s])
        BY <1>5 DEF ImportInv
    <2>2. Files \in Nat /\ (importApi = "cpa" => results[s] = Files)
        BY <1>2, ImportAssumption DEF ImportInv
    <2> QED BY <1>2, <1>3, <2>1, <2>2 DEF Reports, Counts, Importer, ImportJob
<1>6. importer' = [importer EXCEPT ![r] = i]
    BY DEF FetchedAll, ImportInv, ImportTypeOK
<1> HIDE DEF i
<1> QED BY <1>3, <1>4, <1>5, <1>6, ImporterRuns DEF FetchedAll

LEMMA AddTokensStep ==
    ASSUME ImportInv, NEW r \in ImportRuns, AddTokens(r)
    PROVE  ImportInv'
<1> DEFINE s == importer[r].server
           u == IF importer[r].tokens = 0 THEN "nothing" ELSE "done"
           i == [importer[r] EXCEPT !.pc = "read", !.update = u]
<1>2. s \in Servers /\ importer[r] \in Importer /\ servers[s].job \in ImportJob
      /\ results[s] \in Nat
    BY ImporterServer DEF AddTokens
<1>3. importer[r].pc = "adding"
    BY DEF AddTokens
<1>4. i \in Importer /\ i.server = s /\ i.pc # "asking"
    BY <1>2, <1>3 DEF Importer, ImportPlaces, ImportUpdates
<1>5. ASSUME Single(s) PROVE Reports(importApi, i, servers[s].job, results[s])
    <2>1. Reports(importApi, importer[r], servers[s].job, results[s])
        BY <1>5 DEF ImportInv
    <2> QED BY <1>2, <1>3, <2>1 DEF Reports, Counts, Importer, ImportJob
<1>6. importer' = [importer EXCEPT ![r] = i]
    BY DEF AddTokens, ImportInv, ImportTypeOK
<1> HIDE DEF i
<1> QED BY <1>3, <1>4, <1>5, <1>6, ImporterRuns DEF AddTokens

LEMMA IdleImporter == Idle \in Importer /\ Idle.pc # "asking"
BY ImportAssumption DEF Idle, NoJob, Importer, ImportPlaces, ImportUpdates, ImportJob

LEMMA AddRaisesStep ==
    ASSUME ImportInv, NEW r \in ImportRuns, AddRaises(r)
    PROVE  ImportInv'
BY IdleImporter, ImporterRuns DEF AddRaises

\* What an update makes of the job when the import reports to it alone.
LEMMA UpdatedReports ==
    ASSUME NEW r, NEW job \in ImportJob, NEW n \in Nat, importer[r] \in Importer, importer[r].pc = "set",
           importApi \in {"cpa", "sub2api"}, Reports(importApi, importer[r], job, n),
           importApi = "cpa" => n = Files,
           NEW i, i = [NextStep(r) EXCEPT !.read = NoJob]
    PROVE  /\ i = Idle \/ Reports(importApi, i, Updated(r), n)
           /\ AddsUp(Updated(r), n)
<1> DEFINE u == importer[r].update
           b == importer[r].read
           v == Updated(r)
           seen == n - importer[r].left
<1>0. /\ Files \in Nat /\ b \in ImportJob
      /\ importer[r].tokens \in Nat /\ importer[r].left \in Nat
    BY ImportAssumption DEF Importer
<1>1. /\ b.status \in ImportStatuses /\ b.failed = b.errors
      /\ b.completed = job.completed /\ b.errors = job.errors
    BY DEF Reports, SameCounts
<1>2. /\ importer[r].left \in 0 .. n /\ importer[r].tokens \in 0 .. seen
      /\ seen \in 0 .. n
    BY <1>0 DEF Reports
<1>3. \/ /\ u = "start" /\ seen = 0 /\ importer[r].tokens = 0 /\ b.errors = 0 /\ b.completed = 0
         /\ n = Files
      \/ /\ u = "error" /\ b.errors = seen - importer[r].tokens - 1
         /\ b.completed = IF importApi = "cpa" THEN seen - 1 ELSE 0
      \/ /\ u = "count" /\ importApi = "cpa"
         /\ b.errors = seen - importer[r].tokens /\ b.completed = seen - 1
      \/ /\ u = "counted" /\ importApi = "sub2api"
         /\ seen = n /\ b.errors = n - importer[r].tokens /\ b.completed = 0
      \/ /\ u \in {"nothing", "done"}
         /\ seen = n /\ b.errors = n - importer[r].tokens /\ b.completed = Files
    BY <1>1 DEF Reports, Counts
<1>4. /\ v.errors = IF u = "error" THEN b.errors + 1 ELSE b.errors
      /\ v.failed = v.errors
      /\ v.completed = CASE u = "start" -> b.completed [] u = "error" -> b.completed
                         [] u = "count" -> b.completed + 1 [] OTHER -> Files
      /\ v.status = CASE u = "start" -> "running" [] u = "nothing" -> "failed"
                      [] u = "done" -> "completed" [] OTHER -> b.status
      /\ u = "done" => v.taken = importer[r].tokens
    <2> USE <1>0, <1>1, <1>3 DEF Updated, ImportJob
    <2>1. CASE u = "start"
        BY <2>1
    <2>2. CASE u = "error"
        BY <2>2
    <2>3. CASE u = "count"
        BY <2>3
    <2>4. CASE u = "counted"
        BY <2>4
    <2>5. CASE u = "nothing"
        BY <2>5
    <2>6. CASE u = "done"
        BY <2>6
    <2> QED BY <2>1, <2>2, <2>3, <2>4, <2>5, <2>6
<1>5. CASE u \in {"nothing", "done"}
    <2>1. NextStep(r) = Idle
        BY <1>5 DEF NextStep
    <2>2. i = Idle
        BY <2>1 DEF Idle
    <2> HIDE DEF v
    <2> QED BY <1>0, <1>2, <1>3, <1>4, <1>5, <2>2 DEF AddsUp, v
<1>6. CASE u \notin {"nothing", "done"}
    <2>1. /\ i.left = importer[r].left /\ i.tokens = importer[r].tokens
          /\ i.pc = IF u = "error" /\ importApi = "cpa" THEN "read"
                    ELSE IF u = "counted" THEN "adding"
                    ELSE IF u = "start" /\ importApi = "sub2api" THEN "asking" ELSE "fetching"
          /\ i.pc = "read" => i.update = "count"
        <3>1. CASE u = "error" /\ importApi = "cpa"
            BY <1>6, <3>1 DEF NextStep, Importer
        <3>2. CASE u = "counted"
            BY <1>6, <3>2 DEF NextStep, Importer
        <3>4. CASE u = "start" /\ importApi = "sub2api"
            BY <1>6, <3>4 DEF NextStep, Importer
        <3>3. CASE ~(u = "error" /\ importApi = "cpa") /\ u # "counted"
                   /\ ~(u = "start" /\ importApi = "sub2api")
            <4>1. NextStep(r) = [importer[r] EXCEPT !.pc = "fetching"]
                BY <1>6, <3>3 DEF NextStep
            <4> QED BY <1>6, <3>3, <4>1 DEF Importer
        <3> QED BY <3>1, <3>2, <3>3, <3>4
    <2> HIDE DEF v
    <2>2. Reports(importApi, i, v, n)
        <3>1. i.left \in 0 .. n /\ i.tokens \in 0 .. n - i.left /\ i.pc # "set"
              /\ n - i.left = seen
            BY <1>2, <2>1
        <3>2. v.failed = v.errors /\ v.status \in ImportStatuses
            BY <1>1, <1>3, <1>4, <1>6 DEF ImportStatuses
        <3>3. Counts(importApi, i, v, seen, n)
            <4>0. b.errors \in Nat /\ b.completed \in Nat
                BY <1>0 DEF ImportJob
            <4> HIDE DEF b, u, seen
            <4>1. CASE u = "start"
                BY <1>0, <1>2, <1>3, <1>4, <2>1, <4>0, <4>1 DEF Counts
            <4>2. CASE u = "error"
                BY <1>0, <1>2, <1>3, <1>4, <2>1, <4>0, <4>2 DEF Counts
            <4>3. CASE u = "count"
                BY <1>0, <1>2, <1>3, <1>4, <2>1, <4>0, <4>3 DEF Counts
            <4>4. CASE u = "counted"
                BY <1>0, <1>2, <1>3, <1>4, <2>1, <4>0, <4>4 DEF Counts
            <4> QED BY <1>3, <1>6, <4>1, <4>2, <4>3, <4>4
        <3> QED BY <3>1, <3>2, <3>3 DEF Reports
    <2>3. AddsUp(v, n)
        BY <1>0, <1>1, <1>2, <1>3, <1>4, <1>6 DEF AddsUp, ImportStatuses
    <2> QED BY <2>2, <2>3 DEF v
<1> QED BY <1>5, <1>6

LEMMA JobFields ==
    ASSUME NEW b \in ImportJob, NEW n \in Nat
    PROVE  [b EXCEPT !.errors = n, !.failed = n] \in ImportJob
BY DEF ImportJob

LEMMA JobCounts ==
    ASSUME NEW b \in ImportJob, NEW n \in Nat, NEW e \in Nat
    PROVE  [b EXCEPT !.completed = n, !.failed = e] \in ImportJob
BY DEF ImportJob

LEMMA WriteJobStep ==
    ASSUME ImportInv, NEW r \in ImportRuns, WriteJob(r)
    PROVE  ImportInv'
<1> DEFINE s == importer[r].server
           i == [NextStep(r) EXCEPT !.read = NoJob]
           job == IF servers'[s] = servers[s] THEN servers[s].job ELSE Updated(r)
<1>1. s \in Servers /\ importer[r] \in Importer /\ servers[s].job \in ImportJob
      /\ results[s] \in Nat
    BY ImporterServer DEF WriteJob
<1>2. /\ importer[r].pc = "set" /\ importApi \in {"cpa", "sub2api"}
      /\ importer' = [importer EXCEPT ![r] = i]
    BY DEF WriteJob, ImportInv, ImportTypeOK
<1>3. i \in Importer /\ (i = Idle \/ i.server = s) /\ (importApi = "cpa" => i.pc # "asking")
    <2>1. NoJob \in ImportJob
        BY DEF NoJob, ImportJob
    <2>2. /\ NextStep(r) \in Importer /\ (NextStep(r) = Idle \/ NextStep(r).server = s)
          /\ importApi = "cpa" => NextStep(r).pc # "asking"
        <3>1. CASE importer[r].update \in {"nothing", "done"}
            BY <3>1, IdleImporter DEF NextStep
        <3>2. CASE importer[r].update = "error" /\ importApi = "cpa"
            BY <1>1, <3>2 DEF NextStep, Importer, ImportPlaces, ImportUpdates
        <3>3. CASE importer[r].update = "counted"
            BY <1>1, <3>3 DEF NextStep, Importer, ImportPlaces, ImportUpdates
        <3>4. CASE NextStep(r) = [importer[r] EXCEPT !.pc = "fetching"]
            BY <1>1, <3>4 DEF Importer, ImportPlaces, ImportUpdates
        <3>5. CASE importer[r].update = "start" /\ importApi = "sub2api"
            BY <1>1, <3>5 DEF NextStep, Importer, ImportPlaces, ImportUpdates
        <3> QED BY <3>1, <3>2, <3>3, <3>4, <3>5 DEF NextStep
    <2> QED BY <2>1, <2>2 DEF Importer, Idle
<1>4. Updated(r) \in ImportJob
    <2> DEFINE b == importer[r].read
    <2>1. importer[r].read \in ImportJob /\ importer[r].tokens \in Nat /\ Files \in Nat
          /\ importer[r].update \in ImportUpdates \ {"none"}
        BY <1>1, <1>2, ImportAssumption DEF Importer
    <2> USE <2>1 DEF Updated, ImportJob, ImportStatuses
    <2>2. CASE importer[r].update = "start"
        BY <2>2
    <2>3. CASE importer[r].update = "error"
        <3>1. Updated(r) = [b EXCEPT !.errors = b.errors + 1, !.failed = b.errors + 1]
            BY <2>3
        <3> DEFINE k == b.errors + 1
        <3>2. b \in ImportJob /\ k \in Nat
            OBVIOUS
        <3> HIDE DEF b, Updated, ImportJob, k
        <3>3. [b EXCEPT !.errors = k, !.failed = k] \in ImportJob
            BY <3>2, JobFields
        <3> USE DEF k
        <3> QED BY <3>1, <3>3
    <2>4. CASE importer[r].update = "count"
        <3>1. Updated(r) = [b EXCEPT !.completed = b.completed + 1, !.failed = b.errors]
            BY <2>4
        <3> DEFINE k == b.completed + 1
        <3>2. b \in ImportJob /\ k \in Nat /\ b.errors \in Nat
            OBVIOUS
        <3> HIDE DEF b, Updated, ImportJob, k
        <3>3. [b EXCEPT !.completed = k, !.failed = b.errors] \in ImportJob
            BY <3>2, JobCounts
        <3> USE DEF k
        <3> QED BY <3>1, <3>3
    <2>5. CASE importer[r].update = "counted"
        BY <2>5
    <2>6. CASE importer[r].update = "nothing"
        BY <2>6
    <2>7. CASE importer[r].update = "done"
        BY <2>7
    <2> QED BY <2>2, <2>3, <2>4, <2>5, <2>6, <2>7 DEF ImportUpdates
<1>5. servers' = IF Present(s) /\ importer[r].read # NoJob
                 THEN [servers EXCEPT ![s].job = Updated(r)] ELSE servers
    BY DEF WriteJob, SaveJob
<1>6. UNCHANGED <<importApi, edits, results, ordered, overlapped>>
    BY DEF WriteJob
<1> HIDE DEF i
<1>7. ASSUME NEW new \in ImportJob, servers' = [servers EXCEPT ![s].job = new],
             servers[s].settings = 0 => new = NoJob,
             Single(s) => (i = Idle \/ Reports(importApi, i, new, results[s])) /\ AddsUp(new, results[s])
      PROVE  ImportInv'
    <2>0. results' = [results EXCEPT ![s] = results[s]] /\ (importApi = "cpa" => results[s] = Files)
        BY <1>1, <1>6 DEF ImportInv, ImportTypeOK
    <2>1. ImporterMoves(r, s, i, new, results[s])
        BY <1>1, <1>2, <1>3, <1>6, <1>7, <2>0 DEF ImporterMoves
    <2> QED BY <2>1, ImporterMovesStep
<1>8. ASSUME Single(s)
      PROVE  /\ importer[r].read # NoJob /\ Present(s)
             /\ (i = Idle \/ Reports(importApi, i, Updated(r), results[s])) /\ AddsUp(Updated(r), results[s])
    <2>1. Reports(importApi, importer[r], servers[s].job, results[s])
        BY <1>8 DEF ImportInv
    <2>2. importer[r].read # NoJob
        BY <1>2, <2>1 DEF Reports, NoJob, ImportStatuses
    <2>3. (i = Idle \/ Reports(importApi, i, Updated(r), results[s])) /\ AddsUp(Updated(r), results[s])
        BY <1>1, <1>2, <2>1, UpdatedReports DEF i, ImportInv
    <2> QED BY <1>8, <2>2, <2>3 DEF Single, Present
<1>9. CASE Present(s) /\ importer[r].read # NoJob
    <2>1. servers[s].settings # 0
        BY <1>9 DEF Present
    <2> QED BY <1>4, <1>5, <1>7, <1>8, <1>9, <2>1
<1>10. CASE ~(Present(s) /\ importer[r].read # NoJob)
    <2>1. ~Single(s)
        BY <1>8, <1>10
    <2>2. servers' = [servers EXCEPT ![s].job = servers[s].job]
        BY <1>1, <1>5, <1>10 DEF ImportInv, ImportTypeOK
    <2>3. servers[s].settings = 0 => servers[s].job = NoJob
        BY <1>1 DEF ImportInv
    <2> QED BY <1>1, <1>7, <2>1, <2>2, <2>3
<1> QED BY <1>9, <1>10

-----------------------------------------------------------------------------
(* The operators of imports.                                               *)

LEMMA NormalizedJob ==
    ASSUME NEW job \in ImportJob
    PROVE  /\ Normalized(job) \in ImportJob /\ SameCounts(Normalized(job), job)
           /\ Normalized(job).status = IF job.status \in Unfinished THEN "failed"
                                       ELSE job.status
           /\ job = NoJob => Normalized(job) = NoJob
BY DEF Normalized, ImportJob, ImportStatuses, SameCounts, Unfinished, NoJob

LEMMA NormalizedKeeps ==
    ASSUME NEW job \in ImportJob, NEW api, NEW i
    PROVE  /\ \A n : AddsUp(job, n) => AddsUp(Normalized(job), n)
           /\ \A n : Reports(api, i, job, n) => Reports(api, i, Normalized(job), n)
BY NormalizedJob DEF AddsUp, Reports, Counts, SameCounts, ImportStatuses, Unfinished

LEMMA UpdateServerStep ==
    ASSUME ImportInv, NEW s \in Servers, UpdateServer(s)
    PROVE  ImportInv'
<1> USE DEF ImportInv
<1> DEFINE job == Normalized(servers[s].job)
<1>1. /\ servers' = [servers EXCEPT ![s] = [settings |-> edits + 2, job |-> job]]
      /\ ordered' = [ordered EXCEPT ![s] = edits + 2]
      /\ edits' = edits + 1 /\ servers[s].settings # 0
      /\ UNCHANGED <<importApi, importer, results, overlapped>>
    BY DEF UpdateServer, Present
<1>2. servers[s].job \in ImportJob /\ job \in ImportJob
    BY NormalizedJob DEF ImportTypeOK
<1>3. /\ servers'[s].job = job /\ servers'[s].settings = edits + 2 /\ edits \in Nat
      /\ \A t \in Servers \ {s} : servers'[t] = servers[t]
    BY <1>1 DEF ImportTypeOK
<1>4. ImportTypeOK'
    BY <1>1, <1>2 DEF ImportTypeOK
<1>5. OperatorHasLastWord'
    BY <1>1, <1>3 DEF OperatorHasLastWord, ImportTypeOK
<1>6. \A t : Single(t)' = Single(t)
    BY <1>1, <1>3 DEF Single
<1>7. \A t \in Servers \ overlapped : AddsUp(servers'[t].job, results'[t])
    BY <1>1, <1>2, <1>3, NormalizedKeeps
<1>8. ASSUME NEW r \in ImportRuns, Single(importer[r].server)
      PROVE  Reports(importApi, importer[r], servers'[importer[r].server].job,
                     results'[importer[r].server])
    BY <1>1, <1>2, <1>3, <1>8, NormalizedKeeps DEF Single
<1> QED BY <1>1, <1>3, <1>4, <1>5, <1>6, <1>7, <1>8

LEMMA DeleteServerStep ==
    ASSUME ImportInv, NEW s \in Servers, DeleteServer(s)
    PROVE  ImportInv'
<1> USE DEF ImportInv
<1>1. /\ servers' = [servers EXCEPT ![s] = [settings |-> 0, job |-> NoJob]]
      /\ ordered' = [ordered EXCEPT ![s] = 0]
      /\ UNCHANGED <<importApi, importer, edits, results, overlapped>>
    BY DEF DeleteServer, Gone0
<1>2. /\ servers'[s].job = NoJob /\ servers'[s].settings = 0
      /\ \A t \in Servers \ {s} : servers'[t] = servers[t]
    BY <1>1 DEF ImportTypeOK
<1>3. ImportTypeOK'
    BY <1>1, NoJobAddsUp DEF ImportTypeOK
<1>4. OperatorHasLastWord'
    BY <1>1, <1>2 DEF OperatorHasLastWord, ImportTypeOK
<1>5. \A t \in Servers \ overlapped : AddsUp(servers'[t].job, results'[t])
    BY <1>1, <1>2, NoJobAddsUp
<1>6. ASSUME NEW r \in ImportRuns, Single(importer[r].server)'
      PROVE  Reports(importApi, importer[r], servers'[importer[r].server].job,
                     results'[importer[r].server])
    BY <1>1, <1>2, <1>6 DEF Single
<1> QED BY <1>1, <1>2, <1>3, <1>4, <1>5, <1>6

LEMMA StartImportStep ==
    ASSUME ImportInv, NEW r \in ImportRuns, NEW s \in Servers, StartImport(r, s)
    PROVE  ImportInv'
<1> USE DEF ImportInv
<1> DEFINE i == [Idle EXCEPT !.pc = "read", !.server = s, !.left = Files,
                            !.update = "start", !.settings = servers[s].settings]
<1>1. /\ servers' = [servers EXCEPT ![s].job = NewJob]
      /\ importer' = [importer EXCEPT ![r] = i]
      /\ results' = [results EXCEPT ![s] = Files]
      /\ overlapped' = IF Alive(s) = {} THEN overlapped \ {s} ELSE overlapped \cup {s}
      /\ edits' = edits + 1 /\ importer[r] = Idle /\ servers[s].settings # 0
      /\ UNCHANGED <<importApi, ordered>>
    BY DEF StartImport, Present
<1>2. NewJob \in ImportJob /\ (\A n : AddsUp(NewJob, n))
    BY ImportAssumption DEF NewJob, NoJob, ImportJob, ImportStatuses, AddsUp
<1>3. /\ servers'[s].job = NewJob /\ servers'[s].settings = servers[s].settings
      /\ results'[s] = Files
      /\ \A t \in Servers \ {s} : servers'[t] = servers[t] /\ results'[t] = results[t]
      /\ servers[s].settings \in Nat
    BY <1>1 DEF ImportTypeOK
<1>4. i \in Importer /\ i.server = s /\ i.pc # "asking"
    BY <1>3, ImportAssumption
       DEF Idle, NoJob, Importer, ImportPlaces, ImportUpdates, ImportJob
<1>5. Reports(importApi, i, NewJob, Files)
    BY ImportAssumption DEF Reports, Counts, Idle, NewJob, NoJob, ImportStatuses
<1> HIDE DEF i
<1>6. ImportTypeOK'
    BY <1>1, <1>2, <1>4, ImportAssumption DEF ImportTypeOK
<1>7. OperatorHasLastWord'
    BY <1>1, <1>3 DEF OperatorHasLastWord
<1>8. \A t \in Servers \ overlapped' : AddsUp(servers'[t].job, results'[t])
    BY <1>1, <1>2, <1>3
<1>9. importer'[r] = i /\ \A q \in ImportRuns \ {r} : importer'[q] = importer[q]
    BY <1>1 DEF ImportTypeOK
<1>10. s \notin overlapped' => \A q \in ImportRuns \ {r} : importer[q].server # s
    BY <1>1 DEF Alive
<1>11. ASSUME NEW q \in ImportRuns, Single(importer[q].server)'
       PROVE  Reports(importApi, importer'[q], servers'[importer'[q].server].job,
                      results'[importer'[q].server])
    <2>1. CASE q = r
        BY <1>3, <1>4, <1>5, <1>9, <2>1
    <2>2. CASE q # r
        <3>1. importer[q].server \in Servers \ {s} /\ importer[q].server \notin overlapped
            BY <1>1, <1>9, <1>10, <1>11, <2>2 DEF Single
        <3> QED BY <1>3, <1>9, <1>11, <2>2, <3>1 DEF Single
    <2> QED BY <2>1, <2>2
<1>12. \A t \in Servers : servers'[t].settings = 0 => servers'[t].job = NoJob
    BY <1>1, <1>3
<1>13. ASSUME NEW q \in ImportRuns, NEW p \in ImportRuns, importer'[q].server \notin overlapped',
              importer'[q].server \in Servers, importer'[q].server = importer'[p].server
       PROVE  q = p
    <2>1. CASE importer'[q].server = s
        BY <1>9, <1>10, <1>13, <2>1
    <2>2. CASE importer'[q].server # s
        BY <1>1, <1>4, <1>9, <1>13, <2>2
    <2> QED BY <2>1, <2>2
<1>14. importApi = "cpa" => /\ \A t \in Servers : results'[t] = Files
                           /\ \A q \in ImportRuns : importer'[q].pc # "asking"
    BY <1>3, <1>4, <1>9
<1> QED BY <1>1, <1>6, <1>7, <1>8, <1>11, <1>12, <1>13, <1>14

LEMMA RestartImportsStep ==
    ASSUME ImportInv, RestartImports
    PROVE  ImportInv'
<1> USE DEF ImportInv
<1>1. /\ servers' = [s \in Servers |-> [servers[s] EXCEPT !.job = Normalized(@)]]
      /\ importer' = [r \in ImportRuns |-> Idle]
      /\ edits' = edits + 1
      /\ UNCHANGED <<importApi, results, ordered, overlapped>>
    BY DEF RestartImports
<1>2. \A s \in Servers : /\ servers'[s].settings = servers[s].settings
                          /\ servers'[s].job = Normalized(servers[s].job)
    BY <1>1 DEF ImportTypeOK
<1>3. \A s \in Servers : servers[s].job \in ImportJob /\ servers[s].settings \in Nat
    BY DEF ImportTypeOK
<1>4. ImportTypeOK'
    BY <1>1, <1>3, NormalizedJob, IdleImporter DEF ImportTypeOK
<1>5. OperatorHasLastWord'
    BY <1>1, <1>2 DEF OperatorHasLastWord
<1>6. \A r \in ImportRuns : importer'[r].server \notin Servers
    BY <1>1, ImportAssumption DEF Idle
<1>7. ASSUME NEW s \in Servers \ overlapped PROVE AddsUp(servers'[s].job, results'[s])
    <2>1. servers[s].job \in ImportJob /\ AddsUp(servers[s].job, results[s])
        BY <1>3
    <2>2. AddsUp(Normalized(servers[s].job), results[s])
        BY <2>1, NormalizedKeeps
    <2> QED BY <1>1, <1>2, <2>2
<1>8. ASSUME NEW s \in Servers, servers'[s].settings = 0 PROVE servers'[s].job = NoJob
    <2>1. servers[s].job \in ImportJob /\ servers[s].job = NoJob
        BY <1>2, <1>3, <1>8
    <2>2. Normalized(servers[s].job) = NoJob
        BY <2>1, NormalizedJob
    <2> QED BY <1>2, <2>2
<1>9. \A r \in ImportRuns : importer'[r].pc # "asking"
    BY <1>1, IdleImporter
<1> QED BY <1>1, <1>4, <1>5, <1>6, <1>7, <1>8, <1>9 DEF Single

LEMMA ImportInvariant == ImportSpec => []ImportInv
<1>1. ImportInit => ImportInv
    <2> SUFFICES ASSUME ImportInit PROVE ImportInv
        OBVIOUS
    <2>1. \A r \in ImportRuns : importer[r] = Idle /\ importer[r].server \notin Servers
        BY ImportAssumption DEF ImportInit, Idle
    <2>2. \A s \in Servers : servers[s].job = NoJob /\ servers[s].settings = 1
        BY DEF ImportInit
    <2>3. ImportTypeOK
        BY <2>1, NoJobAddsUp, IdleImporter, ImportAssumption DEF ImportInit, ImportTypeOK
    <2>4. OperatorHasLastWord
        BY <2>2 DEF ImportInit, OperatorHasLastWord
    <2>5. \A s \in Servers : results[s] = Files
        BY DEF ImportInit
    <2>6. \A r \in ImportRuns : importer[r].pc # "asking"
        BY <2>1, IdleImporter
    <2> QED BY <2>1, <2>2, <2>3, <2>4, <2>5, <2>6, NoJobAddsUp DEF ImportInv, Single
<1>2. ImportInv /\ [ImportNext]_importVars => ImportInv'
    <2> SUFFICES ASSUME ImportInv, [ImportNext]_importVars PROVE ImportInv'
        OBVIOUS
    <2>1. ASSUME NEW r \in ImportRuns, ImporterStep(r) PROVE ImportInv'
        BY <2>1, ReadJobStep, WriteJobStep, ExportStep, ExportRaisesStep,
           FetchFileStep, FetchedAllStep, AddTokensStep, AddRaisesStep DEF ImporterStep
    <2>2. ASSUME NEW s \in Servers, UpdateServer(s) \/ DeleteServer(s) PROVE ImportInv'
        BY <2>2, UpdateServerStep, DeleteServerStep
    <2>3. ASSUME NEW r \in ImportRuns, NEW s \in Servers, StartImport(r, s) PROVE ImportInv'
        BY <2>3, StartImportStep
    <2>4. CASE RestartImports
        BY <2>4, RestartImportsStep
    <2>5. CASE UNCHANGED importVars
        BY <2>5 DEF importVars, ImportInv, ImportTypeOK, OperatorHasLastWord, Single
    <2> QED BY <2>1, <2>2, <2>3, <2>4, <2>5 DEF ImportNext
<1> QED BY <1>1, <1>2, PTL DEF ImportSpec

\* However many imports run and overlap, a report never writes back settings the
\* operator has replaced, nor a server that was deleted (set_import_job of
\* cpa_service.py and sub2api_service.py).
THEOREM OperatorHasLastWordHolds == ImportSpec => []OperatorHasLastWord
<1>1. ImportInv => OperatorHasLastWord
    BY DEF ImportInv
<1> QED BY <1>1, ImportInvariant, PTL

\* For any number of files and servers, the job of an import that ran alone accounts
\* for every file when it is completed, whatever was saved, deleted or restarted in
\* the middle of its updates (the reads and writes of _update_job).
THEOREM CompletedAddsUpHolds == ImportSpec => []CompletedAddsUp
<1>1. ImportInv => CompletedAddsUp
    BY DEF ImportInv, CompletedAddsUp, AddsUp
<1> QED BY <1>1, ImportInvariant, PTL

-----------------------------------------------------------------------------
(* OAuth logins: one account for a login.                                  *)

LoginPlaces == {"idle", "refused", "exchanging", "granted"}

LoginTypeOK ==
    /\ logins \in Nat
    /\ sessions \subseteq 1 .. logins
    /\ finisher \in [Finishers -> [pc : LoginPlaces, code : Nat, whole : BOOLEAN,
                                   picked : Nat]]

\* A code is exchanged with the verifier of a session of its own, and granted only there.
PickedOwn ==
    \A f \in Finishers :
        /\ (finisher[f].pc = "exchanging" /\ finisher[f].whole)
               => finisher[f].picked = finisher[f].code
        /\ finisher[f].pc = "granted" => finisher[f].picked = finisher[f].code

\* A young session among the newest is there until its code is spent.
YoungKept ==
    \A s \in 1 .. logins :
        (s \notin expired /\ s + MaxSessions > logins) => s \in sessions \/ Spent(s)

LoginInv ==
    LoginTypeOK /\ PickedOwn /\ YoungKept /\ Cardinality(sessions) <= MaxSessions + 1

LEMMA LeastOfSet ==
    ASSUME NEW T \in SUBSET Nat, T # {}
    PROVE  \E x \in T : \A y \in T : x <= y
<1> DEFINE R == OpToRel(<, Nat)
<1>1. \A x, y \in Nat : y < x => <<y, x>> \in R
    BY DEF OpToRel
<1>2. IsWellFoundedOn(R, Nat)
    BY NatLessThanWellFounded
<1> HIDE DEF R
<1>3. PICK x \in T : \A y \in T : <<y, x>> \notin R
    BY <1>2, WFMin
<1>4. \A y \in T : ~(y < x)
    BY <1>1, <1>3
<1> QED BY <1>4

\* The numbers of S above x.
Above(S, x) == {t \in S : t > x}

LEMMA AboveFinite ==
    ASSUME NEW S, IsFiniteSet(S), NEW x
    PROVE  IsFiniteSet(Above(S, x)) /\ Cardinality(Above(S, x)) \in Nat
BY FS_Subset, FS_CardinalityType DEF Above

\* Of a finite set of numbers, at most n have fewer than n greater ones beside them.
LEMMA NewestFew ==
    ASSUME NEW S \in SUBSET Nat, IsFiniteSet(S), NEW n \in Nat, NEW T \in SUBSET S,
           \A x \in T : Cardinality(Above(S, x)) < n
    PROVE  IsFiniteSet(T) /\ Cardinality(T) <= n
<1>1. IsFiniteSet(T) /\ Cardinality(T) \in Nat
    BY FS_Subset, FS_CardinalityType
<1>2. CASE T = {}
    <2>1. Cardinality(T) = 0
        BY <1>2, FS_EmptySet
    <2> QED BY <1>1, <2>1
<1>3. CASE T # {}
    <2>0. T \in SUBSET Nat
        OBVIOUS
    <2>1. PICK x \in T : \A y \in T : x <= y
        BY <1>3, <2>0, LeastOfSet
    <2>2. T \ {x} \in SUBSET Above(S, x)
        <3>1. \A y \in T : y \in Nat /\ y \in S
            OBVIOUS
        <3>2. \A y \in T : y # x => y > x
            BY <2>1, <3>1
        <3> QED BY <3>1, <3>2 DEF Above
    <2>3. IsFiniteSet(Above(S, x)) /\ Cardinality(Above(S, x)) \in Nat
        BY AboveFinite
    <2>4. Cardinality(T \ {x}) <= Cardinality(Above(S, x))
        BY <2>2, <2>3, FS_Subset
    <2>5. Cardinality(T \ {x}) = Cardinality(T) - 1
        BY <1>1, <2>1, FS_RemoveElement
    <2>6. Cardinality(Above(S, x)) < n
        BY <2>1
    <2> QED BY <1>1, <2>3, <2>4, <2>5, <2>6
<1> QED BY <1>2, <1>3

\* What a purge leaves: few enough, and every young session among the newest.
LEMMA PurgedKeeps ==
    ASSUME LoginInv
    PROVE  /\ Purged \subseteq sessions
           /\ IsFiniteSet(Purged) /\ Cardinality(Purged) <= MaxSessions
           /\ \A s \in sessions : (s \notin expired /\ s + MaxSessions > logins) => s \in Purged
<1> DEFINE kept == sessions \ expired
<1>0. /\ kept \subseteq 1 .. logins /\ kept \subseteq sessions
      /\ logins \in Nat /\ MaxSessions \in Nat
    BY OAuthAssumption DEF LoginInv, LoginTypeOK
<1>1. Purged = {s \in kept : Cardinality(Above(kept, s)) < MaxSessions}
    BY DEF Purged, Above
<1> HIDE DEF kept
<1>2. IsFiniteSet(kept) /\ kept \in SUBSET Nat
    <2>1. 1 \in Int /\ logins \in Int /\ kept \in SUBSET (1 .. logins)
        BY <1>0
    <2>2. IsFiniteSet(1 .. logins)
        BY <2>1, FS_Interval
    <2>3. IsFiniteSet(kept)
        BY <2>1, <2>2, FS_Subset
    <2> QED BY <1>0, <2>3
<1>3. Purged \in SUBSET kept /\ \A x \in Purged : Cardinality(Above(kept, x)) < MaxSessions
    BY <1>1
<1>4. IsFiniteSet(Purged) /\ Cardinality(Purged) <= MaxSessions
    BY <1>0, <1>2, <1>3, NewestFew
<1>5. ASSUME NEW s \in kept, s + MaxSessions > logins PROVE s \in Purged
    <2>1. s \in Nat /\ s + 1 \in Int /\ logins \in Int
        BY <1>0, <1>2
    <2>2. Above(kept, s) \in SUBSET (s + 1 .. logins)
        <3>1. \A t \in kept : t \in Nat /\ t <= logins
            BY <1>0
        <3>2. \A t \in Above(kept, s) : t \in Nat /\ t <= logins /\ t > s
            BY <3>1 DEF Above
        <3> QED BY <2>1, <3>2
    <2>3. /\ IsFiniteSet(s + 1 .. logins)
          /\ Cardinality(s + 1 .. logins) = IF s + 1 > logins THEN 0 ELSE logins - (s + 1) + 1
        BY <2>1, FS_Interval
    <2>4. /\ Cardinality(Above(kept, s)) <= Cardinality(s + 1 .. logins)
          /\ Cardinality(Above(kept, s)) \in Nat
        BY <1>2, <2>2, <2>3, FS_Subset, AboveFinite
    <2>5. Cardinality(Above(kept, s)) < MaxSessions
        BY <1>0, <1>5, <2>1, <2>3, <2>4, OAuthAssumption
    <2> QED BY <1>1, <2>5
<1>6. \A s \in sessions : s \notin expired => s \in kept
    BY DEF kept
<1> QED BY <1>0, <1>3, <1>4, <1>5, <1>6

LEMMA StartLoginStep ==
    ASSUME LoginInv, StartLogin
    PROVE  LoginInv'
<1> USE DEF LoginInv
<1>1. /\ logins' = logins + 1 /\ sessions' = Purged \cup {logins + 1}
      /\ UNCHANGED <<expired, finisher>> /\ logins \in Nat /\ MaxSessions \in Nat
    BY OAuthAssumption DEF StartLogin, LoginTypeOK
<1>2. LoginTypeOK'
    <2>1. sessions \subseteq 1 .. logins /\ Purged \subseteq sessions
        BY PurgedKeeps DEF LoginTypeOK
    <2>2. Purged \cup {logins + 1} \subseteq 1 .. logins + 1
        BY <1>1, <2>1
    <2> QED BY <1>1, <2>2 DEF LoginTypeOK
<1>3. \A s : Spent(s)' = Spent(s)
    BY <1>1 DEF Spent
<1>4. YoungKept'
    <2> SUFFICES ASSUME NEW s \in 1 .. logins + 1, s \notin expired,
                        s + MaxSessions > logins + 1
                 PROVE  s \in Purged \cup {logins + 1} \/ Spent(s)
        BY <1>1, <1>3 DEF YoungKept
    <2>1. CASE s = logins + 1
        BY <2>1
    <2>2. CASE s \in 1 .. logins
        <3>1. s + MaxSessions > logins
            BY <1>1, <2>2
        <3> QED BY <2>2, <3>1, PurgedKeeps DEF YoungKept
    <2> QED BY <1>1, <2>1, <2>2
<1>5. Cardinality(sessions') <= MaxSessions + 1
    <2>1. logins + 1 \notin Purged
        BY <1>1, PurgedKeeps DEF LoginTypeOK
    <2>2. Cardinality(sessions') = Cardinality(Purged) + 1 /\ Cardinality(Purged) \in Nat
        BY <1>1, <2>1, PurgedKeeps, FS_AddElement, FS_CardinalityType
    <2> QED BY <1>1, <2>2, PurgedKeeps
<1>6. PickedOwn'
    BY <1>1 DEF PickedOwn
<1> QED BY <1>1, <1>2, <1>4, <1>5, <1>6

LEMMA FinishStep ==
    ASSUME LoginInv, NEW f \in Finishers, Finish(f)
    PROVE  LoginInv'
<1> USE DEF LoginInv
<1>1. PICK code \in 1 .. logins, whole \in BOOLEAN, body \in 0 .. logins :
          finisher' = [finisher EXCEPT ![f] =
             [pc |-> IF Pick(code, whole, body) = NoSession
                        \/ ~StateMatches(code, whole, Pick(code, whole, body))
                     THEN "refused" ELSE "exchanging",
              code |-> code, whole |-> whole, picked |-> Pick(code, whole, body)]]
    BY DEF Finish
<1> DEFINE picked == Pick(code, whole, body)
<1>2. /\ finisher[f].pc = "idle" /\ finisher[f].code = 0 /\ sessions' = Purged
      /\ UNCHANGED <<logins, expired>> /\ logins \in Nat
    BY DEF Finish, NoSession, LoginTypeOK
<1>3. picked \in Nat /\ code \in Nat
    BY <1>2 DEF Pick, NoSession
<1>4. PICK l \in {"refused", "exchanging"} :
          /\ finisher' = [finisher EXCEPT ![f] = [pc |-> l, code |-> code, whole |-> whole,
                                                  picked |-> picked]]
          /\ (l = "exchanging" /\ whole) => picked = code
    BY <1>1 DEF StateMatches
<1> HIDE DEF picked
<1>5. LoginTypeOK'
    BY <1>2, <1>3, <1>4, PurgedKeeps DEF LoginTypeOK, LoginPlaces
<1>6. PickedOwn'
    BY <1>4 DEF PickedOwn, LoginTypeOK
<1>7. \A s : Spent(s) => Spent(s)'
    BY <1>2, <1>4 DEF Spent, LoginTypeOK
<1>8. YoungKept'
    BY <1>2, <1>7, PurgedKeeps DEF YoungKept
<1>9. Cardinality(sessions') <= MaxSessions + 1
    BY <1>2, PurgedKeeps, FS_CardinalityType, OAuthAssumption
<1> QED BY <1>5, <1>6, <1>8, <1>9

\* A request moves on, and with it only what it has been granted.
LEMMA FinisherStep ==
    ASSUME LoginInv, NEW f \in Finishers,
           Granted(f) \/ NotGranted(f) \/ Refused(f)
    PROVE  LoginInv'
<1> USE DEF LoginInv
<1>1. /\ UNCHANGED <<logins, sessions, expired>> /\ finisher[f].pc # "granted"
      /\ \/ finisher' = [finisher EXCEPT ![f] = Waiting]
         \/ /\ finisher' = [finisher EXCEPT ![f].pc = "granted"]
            /\ finisher[f].picked = finisher[f].code
    BY DEF Granted, NotGranted, Refused
<1>2. LoginTypeOK'
    <2>1. finisher' \in [Finishers -> [pc : LoginPlaces, code : Nat,
                                        whole : BOOLEAN, picked : Nat]]
        <3>1. CASE finisher' = [finisher EXCEPT ![f] = Waiting]
            <4>1. Waiting \in [pc : LoginPlaces, code : Nat, whole : BOOLEAN, picked : Nat]
                BY DEF LoginPlaces, Waiting, NoSession
            <4> QED BY <3>1, <4>1 DEF LoginTypeOK
        <3>2. CASE finisher' = [finisher EXCEPT ![f].pc = "granted"]
            BY <3>2 DEF LoginTypeOK, LoginPlaces
        <3> QED BY <1>1, <3>1, <3>2
    <2> QED BY <1>1, <2>1 DEF LoginTypeOK
<1>3. PickedOwn'
    BY <1>1 DEF PickedOwn, LoginTypeOK, Waiting
<1>4. \A s : Spent(s) => Spent(s)'
    BY <1>1 DEF Spent, LoginTypeOK
<1>5. YoungKept'
    BY <1>1, <1>4 DEF YoungKept
<1> QED BY <1>1, <1>2, <1>3, <1>5

LEMMA ConsumeStep ==
    ASSUME LoginInv, NEW f \in Finishers, Consume(f)
    PROVE  LoginInv'
<1> USE DEF LoginInv
<1>1. /\ sessions' = sessions \ {finisher[f].picked} /\ Spent(finisher[f].picked)
      /\ UNCHANGED <<logins, expired, finisher>>
    BY DEF Consume, Spent, PickedOwn
<1>2. \A s : Spent(s)' = Spent(s)
    BY <1>1 DEF Spent
<1>3. YoungKept'
    BY <1>1, <1>2 DEF YoungKept
<1>4. IsFiniteSet(sessions)
    <2>1. 1 \in Int /\ logins \in Int /\ sessions \in SUBSET (1 .. logins)
        BY DEF LoginTypeOK
    <2>2. IsFiniteSet(1 .. logins)
        BY <2>1, FS_Interval
    <2> QED BY <2>1, <2>2, FS_Subset
<1>5. Cardinality(sessions') <= MaxSessions + 1
    <2>1. sessions' \in SUBSET sessions
        BY <1>1
    <2>2. /\ Cardinality(sessions') <= Cardinality(sessions)
          /\ Cardinality(sessions') \in Nat /\ Cardinality(sessions) \in Nat
        BY <1>4, <2>1, FS_Subset, FS_CardinalityType
    <2> QED BY <2>2, OAuthAssumption
<1> QED BY <1>1, <1>3, <1>5 DEF LoginTypeOK, PickedOwn

\* For any number of logins, sessions and requests: the code of a pasted URL goes to
\* the provider with the verifier of the login it came from, no purge or failed attempt
\* takes away a login that can still be finished, and the sessions stay few
\* (_purge_expired_locked, finish and consume of oauth_login_service.py).
THEOREM LoginsApartHolds == OAuthSpec => []LoginsApart
<1>1. OAuthInit => LoginInv
    <2> SUFFICES ASSUME OAuthInit PROVE LoginInv
        OBVIOUS
    <2>1. LoginTypeOK /\ PickedOwn
        BY DEF OAuthInit, LoginTypeOK, LoginPlaces, PickedOwn, Waiting, NoSession
    <2>2. YoungKept
        BY DEF OAuthInit, YoungKept
    <2>3. Cardinality(sessions) = 0
        BY FS_EmptySet DEF OAuthInit
    <2> QED BY <2>1, <2>2, <2>3, OAuthAssumption DEF LoginInv
<1>2. LoginInv /\ [OAuthNext]_oauthVars => LoginInv'
    <2> SUFFICES ASSUME LoginInv, [OAuthNext]_oauthVars PROVE LoginInv'
        OBVIOUS
    <2>1. ASSUME NEW s, SessionAges(s) PROVE LoginInv'
        BY <2>1 DEF SessionAges, LoginInv, LoginTypeOK, PickedOwn, YoungKept, Spent
    <2>2. CASE UNCHANGED oauthVars
        BY <2>2 DEF oauthVars, LoginInv, LoginTypeOK, PickedOwn, YoungKept, Spent
    <2> QED BY <2>1, <2>2, StartLoginStep, FinishStep, FinisherStep, ConsumeStep DEF OAuthNext
<1>3. LoginInv => LoginsApart
    BY DEF LoginInv, LoginsApart, PickedOwn, YoungKept
<1> QED BY <1>1, <1>2, <1>3, PTL DEF OAuthSpec

-----------------------------------------------------------------------------
(* Mailboxes: a worker enters a code of its own.                           *)

\* Max returns a member of a set of numbers that is not empty and has a bound.
LEMMA MaxIsMember ==
    ASSUME NEW n \in Nat, NEW T \in SUBSET (1 .. n), T # {}
    PROVE  Max(T) \in T
<1> DEFINE U == {n - x : x \in T}
<1>1. U \in SUBSET Nat /\ U # {}
    <2>1. \A x \in T : n - x \in Nat
        OBVIOUS
    <2>2. \E x \in T : n - x \in U
        OBVIOUS
    <2> QED BY <2>1, <2>2
<1>2. PICK u \in U : \A v \in U : u <= v
    BY <1>1, LeastOfSet
<1>3. PICK x \in T : u = n - x
    OBVIOUS
<1>4. ASSUME NEW y \in T PROVE x >= y
    <2>1. n - x <= n - y /\ x \in 1 .. n /\ y \in 1 .. n
        BY <1>2, <1>3
    <2> QED BY <2>1
<1> QED BY <1>4 DEF Max

LEMMA MembersOfSeq ==
    ASSUME NEW S, NEW q \in Seq(S)
    PROVE  \A i \in DOMAIN q : q[i] \in S
OBVIOUS

Homes   == Signups \cup Aliases \cup {OutlookBox}
SignupPlaces == {"drawing", "creating", "noting", "waiting", "done", "failed"}
SignupRecords == [pc : SignupPlaces, draws : Nat, tried : SUBSET Nat, kind : Kinds,
                  address : Homes \cup {NoAddress}]
Settled(s) == signup[s].address # NoAddress
Exclusive  == {"scan", "fixed"}

MailTypeOK ==
    /\ entries \in Seq(Kinds) /\ turn \in 0 .. Len(entries) - 1
    /\ signup \in [Signups -> SignupRecords]
    /\ since \in [Signups -> Nat] /\ got \in [Signups -> Nat]
    /\ mails \in Seq([to : Homes, code : BOOLEAN, dated : BOOLEAN, named : BOOLEAN])

\* An address comes with the mailbox, and is of its kind; only a code ends the wait well.
AddressOfKind(s) ==
    /\ signup[s].pc \in {"drawing", "creating"} => ~Settled(s)
    /\ signup[s].pc \in {"noting", "waiting", "done"} => Settled(s)
    /\ signup[s].pc = "noting" => signup[s].kind = "shared"
    /\ Settled(s) =>
           CASE signup[s].kind = "scan"   -> signup[s].address = OutlookBox
             [] signup[s].kind = "shared" -> signup[s].address \in Aliases
             [] OTHER                     -> signup[s].address = s
    /\ got[s] # 0 => signup[s].pc = "done"

\* The mail whose code is returned is new, if it has a date, and of the kind's inbox.
GotOwn(s) ==
    got[s] # 0 =>
        /\ got[s] \in DOMAIN mails
        /\ mails[got[s]].dated => got[s] > since[s]
        /\ (signup[s].kind # "fixed" /\ mails[got[s]].named) => mails[got[s]].to = signup[s].address
        /\ signup[s].kind = "fixed" =>
               \E u \in Signups :
                   signup[u].kind = "fixed" /\ Settled(u) /\ mails[got[s]].to = u

\* Who waits at a mailbox that is lent has it alone, and wants a mail that is newer than
\* those that were taken from there before, unless it has no date.
Alone(s, t) ==
    (signup[s].kind = signup[t].kind /\ signup[s].kind \in Exclusive) =>
        /\ ~(signup[s].pc = "waiting" /\ signup[t].pc = "waiting")
        /\ (signup[s].pc = "waiting" /\ got[t] # 0) => got[t] <= since[s]
        /\ (got[s] # 0 /\ got[t] = got[s]) => ~mails[got[s]].dated

EachOwn    == \A s \in Signups : AddressOfKind(s) /\ GotOwn(s)
EachAlone  == \A s, t \in Signups : s # t => Alone(s, t)
MailInv    == MailTypeOK /\ EachOwn /\ EachAlone

LEMMA MailInitInv == MailInit => MailInv
<1> SUFFICES ASSUME MailInit PROVE MailInv
    OBVIOUS
<1>1. \A s \in Signups : /\ signup[s].pc = "drawing" /\ signup[s].address = NoAddress
                         /\ got[s] = 0
    BY DEF MailInit
<1>2. [pc |-> "drawing", draws |-> 0, tried |-> {}, kind |-> "own", address |-> NoAddress]
          \in SignupRecords
    BY DEF SignupRecords, SignupPlaces, Kinds
<1>3. MailTypeOK
    BY <1>2, MailAssumption DEF MailInit, MailTypeOK
<1>4. EachOwn
    BY <1>1 DEF EachOwn, AddressOfKind, GotOwn, Settled
<1>5. EachAlone
    BY <1>1 DEF EachAlone, Alone
<1> QED BY <1>3, <1>4, <1>5 DEF MailInv

\* A registration that has no address yet, or loses its chance, goes on: its record alone
\* changes, and it neither waits nor settles.
Drifts(s, r) ==
    /\ r \in SignupRecords
    /\ signup' = [signup EXCEPT ![s] = r]
    /\ \/ /\ r.pc \in {"drawing", "creating"} /\ r.address = NoAddress
          /\ signup[s].pc \in {"drawing", "creating"}
       \/ /\ r.pc = "failed" /\ r.kind = signup[s].kind /\ r.address = signup[s].address
          /\ signup[s].pc \in {"drawing", "creating", "noting", "waiting"}
       \/ /\ r.pc = "noting" /\ signup[s].pc = "creating" /\ r.kind = signup[s].kind
          /\ r.kind = "shared" /\ r.address \in Aliases

LEMMA DriftStep ==
    ASSUME MailInv, NEW s \in Signups, NEW r, Drifts(s, r), UNCHANGED <<since, got, mails>>
    PROVE  signup' \in [Signups -> SignupRecords] /\ EachOwn' /\ EachAlone'
<1> USE DEF MailInv, MailTypeOK
<1>1. /\ signup' \in [Signups -> SignupRecords]
      /\ signup'[s] = r /\ \A t \in Signups : t # s => signup'[t] = signup[t]
    BY DEF Drifts
<1>2. got[s] = 0 /\ signup'[s].pc # "waiting"
    BY <1>1 DEF EachOwn, AddressOfKind, Drifts
<1>3. AddressOfKind(s)'
    <2>1. AddressOfKind(s)
        BY DEF EachOwn
    <2>2. r.address = NoAddress \/ r.address \in Aliases \/ r.address = signup[s].address
        BY DEF Drifts
    <2> QED BY <1>1, <1>2, <2>1, <2>2, MailAssumption DEF AddressOfKind, Settled, Drifts
<1>4. \A t \in Signups : t # s => AddressOfKind(t)'
    BY <1>1 DEF EachOwn, AddressOfKind, Settled
<1>5. \A u \in Signups : (signup[u].kind = "fixed" /\ Settled(u)) =>
                              (signup'[u].kind = "fixed" /\ Settled(u)')
    BY <1>1 DEF Drifts, EachOwn, AddressOfKind, Settled
<1>6. GotOwn(s)'
    BY <1>2 DEF GotOwn
<1>7. ASSUME NEW t \in Signups, t # s PROVE GotOwn(t)'
    <2>1. GotOwn(t) /\ signup'[t] = signup[t]
        BY <1>1, <1>7 DEF EachOwn
    <2> QED BY <1>5, <2>1 DEF GotOwn
<1>8. EachAlone'
    <2> SUFFICES ASSUME NEW t \in Signups, NEW u \in Signups, t # u
                 PROVE  Alone(t, u)'
        BY DEF EachAlone
    <2>1. Alone(t, u)
        BY DEF EachAlone
    <2>2. CASE t = s
        BY <1>1, <1>2, <2>2 DEF Alone
    <2>3. CASE u = s
        BY <1>1, <1>2, <2>3 DEF Alone
    <2>4. CASE t # s /\ u # s
        BY <1>1, <2>1, <2>4 DEF Alone
    <2> QED BY <2>2, <2>3, <2>4
<1> QED BY <1>1, <1>3, <1>4, <1>6, <1>7, <1>8 DEF EachOwn

LEMMA DrawsAndFailures ==
    ASSUME MailInv, NEW s \in Signups,
           \/ Draw(s) \/ DrawnAll(s) \/ AskAlias(s) \/ NoteAliasFails(s)
           \/ CreateFails(s) \/ GivesUp(s)
    PROVE  MailInv'
<1> USE DEF MailInv, MailTypeOK
<1>0. /\ signup[s] \in SignupRecords /\ AddressOfKind(s)
      /\ signup[s].pc \in {"drawing", "creating"} => signup[s].address = NoAddress
    BY DEF EachOwn, AddressOfKind, Settled
<1>1. /\ UNCHANGED <<entries, since, got, mails>>
      /\ turn' = turn \/ turn' = (turn + 1) % Len(entries)
    BY DEF Draw, DrawnAll, AskAlias, NoteAliasFails, CreateFails, GivesUp
<1>2. turn' \in 0 .. Len(entries) - 1
    <2>1. Len(entries) \in Nat \ {0} /\ turn + 1 \in Nat
        OBVIOUS
    <2> QED BY <1>1, <2>1
<1>3. \E r : Drifts(s, r)
    <2>1. CASE DrawnAll(s) \/ NoteAliasFails(s) \/ CreateFails(s) \/ GivesUp(s)
        <3> DEFINE r == [signup[s] EXCEPT !.pc = "failed"]
        <3>1. r \in SignupRecords /\ r.pc = "failed" /\ r.kind = signup[s].kind
                  /\ r.address = signup[s].address
            BY <1>0 DEF SignupRecords, SignupPlaces
        <3>2. signup' = [signup EXCEPT ![s] = r]
            BY <2>1 DEF DrawnAll, NoteAliasFails, CreateFails, GivesUp, Goes
        <3>3. signup[s].pc \in {"drawing", "creating", "noting", "waiting"}
            BY <2>1 DEF DrawnAll, NoteAliasFails, CreateFails, GivesUp
        <3> HIDE DEF r
        <3> QED BY <3>1, <3>2, <3>3 DEF Drifts
    <2>2. CASE Draw(s)
        <3> DEFINE n == turn + 1
        <3> DEFINE r == [signup[s] EXCEPT
                            !.draws = @ + 1, !.tried = @ \cup {n},
                            !.kind = IF n \in signup[s].tried THEN @ ELSE entries[n],
                            !.pc = IF n \in signup[s].tried THEN @ ELSE "creating"]
        <3>1. signup' = [signup EXCEPT ![s] = r] /\ signup[s].pc = "drawing"
            BY <2>2 DEF Draw
        <3>2. n \in 1 .. Len(entries) /\ n \in Nat
            OBVIOUS
        <3>3. entries[n] \in Kinds
            BY <3>2
        <3>4. r \in SignupRecords
            <4>1. signup[s].draws + 1 \in Nat /\ signup[s].tried \cup {n} \in SUBSET Nat
                BY <1>0, <3>2 DEF SignupRecords
            <4>2. CASE n \in signup[s].tried
                <5>1. r = [signup[s] EXCEPT !.draws = @ + 1, !.tried = @ \cup {n}]
                    BY <1>0, <4>2 DEF SignupRecords
                <5> HIDE DEF r
                <5> QED BY <1>0, <4>1, <5>1 DEF SignupRecords
            <4>3. CASE n \notin signup[s].tried
                <5>1. r = [signup[s] EXCEPT !.draws = @ + 1, !.tried = @ \cup {n},
                                            !.kind = entries[n], !.pc = "creating"]
                    BY <1>0, <4>3 DEF SignupRecords
                <5> HIDE DEF r
                <5> QED BY <1>0, <3>3, <4>1, <5>1 DEF SignupRecords, SignupPlaces
            <4> QED BY <4>2, <4>3
        <3>5. r.pc \in {"drawing", "creating"} /\ r.address = NoAddress
            BY <1>0, <3>1 DEF SignupRecords
        <3> HIDE DEF r
        <3> QED BY <3>1, <3>4, <3>5 DEF Drifts
    <2>3. CASE AskAlias(s)
        <3>1. PICK a \in Aliases :
                  signup' = IF a \in aliasFile THEN [signup EXCEPT ![s].pc = "drawing"]
                            ELSE [signup EXCEPT ![s].pc = "noting", ![s].address = a]
            BY ONLY <2>3 DEF AskAlias
        <3>2. signup[s].pc = "creating" /\ signup[s].kind = "shared"
            BY ONLY <2>3 DEF AskAlias
        <3>3. CASE a \in aliasFile
            <4> DEFINE r == [signup[s] EXCEPT !.pc = "drawing"]
            <4>1. signup' = [signup EXCEPT ![s] = r]
                BY <3>1, <3>3
            <4>2. r \in SignupRecords /\ r.pc = "drawing" /\ r.address = NoAddress
                BY <1>0, <3>2 DEF SignupRecords, SignupPlaces
            <4> HIDE DEF r
            <4> QED BY <3>2, <4>1, <4>2 DEF Drifts
        <3>4. CASE a \notin aliasFile
            <4> DEFINE r == [signup[s] EXCEPT !.pc = "noting", !.address = a]
            <4>1. signup' = [signup EXCEPT ![s] = r]
                BY <3>1, <3>4
            <4>2. r \in SignupRecords /\ r.pc = "noting" /\ r.address = a /\ r.kind = signup[s].kind
                BY <1>0 DEF SignupRecords, SignupPlaces, Homes
            <4> HIDE DEF r
            <4> QED BY <3>2, <4>1, <4>2 DEF Drifts
        <3> QED BY <3>3, <3>4
    <2> QED BY <2>1, <2>2, <2>3
<1>4. signup' \in [Signups -> SignupRecords] /\ EachOwn' /\ EachAlone'
    BY <1>1, <1>3, DriftStep
<1> QED BY <1>1, <1>2, <1>4

\* A mailbox is there, and the wait begins.
LEMMA CreatedStep ==
    ASSUME MailInv, NEW s \in Signups, Create(s) \/ NoteAlias(s)
    PROVE  MailInv'
<1> USE DEF MailInv, MailTypeOK
<1> DEFINE a == IF NoteAlias(s) THEN signup[s].address
                ELSE IF signup[s].kind = "scan" THEN OutlookBox ELSE s
<1>1. /\ UNCHANGED <<entries, turn, got, mails>>
      /\ signup' = [signup EXCEPT ![s].pc = "waiting", ![s].address = a]
      /\ since' = [since EXCEPT ![s] = Len(mails)]
    BY DEF Create, NoteAlias, Created
<1>2. /\ signup[s] \in SignupRecords /\ AddressOfKind(s) /\ got[s] = 0
      /\ signup[s].pc \in {"creating", "noting"}
    BY DEF EachOwn, AddressOfKind, Create, NoteAlias
<1>3. /\ a \in Homes
      /\ CASE signup[s].kind = "scan"   -> a = OutlookBox
           [] signup[s].kind = "shared" -> a \in Aliases
           [] OTHER                     -> a = s
    <2>1. CASE NoteAlias(s)
        <3>1. signup[s].pc = "noting" /\ Settled(s) /\ a = signup[s].address
            BY <1>2, <2>1 DEF NoteAlias, AddressOfKind
        <3>2. a \in Homes
            BY <1>2, <3>1 DEF SignupRecords, Settled
        <3> HIDE DEF a
        <3> QED BY <1>2, <3>1, <3>2 DEF AddressOfKind
    <2>2. CASE ~NoteAlias(s)
        <3>1. Create(s)
            BY <2>2
        <3> QED BY <2>2, <3>1 DEF Create, Homes
    <2> QED BY <2>1, <2>2
<1> HIDE DEF a
<1>4. /\ signup' \in [Signups -> SignupRecords]
      /\ signup'[s].pc = "waiting" /\ signup'[s].address = a /\ signup'[s].kind = signup[s].kind
      /\ \A t \in Signups : t # s => signup'[t] = signup[t] /\ since'[t] = since[t]
      /\ since'[s] = Len(mails) /\ since' \in [Signups -> Nat]
    <2>1. Len(mails) \in Nat
        OBVIOUS
    <2>2. since'[s] = Len(mails) /\ since' \in [Signups -> Nat]
              /\ \A t \in Signups : t # s => since'[t] = since[t]
        BY <1>1, <2>1
    <2> DEFINE r == [signup[s] EXCEPT !.pc = "waiting", !.address = a]
    <2>3. signup' = [signup EXCEPT ![s] = r]
        BY <1>1
    <2>4. r \in SignupRecords /\ r.pc = "waiting" /\ r.address = a /\ r.kind = signup[s].kind
        BY <1>2, <1>3 DEF SignupRecords, SignupPlaces
    <2> HIDE DEF r
    <2> QED BY <2>2, <2>3, <2>4
<1>5. a # NoAddress
    BY <1>3, MailAssumption DEF Homes
<1>6. AddressOfKind(s)' /\ GotOwn(s)'
    BY <1>1, <1>2, <1>3, <1>4, <1>5 DEF AddressOfKind, GotOwn, Settled
<1>7. \A u \in Signups : (signup[u].kind = "fixed" /\ Settled(u)) =>
                              (signup'[u].kind = "fixed" /\ Settled(u)')
    BY <1>4, <1>5 DEF Settled
<1>8. ASSUME NEW t \in Signups, t # s PROVE AddressOfKind(t)' /\ GotOwn(t)'
    <2>1. /\ AddressOfKind(t) /\ GotOwn(t) /\ signup'[t] = signup[t] /\ since'[t] = since[t]
          /\ got' = got /\ mails' = mails
        BY <1>1, <1>4, <1>8 DEF EachOwn
    <2>2. AddressOfKind(t)'
        BY <2>1 DEF AddressOfKind, Settled
    <2> QED BY <1>7, <2>1, <2>2 DEF GotOwn
<1>9. \A t \in Signups : got[t] <= Len(mails)
    <2>1. DOMAIN mails = 1 .. Len(mails) /\ Len(mails) \in Nat
        OBVIOUS
    <2>2. ASSUME NEW t \in Signups PROVE got[t] = 0 \/ got[t] \in 1 .. Len(mails)
        BY <2>1 DEF EachOwn, GotOwn
    <2> QED BY <2>1, <2>2
<1>10. signup[s].kind \in Exclusive => \A t \in Signups : t # s =>
           ~(signup[t].kind = signup[s].kind /\ signup[t].pc = "waiting")
    <2>1. CASE Create(s)
        BY <2>1 DEF Create, InUse, Exclusive
    <2>2. CASE NoteAlias(s)
        <3>1. signup[s].pc = "noting"
            BY <2>2 DEF NoteAlias
        <3>2. signup[s].kind \notin Exclusive
            BY <1>2, <3>1 DEF AddressOfKind, Exclusive
        <3> QED BY <3>2
    <2> QED BY <2>1, <2>2
<1>11. EachAlone'
    <2> SUFFICES ASSUME NEW t \in Signups, NEW u \in Signups, t # u
                 PROVE  Alone(t, u)'
        BY DEF EachAlone
    <2>1. Alone(t, u)
        BY DEF EachAlone
    <2>2. CASE t = s
        BY <1>1, <1>2, <1>4, <1>9, <1>10, <2>2 DEF Alone
    <2>3. CASE u = s
        BY <1>1, <1>2, <1>4, <1>10, <2>3 DEF Alone
    <2>4. CASE t # s /\ u # s
        BY <1>1, <1>4, <2>1, <2>4 DEF Alone
    <2> QED BY <2>2, <2>3, <2>4
<1> QED BY <1>1, <1>4, <1>6, <1>8, <1>11 DEF EachOwn

\* What a registration finds is a mail of its inbox that came after it began to wait, if
\* it has a date.
LEMMA FoundIsFresh ==
    ASSUME MailInv, NEW s \in Signups, NEW w \in Windows(s), FreshCodes(s, w) # {}
    PROVE  /\ Max(FreshCodes(s, w)) \in DOMAIN mails
           /\ mails[Max(FreshCodes(s, w))].dated => Max(FreshCodes(s, w)) > since[s]
           /\ Max(FreshCodes(s, w)) \in Inbox(s)
<1> USE DEF MailInv, MailTypeOK
<1>0. w \subseteq Inbox(s)
    <2>1. \A b, n : Newest(b, n) \subseteq b
        BY DEF Newest
    <2>2. \E b, n : w = Newest(b, n) /\ b \subseteq Inbox(s)
        <3>1. CASE signup[s].kind = "scan"
            BY <3>1 DEF Windows
        <3>2. CASE signup[s].kind # "scan"
            BY <3>2 DEF Windows
        <3> QED BY <3>1, <3>2
    <2> QED BY <2>1, <2>2
<1>1. /\ FreshCodes(s, w) \subseteq Inbox(s)
      /\ \A i \in FreshCodes(s, w) : mails[i].dated => i > since[s]
    BY <1>0 DEF FreshCodes
<1>2. Inbox(s) \subseteq DOMAIN mails
    BY DEF Inbox, OwnInbox, FixedInbox, SharedInbox
<1>3. FreshCodes(s, w) \in SUBSET (1 .. Len(mails)) /\ Len(mails) \in Nat
    BY <1>1, <1>2
<1>4. Max(FreshCodes(s, w)) \in FreshCodes(s, w)
    BY <1>3, MaxIsMember
<1> QED BY <1>1, <1>2, <1>4

LEMMA PollStep ==
    ASSUME MailInv, NEW s \in Signups, Poll(s)
    PROVE  MailInv'
<1> USE DEF MailInv, MailTypeOK
<1>0. PICK w \in Windows(s) :
          IF FreshCodes(s, w) = {}
          THEN UNCHANGED <<got, signup>>
          ELSE got' = [got EXCEPT ![s] = Max(FreshCodes(s, w))] /\ Goes(s, "done")
    BY DEF Poll
<1>1. CASE FreshCodes(s, w) = {}
    <2>1. UNCHANGED mailVars
        BY <1>0, <1>1 DEF Poll, mailVars
    <2> QED BY <2>1 DEF mailVars, EachOwn, EachAlone, AddressOfKind, GotOwn, Alone, Settled
<1>2. CASE FreshCodes(s, w) # {}
    <2> DEFINE m == Max(FreshCodes(s, w))
    <2>1. /\ UNCHANGED <<entries, turn, since, mails>>
          /\ got' = [got EXCEPT ![s] = m]
          /\ signup' = [signup EXCEPT ![s].pc = "done"] /\ signup[s].pc = "waiting"
        BY <1>0, <1>2 DEF Poll, Goes
    <2>2. /\ m \in DOMAIN mails /\ m \in Inbox(s) /\ m \in Nat
          /\ mails[m].dated => m > since[s]
        BY <1>2, FoundIsFresh
    <2> HIDE DEF m
    <2>3. /\ signup' \in [Signups -> SignupRecords] /\ got' \in [Signups -> Nat]
          /\ signup'[s].pc = "done" /\ got'[s] = m
          /\ \A t \in Signups : /\ signup'[t].kind = signup[t].kind
                                /\ signup'[t].address = signup[t].address
          /\ \A t \in Signups : t # s => signup'[t].pc = signup[t].pc /\ got'[t] = got[t]
        BY <2>1, <2>2 DEF SignupRecords, SignupPlaces
    <2>4. \A t \in Signups : Settled(t)' = Settled(t)
        BY <2>3 DEF Settled
    <2>5. ASSUME NEW t \in Signups PROVE AddressOfKind(t)'
        <3>1. AddressOfKind(t)
            BY DEF EachOwn
        <3> QED BY <2>1, <2>3, <2>4, <3>1 DEF AddressOfKind
    <2>6. GotOwn(s)'
        <3>1. CASE signup[s].kind = "fixed"
            <4>1. PICK u \in Signups : signup[u].kind = "fixed" /\ mails[m].to = signup[u].address
                BY <2>2, <3>1 DEF Inbox, FixedInbox
            <4>2. mails[m].to \in Homes
                <5> DEFINE R == [to : Homes, code : BOOLEAN, dated : BOOLEAN, named : BOOLEAN]
                <5>1. \A i \in DOMAIN mails : mails[i] \in R
                    BY MembersOfSeq
                <5>2. \A x \in R : x.to \in Homes
                    OBVIOUS
                <5> QED BY <2>2, <5>1, <5>2
            <4>3. Settled(u) /\ AddressOfKind(u)
                BY <4>1, <4>2, MailAssumption DEF Homes, Settled, EachOwn
            <4>4. mails[m].to = u
                BY <4>1, <4>3 DEF AddressOfKind
            <4> QED BY <2>1, <2>2, <2>3, <2>4, <3>1, <4>1, <4>3, <4>4 DEF GotOwn
        <3>2. CASE signup[s].kind # "fixed"
            <4>1. mails[m].named => mails[m].to = signup[s].address
                BY <2>2, <3>2 DEF Inbox, OwnInbox, SharedInbox
            <4> QED BY <2>1, <2>2, <2>3, <3>2, <4>1 DEF GotOwn
        <3> QED BY <3>1, <3>2
    <2>7. ASSUME NEW t \in Signups, t # s PROVE GotOwn(t)'
        <3>1. GotOwn(t)
            BY DEF EachOwn
        <3> QED BY <2>1, <2>3, <2>4, <2>7, <3>1 DEF GotOwn
    <2>8. EachAlone'
        <3> SUFFICES ASSUME NEW t \in Signups, NEW u \in Signups, t # u
                     PROVE  Alone(t, u)'
            BY DEF EachAlone
        <3>1. Alone(t, u) /\ Alone(u, t)
            BY DEF EachAlone
        <3> QED BY <2>1, <2>2, <2>3, <3>1 DEF Alone
    <2> QED BY <2>1, <2>3, <2>5, <2>6, <2>7, <2>8 DEF EachOwn
<1> QED BY <1>1, <1>2

LEMMA MailArrivesStep ==
    ASSUME MailInv, MailArrives
    PROVE  MailInv'
<1> USE DEF MailInv, MailTypeOK
<1> DEFINE R == [to : Homes, code : BOOLEAN, dated : BOOLEAN, named : BOOLEAN]
<1>1. PICK s \in Signups :
          /\ signup[s].address # NoAddress
          /\ \E m \in MailRecords({signup[s].address}) : mails' = Append(mails, m)
    BY DEF MailArrives
<1>2. UNCHANGED <<entries, turn, signup, since, got>>
    BY DEF MailArrives
<1>3. signup[s].address \in Homes
    BY <1>1 DEF SignupRecords
<1>4. MailRecords({signup[s].address}) \subseteq R
    BY <1>3 DEF MailRecords
<1>5. /\ mails' \in Seq(R)
      /\ \A i \in DOMAIN mails : i \in DOMAIN mails' /\ mails'[i] = mails[i]
    <2>1. PICK m \in R : mails' = Append(mails, m)
        BY <1>1, <1>4
    <2>2. mails \in Seq(R)
        OBVIOUS
    <2> HIDE DEF R, MailInv, MailTypeOK
    <2> QED BY <2>1, <2>2
<1>6. ASSUME NEW t \in Signups PROVE AddressOfKind(t)' /\ GotOwn(t)'
    <2>1. AddressOfKind(t) /\ GotOwn(t)
        BY DEF EachOwn
    <2>2. AddressOfKind(t)'
        BY <1>2, <2>1 DEF AddressOfKind, Settled
    <2>3. \A u \in Signups : Settled(u)' = Settled(u)
        BY <1>2 DEF Settled
    <2> QED BY <1>2, <1>5, <2>1, <2>2, <2>3 DEF GotOwn
<1>7. EachAlone'
    BY <1>2, <1>5 DEF EachAlone, Alone, EachOwn, GotOwn
<1> QED BY <1>2, <1>5, <1>6, <1>7 DEF EachOwn

LEMMA MailStep ==
    ASSUME MailInv, [MailNext]_mailVars
    PROVE  MailInv'
<1>1. CASE UNCHANGED mailVars
    BY <1>1 DEF MailInv, MailTypeOK, mailVars, EachOwn, EachAlone, AddressOfKind, GotOwn, Alone,
       Settled
<1> QED BY <1>1, DrawsAndFailures, CreatedStep, PollStep, MailArrivesStep
        DEF MailNext, SignupStep

LEMMA MailInvGivesOwn ==
    ASSUME MailInv
    PROVE  CodesAreOwn
<1> SUFFICES ASSUME NEW s \in Signups, got[s] # 0, NEW t \in Signups \ {s}, got[t] = got[s],
                    mails[got[s]].dated, mails[got[s]].named
             PROVE  signup[s].kind = "shared" /\ signup[s].address = signup[t].address
    BY DEF CodesAreOwn, MailInv, EachOwn, GotOwn
<1>1. /\ AddressOfKind(s) /\ AddressOfKind(t) /\ GotOwn(s) /\ GotOwn(t) /\ Alone(s, t)
      /\ Settled(s) /\ Settled(t)
    BY DEF MailInv, EachOwn, EachAlone, AddressOfKind
<1>2. signup[s].kind \in Kinds /\ signup[t].kind \in Kinds
    BY DEF MailInv, MailTypeOK, SignupRecords
<1> DEFINE to == mails[got[s]].to
<1>3. /\ signup[s].kind # "fixed" => to = signup[s].address
      /\ signup[t].kind # "fixed" => to = signup[t].address
      /\ signup[s].kind = "fixed" => to \in Signups /\ signup[to].kind = "fixed"
      /\ signup[t].kind = "fixed" => to \in Signups /\ signup[to].kind = "fixed"
    BY <1>1 DEF GotOwn
<1> HIDE DEF to
<1>4. /\ signup[s].kind = "own" => signup[s].address = s
      /\ signup[s].kind = "scan" => signup[s].address = OutlookBox
      /\ signup[s].kind = "shared" => signup[s].address \in Aliases
      /\ signup[t].kind = "own" => signup[t].address = t
      /\ signup[t].kind = "scan" => signup[t].address = OutlookBox
      /\ signup[t].kind = "shared" => signup[t].address \in Aliases
    BY <1>1 DEF AddressOfKind
<1>5. ~(signup[s].kind = signup[t].kind /\ signup[s].kind \in {"scan", "fixed"})
    BY <1>1 DEF Alone, Exclusive
<1> QED BY <1>2, <1>3, <1>4, <1>5, MailAssumption DEF Kinds

\* A code that wait_for_code returns came after the registration began to wait, if its
\* mail has a date, to its own address, if a recipient can be read where aliases are
\* forwarded (tempmail.plus alone does not look), and then no other registration returned
\* it, but where two were given one alias: whatever providers are configured, in whatever
\* order mails arrive, also in an Outlook mailbox that was lent before.
THEOREM CodesAreOwnHolds == MailSpec => []CodesAreOwn
<1>1. MailInv /\ [MailNext]_mailVars => MailInv'
    BY MailStep
<1>2. MailInv => CodesAreOwn
    BY MailInvGivesOwn
<1> QED BY <1>1, <1>2, MailInitInv, PTL DEF MailSpec

-----------------------------------------------------------------------------
(* Checks of accounts: one is condemned with a cause.                      *)

CheckPlaces == {"none", "asking", "good", "refused", "updating", "condemning",
                "logged in", "over"}

\* invalid_count is what was recorded since the last good answer, whoever recorded it.
CountsRefusals ==
    /\ invalids = refusals
    /\ refusals \in [Checked -> 0 .. 3]

CheckTypeOK ==
    /\ check \in [Sources -> [Checked -> CheckPlaces]]
    /\ grounds \in [Checked -> [refusals : 0 .. 3, young : BOOLEAN]]

CheckInv == CheckTypeOK /\ CountsRefusals /\ CondemnedWithCause

LEMMA CheckInitInv == CheckInit => CheckInv
BY DEF CheckInit, CheckInv, CheckTypeOK, CountsRefusals, CondemnedWithCause, CheckPlaces,
   NoGrounds, At, Sources

\* A move of one check.
LEMMA CheckMovesTyped ==
    ASSUME CheckTypeOK, NEW s \in Sources, NEW a \in Checked, NEW pc \in CheckPlaces,
           CheckMoves(s, a, pc)
    PROVE  /\ check' \in [Sources -> [Checked -> CheckPlaces]]
           /\ check'[s][a] = pc
           /\ \A t \in Sources, b \in Checked : t # s \/ b # a => check'[t][b] = check[t][b]
BY DEF CheckTypeOK, CheckMoves

\* A check that does not come to the point of a verdict leaves the grounds alone.
LEMMA HarmlessMove ==
    ASSUME CheckInv, NEW s \in Sources, NEW a \in Checked,
           NEW pc \in CheckPlaces \ {"condemning"}, CheckMoves(s, a, pc),
           UNCHANGED grounds
    PROVE  CheckTypeOK' /\ CondemnedWithCause'
<1>1. /\ check' \in [Sources -> [Checked -> CheckPlaces]]
      /\ check'[s][a] = pc
      /\ \A t \in Sources, b \in Checked : t # s \/ b # a => check'[t][b] = check[t][b]
    BY CheckMovesTyped DEF CheckInv
<1> QED BY <1>1 DEF CheckInv, CheckTypeOK, CondemnedWithCause, At, Sources

LEMMA RecordInvalidStep ==
    ASSUME CheckInv, NEW s \in Sources, NEW a \in Checked, RecordInvalid(s, a)
    PROVE  CheckInv'
<1> USE DEF CheckInv
<1>1. PICK pc \in {"over", "condemning"} :
          CheckMoves(s, a, pc) /\ (pc = "condemning" => ~Defers(s, a))
    BY DEF RecordInvalid
<1>2. /\ check' \in [Sources -> [Checked -> CheckPlaces]]
      /\ check'[s][a] = pc
      /\ \A t \in Sources, b \in Checked : t # s \/ b # a => check'[t][b] = check[t][b]
    <2>1. pc \in CheckPlaces
        BY DEF CheckPlaces
    <2> QED BY <1>1, <2>1, CheckMovesTyped
<1>3. CountsRefusals'
    BY DEF CountsRefusals, RecordInvalid, Min3
<1>4. grounds' \in [Checked -> [refusals : 0 .. 3, young : BOOLEAN]]
    BY DEF RecordInvalid, CheckTypeOK, CountsRefusals, Min3
<1>5. ASSUME NEW b \in Checked, check'["watcher"][b] = "condemning"
      PROVE  grounds'[b].refusals >= 3 /\ ~grounds'[b].young
    <2>1. CASE s = "watcher" /\ b = a
        <3>1. ~Defers(s, a) /\ invalids[a] > 1 /\ a \notin young
            BY <1>1, <1>2, <1>5, <2>1 DEF Defers, CountsRefusals
        <3>2. grounds'[a].refusals = Min3(refusals[a] + 1) /\ ~grounds'[a].young
            BY <2>1, <3>1 DEF RecordInvalid, CheckTypeOK
        <3>3. Min3(refusals[a] + 1) = 3
            BY <3>1 DEF CountsRefusals, Min3
        <3> QED BY <2>1, <3>2, <3>3
    <2>2. CASE ~(s = "watcher" /\ b = a)
        <3>1. check["watcher"][b] = "condemning"
            BY <1>2, <1>5, <2>2 DEF Sources
        <3>2. grounds'[b] = grounds[b]
            BY <2>2 DEF RecordInvalid, CheckTypeOK
        <3> QED BY <3>1, <3>2 DEF CondemnedWithCause, At
    <2> QED BY <2>1, <2>2
<1> QED BY <1>2, <1>3, <1>4, <1>5 DEF CheckTypeOK, CondemnedWithCause, At

LEMMA CondemnStep ==
    ASSUME CheckInv, NEW s \in Sources, NEW a \in Checked, Condemn(s, a)
    PROVE  CheckInv'
<1> USE DEF CheckInv
<1>1. /\ check' \in [Sources -> [Checked -> CheckPlaces]]
      /\ check'[s][a] = "over"
      /\ \A t \in Sources, b \in Checked : t # s \/ b # a => check'[t][b] = check[t][b]
    BY CheckMovesTyped DEF CheckPlaces, Condemn
<1>2. CountsRefusals'
    BY DEF CountsRefusals, Condemn
<1>3. grounds' \in [Checked -> [refusals : 0 .. 3, young : BOOLEAN]]
    BY DEF Condemn, CheckTypeOK, NoGrounds
<1>4. ASSUME NEW b \in Checked, check'["watcher"][b] = "condemning"
      PROVE  grounds'[b].refusals >= 3 /\ ~grounds'[b].young
    <2>1. check["watcher"][b] = "condemning" /\ ~(s = "watcher" /\ b = a)
        BY <1>1, <1>4 DEF Sources
    <2>2. grounds'[b] = grounds[b]
        BY <2>1 DEF Condemn, CheckTypeOK
    <2> QED BY <2>1, <2>2 DEF CondemnedWithCause, At
<1> QED BY <1>1, <1>2, <1>3, <1>4 DEF CheckTypeOK, CondemnedWithCause, At

\* The checks of both kinds, and the logins.
LEMMA CheckStepInv ==
    ASSUME CheckInv, NEW s \in Sources, NEW a \in Checked, CheckStep(s, a)
    PROVE  CheckInv'
<1> USE DEF CheckInv, CheckPlaces
<1>1. CASE Answered(s, a)
    <2>1. PICK pc \in {"good", "refused", "over"} : CheckMoves(s, a, pc)
        BY <1>1 DEF Answered
    <2>2. UNCHANGED <<invalids, refusals, grounds>>
        BY <1>1 DEF Answered
    <2> QED BY <2>1, <2>2, HarmlessMove DEF CountsRefusals
<1>2. CASE RecordSuccess(s, a)
    <2>1. CountsRefusals'
        BY <1>2 DEF RecordSuccess, CountsRefusals
    <2>2. CheckMoves(s, a, "updating") /\ UNCHANGED grounds
        BY <1>2 DEF RecordSuccess
    <2> QED BY <2>1, <2>2, HarmlessMove
<1>3. CASE UpdateRecord(s, a) \/ RecordGone(s, a)
    BY <1>3, HarmlessMove DEF UpdateRecord, RecordGone, CountsRefusals
<1> QED BY <1>1, <1>2, <1>3, RecordInvalidStep, CondemnStep DEF CheckStep

LEMMA CheckOperatorInv ==
    ASSUME CheckInv, NEW a \in Checked,
           \/ OperatorChecks(a) \/ OperatorSeen(a) \/ LogsIn(a) \/ SetNormal(a) \/ LoginFails(a)
           \/ GrowsUp(a) \/ Recedes(a)
    PROVE  CheckInv'
<1> USE DEF CheckInv, CheckPlaces
<1>0. "operator" \in Sources
    BY DEF Sources
<1>1. CASE OperatorChecks(a) \/ OperatorSeen(a) \/ SetNormal(a)
    BY <1>0, <1>1, HarmlessMove DEF OperatorChecks, OperatorSeen, SetNormal, CountsRefusals
<1>2. CASE LogsIn(a)
    <2>1. CountsRefusals'
        <3>1. /\ invalids' = [invalids EXCEPT ![a] = 0]
              /\ refusals' = [refusals EXCEPT ![a] = 0]
            BY <1>2 DEF LogsIn
        <3> QED BY <3>1 DEF CountsRefusals
    <2>2. CheckMoves("operator", a, "logged in") /\ UNCHANGED grounds
        BY <1>2 DEF LogsIn
    <2> QED BY <1>0, <2>1, <2>2, HarmlessMove
<1>3. CASE LoginFails(a) \/ GrowsUp(a) \/ Recedes(a)
    BY <1>3 DEF LoginFails, GrowsUp, Recedes, CheckTypeOK, CountsRefusals,
       CondemnedWithCause, At
<1> QED BY <1>1, <1>2, <1>3

LEMMA CheckRoundInv ==
    ASSUME CheckInv, WatcherRound \/ RoundOver
    PROVE  CheckInv'
<1> USE DEF CheckInv
<1>1. PICK place \in [Checked -> {"asking", "none"}] :
          check' = [check EXCEPT !["watcher"] = place]
    <2>1. CASE WatcherRound
        BY <2>1 DEF WatcherRound
    <2>2. CASE RoundOver
        BY <2>2 DEF RoundOver
    <2> QED BY <2>1, <2>2
<1>2. UNCHANGED <<invalids, refusals, grounds>>
    BY DEF WatcherRound, RoundOver
<1> QED BY <1>1, <1>2 DEF CheckTypeOK, CountsRefusals, CondemnedWithCause, At, CheckPlaces,
           Sources

\* The watcher gives an account up only after three refusals with no good answer in
\* between, and never a young one, whatever checks and logins of an operator come in
\* between (_should_defer_invalid_token, _record_invalid_token_seen and
\* remove_invalid_token are sections of their own).
THEOREM CondemnedWithCauseHolds == CheckSpec => []CondemnedWithCause
<1>1. CheckInv /\ [CheckNext]_checkVars => CheckInv'
    <2> SUFFICES ASSUME CheckInv, [CheckNext]_checkVars
                 PROVE  CheckInv'
        OBVIOUS
    <2>1. CASE UNCHANGED checkVars
        BY <2>1 DEF checkVars, CheckInv, CheckTypeOK, CountsRefusals, CondemnedWithCause, At
    <2> QED BY <2>1, CheckStepInv, CheckOperatorInv, CheckRoundInv DEF CheckNext
<1>2. CheckInv => CondemnedWithCause
    BY DEF CheckInv
<1> QED BY <1>1, <1>2, CheckInitInv, PTL DEF CheckSpec
=============================================================================
