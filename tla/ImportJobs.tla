------------------------------ MODULE ImportJobs ------------------------------
(***************************************************************************)
(* Imports of accounts from a CLIProxyAPI or a Sub2API server              *)
(* (services/cpa_service.py, services/sub2api_service.py): the file of     *)
(* servers, in which the job of an import is kept beside the settings of   *)
(* its server, and the threads that run the imports and report into it.    *)
(*                                                                         *)
(* Each access of the file is one section under its lock; an update of a   *)
(* job is two of them, a read and a write.  Nothing keeps an operator from *)
(* starting an import of a server while another one runs.                  *)
(***************************************************************************)
EXTENDS Naturals, FiniteSets

CONSTANTS
    Servers, NoServer,
    ImportRuns,     \* threads of imports
    ImportApis,     \* "cpa", "sub2api"
    Files,          \* files or accounts selected for an import
    MaxExported,    \* bound: accounts Sub2API answers with
    MaxEdits        \* bound: imports started, settings saved, restarts

ASSUME ImportAssumption ==
    /\ NoServer \notin Servers /\ ImportApis \subseteq {"cpa", "sub2api"}
    /\ Files \in Nat \ {0} /\ {MaxExported, MaxEdits} \subseteq Nat

VARIABLES
    importApi,   \* which of the two services this is
    servers,     \* the file: the settings (a version of them) and the job of each server
    importer,    \* where each thread is, and its locals
    edits,       \* how many of these there have been
    results,     \* tokens and errors the import of each server has to account for, when
                 \* it is the only one
    ordered,     \* what the operators made of each server's settings last, 0 deleted
    overlapped   \* servers for which an import was started while one ran

importVars == <<importApi, servers, importer, edits, results, ordered, overlapped>>

\* A job; `taken` are the tokens it got, and of equal ones added + skipped counts one.
NoJob  == [status |-> "none", completed |-> 0, taken |-> 0, failed |-> 0, errors |-> 0]
NewJob == [NoJob EXCEPT !.status = "pending"]
Gone0  == [settings |-> 0, job |-> NoJob]    \* a server that was deleted

Unfinished == {"pending", "running"}

\* _normalize_import_job with fail_unfinished.
Normalized(job) ==
    IF job.status \in Unfinished THEN [job EXCEPT !.status = "failed"] ELSE job

Idle == [pc |-> "idle", server |-> NoServer, left |-> 0, tokens |-> 0, update |-> "none",
         read |-> NoJob, settings |-> 0]

Present(s) == servers[s].settings # 0
Alive(s)   == {r \in ImportRuns : importer[r].server = s}

-----------------------------------------------------------------------------
(* The operators.                                                          *)

\* update_pool, update_server: the job goes through _normalize_pool, too.
UpdateServer(s) ==
    /\ Present(s) /\ edits < MaxEdits
    /\ edits' = edits + 1
    /\ ordered' = [ordered EXCEPT ![s] = edits + 2]
    /\ servers' = [servers EXCEPT ![s] = [settings |-> edits + 2, job |-> Normalized(@.job)]]
    /\ UNCHANGED <<importApi, importer, results, overlapped>>

DeleteServer(s) ==
    /\ Present(s)
    /\ ordered' = [ordered EXCEPT ![s] = 0]
    /\ servers' = [servers EXCEPT ![s] = Gone0]
    /\ UNCHANGED <<importApi, importer, edits, results, overlapped>>

\* start_import: the job is new, whatever becomes of the one before.
StartImport(r, s) ==
    /\ importer[r] = Idle /\ Present(s) /\ edits < MaxEdits
    /\ edits' = edits + 1
    /\ servers' = [servers EXCEPT ![s].job = NewJob]
    /\ importer' = [importer EXCEPT ![r] =
                       [Idle EXCEPT !.pc = "read", !.server = s, !.left = Files,
                                    !.update = "start", !.settings = servers[s].settings]]
    /\ results' = [results EXCEPT ![s] = Files]
    /\ overlapped' = IF Alive(s) = {} THEN overlapped \ {s} ELSE overlapped \cup {s}
    /\ UNCHANGED <<importApi, ordered>>

\* The process dies and loads the file: the job of a dead thread has failed.
RestartImports ==
    /\ edits < MaxEdits
    /\ edits' = edits + 1
    /\ importer' = [r \in ImportRuns |-> Idle]
    /\ servers' = [s \in Servers |-> [servers[s] EXCEPT !.job = Normalized(@)]]
    /\ UNCHANGED <<importApi, results, ordered, overlapped>>

-----------------------------------------------------------------------------
(* A thread. An update reads the job, and writes it with new values; that   *)
(* the code reads it twice, for the values and for the rest, is left out.  *)

Job(r) == servers[importer[r].server].job

ReadJob(r) ==
    /\ importer[r].pc = "read"
    /\ importer' = [importer EXCEPT ![r].pc = "set", ![r].read = Job(r)]
    /\ UNCHANGED <<importApi, servers, edits, results, ordered, overlapped>>

Updated(r) ==
    LET i == importer[r]
        b == i.read
        e == b.errors
    IN CASE i.update = "start"   -> [b EXCEPT !.status = "running"]
         [] i.update = "error"   -> [b EXCEPT !.errors = e + 1, !.failed = e + 1]
         [] i.update = "count"   -> [b EXCEPT !.completed = b.completed + 1, !.failed = e]
         [] i.update = "counted" -> [b EXCEPT !.completed = Files, !.failed = e]
         [] i.update = "nothing" -> [b EXCEPT !.status = "failed", !.completed = Files,
                                              !.failed = e]
         [] i.update = "done"    -> [b EXCEPT !.status = "completed", !.completed = Files,
                                              !.taken = i.tokens, !.failed = e]

\* set_import_job: the settings are those of the moment, and a server that is gone
\* stays so. The mutant saves the server the import was started with.
SaveJobAndServer(r) ==
    servers' = [servers EXCEPT ![importer[r].server] =
                   [settings |-> importer[r].settings, job |-> Updated(r)]]
SaveJob(r) ==
    LET s == importer[r].server IN
    servers' = IF Present(s) /\ importer[r].read # NoJob
               THEN [servers EXCEPT ![s].job = Updated(r)] ELSE servers

\* What comes after an update. A file without a token is reported, then counted.
NextStep(r) ==
    LET i == importer[r] IN
    IF i.update \in {"nothing", "done"} THEN Idle
    ELSE IF i.update = "error" /\ importApi = "cpa"
         THEN [i EXCEPT !.pc = "read", !.update = "count"]
    ELSE IF i.update = "counted" THEN [i EXCEPT !.pc = "adding"]
    ELSE IF i.update = "start" /\ importApi = "sub2api" THEN [i EXCEPT !.pc = "asking"]
    ELSE [i EXCEPT !.pc = "fetching"]

WriteJob(r) ==
    /\ importer[r].pc = "set"
    /\ SaveJob(r)
    /\ importer' = [importer EXCEPT ![r] = [NextStep(r) EXCEPT !.read = NoJob]]
    /\ UNCHANGED <<importApi, edits, results, ordered, overlapped>>

\* The errors in Sub2API's answer about `exported` accounts: one for each without a
\* token, and a single one for all that are missing. An entry that is no object is
\* counted with the exported ones and gives nothing; there may be more than were asked.
ExportErrors(exported, without) == without + IF exported < Files THEN 1 ELSE 0

\* _fetch_access_tokens_for_accounts
Exported(r, tokens, errors) ==
    /\ importer' = [importer EXCEPT ![r].pc = "fetching", ![r].left = errors,
                                   ![r].tokens = tokens]
    /\ results' = IF importer[r].server \in overlapped THEN results
                  ELSE [results EXCEPT ![importer[r].server] = tokens + errors]

Export(r) ==
    /\ importer[r].pc = "asking"
    /\ \E tokens, without, skipped \in 0 .. MaxExported :
          /\ tokens + without + skipped <= MaxExported
          /\ Exported(r, tokens, ExportErrors(tokens + without + skipped, without))
    /\ UNCHANGED <<importApi, servers, edits, ordered, overlapped>>

\* It raises: an error for each account.
ExportRaises(r) ==
    /\ importer[r].pc = "asking"
    /\ importer' = [importer EXCEPT ![r].pc = "fetching", ![r].left = Files]
    /\ UNCHANGED <<importApi, servers, edits, results, ordered, overlapped>>

\* The next result: of CLIProxyAPI that of a file, in any order (as_completed), of
\* Sub2API the next error of the answer. The mutant leaves a failed file uncounted.
FetchedUncounted(r, ok) ==
    LET i == [importer[r] EXCEPT !.left = @ - 1] IN
    IF ok THEN [i EXCEPT !.tokens = @ + 1, !.pc = "read", !.update = "count"] ELSE i
Fetched(r, ok) ==
    LET i == [importer[r] EXCEPT !.left = @ - 1, !.pc = "read"] IN
    IF ok THEN [i EXCEPT !.tokens = @ + 1, !.update = "count"]
          ELSE [i EXCEPT !.update = "error"]

FetchFile(r) ==
    /\ importer[r].pc = "fetching" /\ importer[r].left > 0
    /\ \E ok \in BOOLEAN :
         /\ ok => importApi = "cpa"
         /\ importer' = [importer EXCEPT ![r] = Fetched(r, ok)]
    /\ UNCHANGED <<importApi, servers, edits, results, ordered, overlapped>>

FetchedAll(r) ==
    /\ importer[r].pc = "fetching" /\ importer[r].left = 0
    /\ importer' = [importer EXCEPT ![r] =
                       IF importApi = "cpa" THEN [@ EXCEPT !.pc = "adding"]
                       ELSE [@ EXCEPT !.pc = "read", !.update = "counted"]]
    /\ UNCHANGED <<importApi, servers, edits, results, ordered, overlapped>>

\* add_accounts and refresh_accounts; without a token the import has failed.
AddTokens(r) ==
    /\ importer[r].pc = "adding"
    /\ importer' = [importer EXCEPT ![r].pc = "read",
                       ![r].update = IF importer[r].tokens = 0 THEN "nothing" ELSE "done"]
    /\ UNCHANGED <<importApi, servers, edits, results, ordered, overlapped>>

\* An exception there ends the thread, and the job stays as it is.
AddRaises(r) ==
    /\ importer[r].pc = "adding" /\ importer[r].tokens > 0
    /\ importer' = [importer EXCEPT ![r] = Idle]
    /\ UNCHANGED <<importApi, servers, edits, results, ordered, overlapped>>

-----------------------------------------------------------------------------
ImportInit ==
    /\ importApi \in ImportApis
    /\ servers = [s \in Servers |-> [settings |-> 1, job |-> NoJob]]
    /\ importer = [r \in ImportRuns |-> Idle]
    /\ edits = 0
    /\ results = [s \in Servers |-> Files]
    /\ ordered = [s \in Servers |-> 1]
    /\ overlapped = {}

ImporterStep(r) ==
    \/ ReadJob(r) \/ WriteJob(r)
    \/ Export(r) \/ ExportRaises(r)
    \/ FetchFile(r) \/ FetchedAll(r) \/ AddTokens(r) \/ AddRaises(r)

ImportNext ==
    \/ \E r \in ImportRuns : ImporterStep(r)
    \/ \E s \in Servers : UpdateServer(s) \/ DeleteServer(s)
    \/ \E r \in ImportRuns, s \in Servers : StartImport(r, s)
    \/ RestartImports

ImportSpec == ImportInit /\ [][ImportNext]_importVars

-----------------------------------------------------------------------------
\* Reports of running imports never undo what an operator did meanwhile: the settings
\* of a server are the last ones saved, and a server that was deleted is not back.
OperatorHasLastWord == \A s \in Servers : servers[s].settings = ordered[s]

\* Unless two imports of a server overlapped, a job that has completed accounts for
\* what it was given, also when the settings were saved in the middle of it: with
\* CLIProxyAPI every file was counted once, and gave a token or an error; with Sub2API
\* all count as completed, and it has each token and each error of the answer, which
\* need not be as many as the accounts asked for.
CompletedAddsUp ==
    \A s \in Servers \ overlapped :
        LET job == servers[s].job IN
        /\ job.completed <= Files
        /\ job.status = "completed" => /\ job.completed = Files
                                       /\ job.taken + job.failed = results[s]
                                       /\ job.failed = job.errors
        /\ importApi = "cpa" => results[s] = Files
=============================================================================
