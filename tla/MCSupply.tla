------------------------------ MODULE MCSupply ------------------------------
(***************************************************************************)
(* The account pool and what supplies and keeps its accounts, side by      *)
(* side. The parts share no variable, and a behaviour is one of the part   *)
(* that Init selects: the others stay in an initial state.                 *)
(***************************************************************************)
EXTENDS AccountPool, Registration, MailCodes, OAuthSessions, AccountChecks,
        ProgressJobs, TLC

VARIABLE part

supplyVars == <<part, vars, regVars, mailVars, oauthVars, checkVars, jobVars>>

\* The providers that are enabled: two of a kind, and each kind that reads a mailbox in
\* a way of its own.
MailProviders == {<<"own", "shared">>, <<"scan">>, <<"fixed">>, <<"shared">>}

SupplyInit ==
    /\ part \in {"pool", "registration", "mail", "oauth", "check", "job"}
    /\ Init /\ RegInit /\ MailInit /\ OAuthInit /\ CheckInit /\ JobInit
    /\ part = "pool" \/ \A t \in InitTokens : accounts[t].quota = MaxQuota
    /\ part = "registration" \/ regMode = CHOOSE m \in RegModes : TRUE
    /\ part = "mail" \/ (entries = (CHOOSE e \in EntryLists : TRUE) /\ turn = 0)

SupplyNext ==
    \/ part = "pool"         /\ Next
       /\ UNCHANGED <<part, regVars, mailVars, oauthVars, checkVars, jobVars>>
    \/ part = "registration" /\ RegNext
       /\ UNCHANGED <<part, vars, mailVars, oauthVars, checkVars, jobVars>>
    \/ part = "mail"         /\ MailNext
       /\ UNCHANGED <<part, vars, regVars, oauthVars, checkVars, jobVars>>
    \/ part = "oauth"        /\ OAuthNext
       /\ UNCHANGED <<part, vars, regVars, mailVars, checkVars, jobVars>>
    \/ part = "check"        /\ CheckNext
       /\ UNCHANGED <<part, vars, regVars, mailVars, oauthVars, jobVars>>
    \/ part = "job"          /\ JobNext
       /\ UNCHANGED <<part, vars, regVars, mailVars, oauthVars, checkVars>>

\* Threads run and their network calls end; a lock that is free again and again is taken
\* at last.
SupplyFairness ==
    /\ \A p \in Threads : WF_vars(part = "pool" /\ Fetch(p))
    /\ \A r \in Requests : WF_vars(part = "pool" /\ Request(r))
    /\ WF_regVars(part = "registration" /\ RunnerStep)
    /\ \A w \in RegWorkers :
          /\ WF_regVars(part = "registration" /\ WorkerStep(w))
          /\ SF_regVars(part = "registration" /\ Authorize(w))
    /\ WF_jobVars(part = "job" /\ JobProceeds)

SupplySpec == SupplyInit /\ [][SupplyNext]_supplyVars /\ SupplyFairness
=============================================================================
