----------------------------- MODULE MCUpstream -----------------------------
(***************************************************************************)
(* What talks to other servers, side by side. The parts share no variable, *)
(* and a behaviour is one of the part that Init selects: the others stay   *)
(* in an initial state.                                                    *)
(***************************************************************************)
EXTENDS ImageGeneration, ImagePolling, SearchAnswers, ProxyClearance, ImportJobs, TLC

VARIABLE part

upstreamVars == <<part, vars, pollVars, searchVars, clearanceVars, importVars>>

UpstreamInit ==
    /\ part \in {"generation", "polling", "search", "clearance", "import"}
    /\ Init /\ PollingInit /\ SearchInit /\ ClearanceInit /\ ImportInit
    /\ part = "generation" \/ ~(parallel \/ codex \/ textFails \/ usable # Accounts)
    /\ part = "polling" \/ (confirm = [check |-> TRUE, settle |-> TRUE] /\ announced = {})
    /\ part = "import" \/ importApi = CHOOSE a \in ImportApis : TRUE

UpstreamNext ==
    \/ part = "generation" /\ Next
       /\ UNCHANGED <<part, pollVars, searchVars, clearanceVars, importVars>>
    \/ part = "polling"    /\ PollingNext
       /\ UNCHANGED <<part, vars, searchVars, clearanceVars, importVars>>
    \/ part = "search"     /\ SearchNext
       /\ UNCHANGED <<part, vars, pollVars, clearanceVars, importVars>>
    \/ part = "clearance"  /\ ClearanceNext
       /\ UNCHANGED <<part, vars, pollVars, searchVars, importVars>>
    \/ part = "import"     /\ ImportNext
       /\ UNCHANGED <<part, vars, pollVars, searchVars, clearanceVars>>

\* Streams, polls and the solver have timeouts; a lock that is free again and again is
\* taken at last.
UpstreamFairness ==
    /\ WF_vars(part = "generation" /\ Yield)
    /\ \A i \in Images : WF_vars(part = "generation" /\ Loop(i))
    /\ \A c \in ClearanceCallers :
          SF_clearanceVars(part = "clearance" /\ ClearanceProceeds(c))

UpstreamSpec == UpstreamInit /\ [][UpstreamNext]_upstreamVars /\ UpstreamFairness
=============================================================================
