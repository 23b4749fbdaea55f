---------------------------- MODULE ProxyClearance ----------------------------
(***************************************************************************)
(* Egress and Cloudflare clearance (services/proxy_service.py): from the   *)
(* settings a request gets its egress and, when clearance is on, the       *)
(* cookies a solver earned for that egress.  Threads that meet a challenge *)
(* refresh the clearance; a lock per egress lets one of them solve while   *)
(* the others wait for its answer.                                         *)
(*                                                                         *)
(* One target host: a key of the cache is then the proxy of the egress.    *)
(* Every caller forces the refresh, so that no bundle is ever good enough  *)
(* to return it at once; invalidate_clearance is never called at all.      *)
(***************************************************************************)
EXTENDS Naturals

CONSTANTS
    ClearanceCallers,  \* threads that refresh, those of the register service
    NoCaller,
    RuntimeProxy,      \* the proxy of proxy_runtime in egress mode single_proxy
    GlobalProxy,       \* the proxy of the legacy setting, or the one passed along
    NoBundle, Manual,  \* no bundle, and the cookies the operator typed in
    MaxSolved          \* bound: bundles the solver earns for an egress

ASSUME ClearanceAssumption ==
    /\ NoCaller \notin ClearanceCallers
    /\ RuntimeProxy # GlobalProxy
    /\ MaxSolved \in Nat \ {0}
    /\ NoBundle # Manual /\ {NoBundle, Manual} \cap (0 .. MaxSolved) = {}

VARIABLES
    settings,  \* proxy_runtime: whether egress_mode is single_proxy, the clearance mode
    bundles,   \* _clearance_cache: the bundle of each egress
    flight,    \* _flight_locks: who holds the lock of each egress
    callPc,    \* where each call of refresh_clearance is
    call,      \* its locals: egress, cached_before and cached_now
    answer,    \* what it returned
    solved     \* how many bundles the solver has earned, each numbered by it

clearanceVars == <<settings, bundles, flight, callPc, call, answer, solved>>

Egresses == {RuntimeProxy, GlobalProxy}
Bundles  == 1 .. MaxSolved \cup {NoBundle, Manual}
Settings == [single : BOOLEAN, mode : {"none", "manual", "flaresolverr"}]

\* get_profile for a request without a proxy of its own: the runtime proxy comes
\* before the one that is passed along and before the global one.
Egress == IF settings.single THEN RuntimeProxy ELSE GlobalProxy

\* Mode none stands for a runtime that is not enabled, too.
ClearanceEnabled == settings.mode # "none"

NoCall == [egress |-> GlobalProxy, before |-> NoBundle, now |-> NoBundle]

\* Python's `a or b` on bundles.
Or(a, b) == IF a # NoBundle THEN a ELSE b

Returns(c, b) ==
    /\ answer' = [answer EXCEPT ![c] = b]
    /\ callPc' = [callPc EXCEPT ![c] = "idle"]
    /\ call' = [call EXCEPT ![c] = NoCall]

Released(c) == flight' = [flight EXCEPT ![call[c].egress] = NoCaller]

-----------------------------------------------------------------------------
\* The settings change under the callers: each call works with the profile it read.
Configure ==
    /\ settings' \in Settings \ {settings}
    /\ UNCHANGED <<bundles, flight, callPc, call, answer, solved>>

\* build_headers in manual mode fills the cache, in the other it only reads it.
BuildManual ==
    /\ settings.mode = "manual"
    /\ bundles' = [bundles EXCEPT ![Egress] = Manual]
    /\ UNCHANGED <<settings, flight, callPc, call, answer, solved>>

\* refresh_clearance with clearance off, or with the cookies of the operator, which
\* are put in the cache whenever they are asked for.
RefreshOff(c) ==
    /\ callPc[c] = "idle" /\ ~ClearanceEnabled
    /\ Returns(c, NoBundle)
    /\ UNCHANGED <<settings, bundles, flight, solved>>

RefreshManual(c) ==
    /\ callPc[c] = "idle" /\ settings.mode = "manual"
    /\ bundles' = [bundles EXCEPT ![Egress] = Manual]
    /\ Returns(c, Manual)
    /\ UNCHANGED <<settings, flight, solved>>

\* With the solver.
Refresh(c) ==
    /\ callPc[c] = "idle" /\ settings.mode = "flaresolverr"
    /\ call' = [call EXCEPT ![c] = [egress |-> Egress, before |-> bundles[Egress],
                                    now |-> NoBundle]]
    /\ callPc' = [callPc EXCEPT ![c] = "locking"]
    /\ answer' = [answer EXCEPT ![c] = NoBundle]
    /\ UNCHANGED <<settings, bundles, flight, solved>>

\* The lock is tried without waiting: the first one leads, the others follow.
Lead(c) ==
    /\ callPc[c] = "locking" /\ flight[call[c].egress] = NoCaller
    /\ flight' = [flight EXCEPT ![call[c].egress] = c]
    /\ call' = [call EXCEPT ![c].now = bundles[call[c].egress]]
    /\ callPc' = [callPc EXCEPT ![c] = "solving"]
    /\ UNCHANGED <<settings, bundles, answer, solved>>

Follow(c) ==
    /\ callPc[c] = "locking" /\ flight[call[c].egress] # NoCaller
    /\ callPc' = [callPc EXCEPT ![c] = "waiting"]
    /\ UNCHANGED <<settings, bundles, flight, call, answer, solved>>

\* Mutant of FollowerReturns: what was read before the wait comes first.
FollowerReturnsOld(c) ==
    /\ callPc[c] = "waiting" /\ flight[call[c].egress] = NoCaller
    /\ Returns(c, Or(call[c].before, bundles[call[c].egress]))
    /\ UNCHANGED <<settings, bundles, flight, solved>>

\* `with lock: pass`: a follower waits for the flight and takes what it left.
FollowerReturns(c) ==
    /\ callPc[c] = "waiting" /\ flight[call[c].egress] = NoCaller
    /\ Returns(c, Or(bundles[call[c].egress], call[c].before))
    /\ UNCHANGED <<settings, bundles, flight, solved>>

\* get_clearance returned a bundle, which is cached and returned.
Solves(c) ==
    /\ callPc[c] = "solving" /\ solved[call[c].egress] < MaxSolved
    /\ solved' = [solved EXCEPT ![call[c].egress] = @ + 1]
    /\ bundles' = [bundles EXCEPT ![call[c].egress] = solved'[call[c].egress]]
    /\ Returns(c, solved'[call[c].egress]) /\ Released(c)
    /\ UNCHANGED settings

\* Mutant of SolveFails: the lock is released only after a success.
SolveFailsHolding(c) ==
    /\ callPc[c] = "solving"
    /\ Returns(c, Or(call[c].now, call[c].before))
    /\ UNCHANGED <<settings, bundles, flight, solved>>

\* The solver gave nothing: the old bundle is returned, whatever it is worth.
SolveFails(c) ==
    /\ callPc[c] = "solving"
    /\ Returns(c, Or(call[c].now, call[c].before)) /\ Released(c)
    /\ UNCHANGED <<settings, bundles, solved>>

-----------------------------------------------------------------------------
ClearanceInit ==
    /\ settings = [single |-> TRUE, mode |-> "flaresolverr"]
    /\ bundles = [e \in Egresses |-> NoBundle]
    /\ flight = [e \in Egresses |-> NoCaller]
    /\ callPc = [c \in ClearanceCallers |-> "idle"]
    /\ call = [c \in ClearanceCallers |-> NoCall]
    /\ answer = [c \in ClearanceCallers |-> NoBundle]
    /\ solved = [e \in Egresses |-> 0]

ClearanceProceeds(c) ==
    Lead(c) \/ Follow(c) \/ FollowerReturns(c) \/ Solves(c) \/ SolveFails(c)

ClearanceNext ==
    \/ \E c \in ClearanceCallers :
           \/ ClearanceProceeds(c)
           \/ RefreshOff(c) \/ RefreshManual(c) \/ Refresh(c)
    \/ Configure \/ BuildManual

ClearanceSpec == ClearanceInit /\ [][ClearanceNext]_clearanceVars

-----------------------------------------------------------------------------
\* A call never returns cookies that were replaced while it waited: whatever flights
\* begin and end meanwhile, a follower gets the last bundle that was solved for its
\* egress, or the cookies of the operator, or nothing when there was never any.
AnswersAreNewest ==
    [][\A c \in ClearanceCallers :
           (callPc[c] = "waiting" /\ callPc'[c] = "idle")
               => answer'[c] \in {Manual, IF solved[call[c].egress] = 0 THEN NoBundle
                                          ELSE solved[call[c].egress]}]_clearanceVars

\* Every call comes back, also when the solver fails under the lock.
EveryRefreshReturns ==
    \A c \in ClearanceCallers : (callPc[c] # "idle") ~> (callPc[c] = "idle")
=============================================================================
