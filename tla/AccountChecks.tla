----------------------------- MODULE AccountChecks -----------------------------
(***************************************************************************)
(* Checks of the accounts (services/account_service.py): the watcher of    *)
(* api/support.py asks the upstream about every usable account round after *)
(* round, and gives an account whose token is refused several chances; an  *)
(* operator may have it checked or logged in again at any time.            *)
(*                                                                         *)
(* Tokens that are renewed keep their account: AccountPool has the renewal *)
(* and the aliases, and here a token stands for its account.               *)
(***************************************************************************)
EXTENDS Naturals, FiniteSets

CONSTANT Checked  \* accounts

VARIABLES
    verdict,   \* status of each account, "gone" when it was removed
    invalids,  \* invalid_count, up to 3
    recent,    \* accounts whose last_invalid_at is less than _INVALID_CONFIRM_SECONDS ago
    young,     \* accounts younger than _NEW_ACCOUNT_INVALID_GRACE_SECONDS
    check,     \* where the check of each account is, of the watcher and of an operator
    refusals,  \* refusals recorded since the last good answer, up to 3
    grounds    \* what the watcher's decision against an account rests on

checkVars == <<verdict, invalids, recent, young, check, refusals, grounds>>

Sources == {"watcher", "operator"}
NoGrounds == [refusals |-> 0, young |-> FALSE]
Exists(a) == verdict[a] # "gone"
Min3(n) == IF n < 3 THEN n ELSE 3

At(s, a, pc) == check[s][a] = pc
CheckMoves(s, a, pc) == check' = [check EXCEPT ![s][a] = pc]

-----------------------------------------------------------------------------
(* fetch_remote_info                                                       *)

\* get_user_info, a renewal of the token and a second attempt included: the answer is
\* good, the token is refused, or the upstream cannot be reached.
Answered(s, a) ==
    /\ At(s, a, "asking")
    /\ \E pc \in {"good", "refused", "over"} : CheckMoves(s, a, pc)
    /\ UNCHANGED <<verdict, invalids, recent, young, refusals, grounds>>

\* Mutant of RecordSuccess: the count stays.
RecordSuccessKeeping(s, a) ==
    /\ At(s, a, "good")
    /\ CheckMoves(s, a, "updating")
    /\ refusals' = [refusals EXCEPT ![a] = 0]
    /\ UNCHANGED <<verdict, invalids, recent, young, grounds>>

RecordSuccess(s, a) ==
    /\ At(s, a, "good")
    /\ CheckMoves(s, a, "updating")
    /\ invalids' = [invalids EXCEPT ![a] = 0]
    /\ recent' = recent \ {a}
    /\ refusals' = [refusals EXCEPT ![a] = 0]
    /\ UNCHANGED <<verdict, young, grounds>>

\* update_account with the answer; auto_remove_rate_limited_accounts may remove the
\* account instead.
UpdateRecord(s, a) ==
    /\ At(s, a, "updating")
    /\ \E status \in {"normal", "limited", "gone"} :
          verdict' = [verdict EXCEPT ![a] = IF Exists(a) THEN status ELSE @]
    /\ CheckMoves(s, a, "over")
    /\ UNCHANGED <<invalids, recent, young, refusals, grounds>>

\* _should_defer_invalid_token; an operator's check does not defer.
Defers(s, a) == s = "watcher" /\ (a \in young \/ invalids[a] <= 1 \/ a \in recent)

\* _record_invalid_token_seen: the decision rests on the count before this refusal.
RecordInvalid(s, a) ==
    /\ At(s, a, "refused") /\ Exists(a)
    /\ invalids' = [invalids EXCEPT ![a] = Min3(@ + 1)]
    /\ recent' = recent \cup {a}
    /\ refusals' = [refusals EXCEPT ![a] = Min3(@ + 1)]
    /\ CheckMoves(s, a, IF Defers(s, a) THEN "over" ELSE "condemning")
    /\ grounds' = IF s = "watcher" /\ ~Defers(s, a)
                  THEN [grounds EXCEPT ![a] = [refusals |-> Min3(refusals[a] + 1),
                                               young |-> a \in young]]
                  ELSE grounds
    /\ UNCHANGED <<verdict, young>>

\* The account is gone already.
RecordGone(s, a) ==
    /\ At(s, a, "refused") /\ ~Exists(a)
    /\ CheckMoves(s, a, "over")
    /\ UNCHANGED <<verdict, invalids, recent, young, refusals, grounds>>

\* remove_invalid_token: a section of its own; auto_remove_invalid_accounts decides
\* what becomes of the account.
Condemned(a) ==
    \E status \in {"abnormal", "gone"} :
        verdict' = [verdict EXCEPT ![a] = IF Exists(a) THEN status ELSE @]

Condemn(s, a) ==
    /\ At(s, a, "condemning")
    /\ Condemned(a)
    /\ CheckMoves(s, a, "over")
    /\ grounds' = IF s = "watcher" THEN [grounds EXCEPT ![a] = NoGrounds] ELSE grounds
    /\ UNCHANGED <<invalids, recent, young, refusals>>

\* Time passes.
GrowsUp(a) ==
    /\ a \in young /\ young' = young \ {a}
    /\ UNCHANGED <<verdict, invalids, recent, check, refusals, grounds>>
Recedes(a) ==
    /\ a \in recent /\ recent' = recent \ {a}
    /\ UNCHANGED <<verdict, invalids, young, check, refusals, grounds>>

-----------------------------------------------------------------------------
\* A round of the watcher: the normal and the limited accounts, and those whose token
\* is about to expire, whatever their status. It ends when all checks are over.
WatcherRound ==
    /\ \A a \in Checked : At("watcher", a, "none")
    /\ \E expiring \in SUBSET {a \in Checked : Exists(a)} :
          LET asked == expiring \cup {a \in Checked : verdict[a] \in {"normal", "limited"}} IN
          check' = [check EXCEPT !["watcher"] =
                       [a \in Checked |-> IF a \in asked THEN "asking" ELSE "none"]]
    /\ UNCHANGED <<verdict, invalids, recent, young, refusals, grounds>>

RoundOver ==
    /\ \E a \in Checked : ~At("watcher", a, "none")
    /\ \A a \in Checked : check["watcher"][a] \in {"none", "over"}
    /\ check' = [check EXCEPT !["watcher"] = [a \in Checked |-> "none"]]
    /\ UNCHANGED <<verdict, invalids, recent, young, refusals, grounds>>

-----------------------------------------------------------------------------
(* The operator.                                                           *)

\* POST /api/accounts/refresh, which does not defer.
OperatorChecks(a) ==
    /\ At("operator", a, "none") /\ Exists(a)
    /\ CheckMoves("operator", a, "asking")
    /\ UNCHANGED <<verdict, invalids, recent, young, refusals, grounds>>

OperatorSeen(a) ==
    /\ At("operator", a, "over")
    /\ CheckMoves("operator", a, "none")
    /\ UNCHANGED <<verdict, invalids, recent, young, refusals, grounds>>

\* A login with the password gives new tokens, and clears the count; then the status is
\* set.
LogsIn(a) ==
    /\ At("operator", a, "none") /\ Exists(a)
    /\ CheckMoves("operator", a, "logged in")
    /\ invalids' = [invalids EXCEPT ![a] = 0]
    /\ recent' = recent \ {a}
    /\ refusals' = [refusals EXCEPT ![a] = 0]
    /\ UNCHANGED <<verdict, young, grounds>>

SetNormal(a) ==
    /\ At("operator", a, "logged in")
    /\ verdict' = [verdict EXCEPT ![a] = IF Exists(a) THEN "normal" ELSE @]
    /\ CheckMoves("operator", a, "over")
    /\ UNCHANGED <<invalids, recent, young, refusals, grounds>>

\* Disabled by the provider, or any other failure, which condemns the account.
LoginFails(a) ==
    /\ At("operator", a, "none") /\ Exists(a)
    /\ Condemned(a) \/ verdict' = [verdict EXCEPT ![a] = "disabled"]
    /\ UNCHANGED <<check, invalids, recent, young, refusals, grounds>>

-----------------------------------------------------------------------------
CheckInit ==
    /\ verdict = [a \in Checked |-> "normal"]
    /\ invalids = [a \in Checked |-> 0]
    /\ recent = {} /\ young = Checked
    /\ check = [s \in Sources |-> [a \in Checked |-> "none"]]
    /\ refusals = [a \in Checked |-> 0]
    /\ grounds = [a \in Checked |-> NoGrounds]

CheckStep(s, a) ==
    \/ Answered(s, a) \/ RecordSuccess(s, a) \/ UpdateRecord(s, a)
    \/ RecordInvalid(s, a) \/ RecordGone(s, a) \/ Condemn(s, a)

CheckNext ==
    \/ \E a \in Checked :
          \/ \E s \in Sources : CheckStep(s, a)
          \/ OperatorChecks(a) \/ OperatorSeen(a) \/ LogsIn(a) \/ SetNormal(a) \/ LoginFails(a)
          \/ GrowsUp(a) \/ Recedes(a)
    \/ WatcherRound \/ RoundOver

CheckSpec == CheckInit /\ [][CheckNext]_checkVars

-----------------------------------------------------------------------------
\* The watcher condemns an account only when it is older than the grace period and
\* three refusals were recorded with no good answer in between, its own included: the
\* checks of others, good logins and the order of the answers cannot shorten that.
CondemnedWithCause ==
    \A a \in Checked :
        At("watcher", a, "condemning") => grounds[a].refusals >= 3 /\ ~grounds[a].young
=============================================================================
