----------------------------- MODULE AccountPool -----------------------------
(***************************************************************************)
(* The account pool of services/account_service.py: which upstream account *)
(* serves an image request, how many images each account is generating,    *)
(* and what happens to both while access tokens are refreshed (and change), *)
(* accounts are re-checked, imported, deleted, or the process restarts.    *)
(*                                                                         *)
(* An account is known by its access token.  A thread keeps the token it   *)
(* was given in a local variable while another thread may replace it, so   *)
(* every operation first resolves the token through the table of aliases.  *)
(*                                                                         *)
(* One action is one section under AccountService._lock, together with the *)
(* thread's local steps up to the next section.  Network calls lie between *)
(* the sections, hence between the actions.                                *)
(***************************************************************************)
EXTENDS Naturals, FiniteSets

CONSTANTS
    Tokens,            \* access tokens, those not minted yet included
    InitTokens,        \* accounts in the store when the process starts
    NoToken,           \* "no alias", "no token in hand"
    Requests,          \* image requests, each generating one image
    Workers,           \* jobs of refresh_accounts, each checking one account
    NoThread,          \* the refresh lock is free
    MaxConcurrency,    \* config.image_account_concurrency
    MaxQuota,          \* bound: the largest quota upstream reports
    MaxAttempts,       \* max_attempts of get_available_access_token
    MaxRelogins,       \* bound: password re-login threads alive at once
    AutoRemoveLimited, \* config.auto_remove_rate_limited_accounts
    AutoRemoveInvalid, \* config.auto_remove_invalid_accounts
    Operations,        \* what operators and the environment may do
    SaveFaults,        \* the saves that may raise: of the pool, of an image result
    Outcomes           \* how a generation may end

Threads == Requests \cup Workers

AllOperations ==
    {"import", "reimport", "overlap", "delete", "update", "relogin", "restart"}

ASSUME PoolAssumption ==
    /\ InitTokens \subseteq Tokens
    /\ NoToken \notin Tokens
    /\ NoThread \notin Threads
    /\ Requests \cap Workers = {}
    /\ MaxConcurrency \in Nat \ {0}
    /\ MaxQuota \in Nat \ {0}
    /\ MaxAttempts \in Nat \ {0}
    /\ MaxRelogins \in 0 .. 1
    /\ AutoRemoveLimited \in BOOLEAN
    /\ AutoRemoveInvalid \in BOOLEAN
    /\ Operations \subseteq AllOperations
    /\ SaveFaults \subseteq {"pool", "mark"}
    /\ Outcomes \subseteq {"result", "message", "error", "noImage"}

VARIABLES
    accounts,   \* _accounts: the record of each token, NoAccount when it has none
    inflight,   \* _image_inflight: images being generated, per token
    aliases,    \* _token_aliases: replaced token -> its successor
    store,      \* the accounts as last written to the storage backend
    unsaved,    \* history: the last save of the accounts raised
    issued,     \* tokens that exist outside the pool: minted or imported once
    refreshing, \* holder of _token_refresh_lock
    relogin,    \* per token, the stage of its password re-login thread
    fresh,      \* per token, the token its re-login brought (`new_token`)
    pc,         \* where each thread is
    tok,        \* the token a request got its slot under (`access_token`)
    act,        \* the token a fetch works with (`active_token`)
    cur,        \* the token being refreshed (`active_token` in refresh_access_token)
    tried       \* `attempted_tokens` of a request

pool      == <<accounts, inflight, aliases, store, unsaved, issued>>
loginVars == <<relogin, fresh>>
local     == <<pc, tok, act, cur, tried>>
vars      == <<pool, refreshing, loginVars, local>>

-----------------------------------------------------------------------------
(* Where a thread is.                                                      *)

Refreshing == {"preflightNet", "forcedNet"}  \* waiting for the token endpoint
Fetching   == Refreshing \cup                \* in fetch_remote_info
    {"preflight", "userInfo", "userInfoAgain", "condemn", "remove", "markInvalid"}

\* A request holds the slot it acquired until its first mark or release.
Holding   == Fetching \cup {"release", "generate"}
Locations == Holding \cup
    {"idle", "acquire", "markSuccess", "markMessage", "markFailure",
     "markFailureTwice", "markAgain", "done", "failed"}

\* Where a check that raises leaves the thread.
Raised(p) == IF p \in Requests THEN "release" ELSE "done"

\* A re-login logs in, applies its tokens and promotes the account, or condemns it in
\* up to two sections; so does the handler of an exception.
ReloginStages == {"none", "login", "promote", "mark", "handler", "handlerMark"}

\* An exception leads out of the try to its handler, out of the handler to the end.
Thrown(stage) == IF stage \in {"handler", "handlerMark"} THEN "none" ELSE "handler"

-----------------------------------------------------------------------------
(* Accounts and token resolution.                                          *)

Statuses == {"normal", "limited", "abnormal", "disabled"}

Account   == [status : Statuses, quota : 0 .. MaxQuota]
NoAccount == [status |-> "none", quota |-> 0]

InPool(t)    == accounts[t] # NoAccount
Available(a) == a.status = "normal" /\ a.quota > 0

\* The loop of _resolve_access_token_locked moves on from a token that has no
\* account and has a successor; Resolve is where it stops.
Moves(t)   == ~InPool(t) /\ aliases[t] # NoToken
Follows(S) == \A u \in S : Moves(u) => aliases[u] \in S
Chain(t)   == {u \in Tokens : \A S \in SUBSET Tokens :
                                  (t \in S /\ Follows(S)) => u \in S}
Resolve(t) == IF Moves(t) /\ \E u \in Chain(t) : ~Moves(u)
              THEN CHOOSE u \in Chain(t) : ~Moves(u)
              ELSE t

-----------------------------------------------------------------------------
(* Operations on the pool: what each locked section does to the accounts   *)
(* in memory.  The actions compose them with the save that follows.        *)

\* What is left of a JSON file when its write fails half-way: it loads as no accounts.
LostStore == [t \in Tokens |-> NoAccount]

Raises(save) == IF save \in SaveFaults THEN BOOLEAN ELSE {FALSE}

\* _save_accounts writes every account to the storage backend.  When it raises, the
\* change stays in memory and the exception leaves the section.
SaveAccounts(raised) ==
    /\ unsaved' = raised
    /\ \/ ~raised /\ store' = accounts'
       \/ raised  /\ store' \in {store, LostStore}

\* Mutant of Save: the change is never written.
SaveOmitted(t, raised) == ~raised /\ UNCHANGED <<store, unsaved>>

\* An operation that finds no account saves nothing.
Save(t, raised) ==
    IF InPool(Resolve(t)) THEN SaveAccounts(raised)
                          ELSE ~raised /\ UNCHANGED <<store, unsaved>>

Put(t, a) == accounts' = [accounts EXCEPT ![t] = a]

\* Mutants of ReleaseSlot: the token the thread holds is not resolved.
ReleaseSlotUnresolved(t) ==
    inflight' = [inflight EXCEPT ![t] = IF @ <= 1 THEN 0 ELSE @ - 1]
ReleaseSlotUnchecked(t) == inflight' = [inflight EXCEPT ![t] = @ - 1]

\* release_image_slot: a counter at 1 or below is dropped, the others go down by one.
ReleaseSlot(t) ==
    inflight' = [inflight EXCEPT ![Resolve(t)] = IF @ <= 1 THEN 0 ELSE @ - 1]

\* Mutant of UpdateAccount: the account is written under the caller's token.
UpdateAccountUnresolved(t, a) ==
    IF InPool(Resolve(t)) THEN Put(t, a) ELSE UNCHANGED accounts

\* update_account: an account that becomes limited may be removed instead; its
\* counter and the aliases to it stay.
UpdateAccount(t, a) ==
    IF InPool(Resolve(t))
    THEN Put(Resolve(t), IF a.status = "limited" /\ AutoRemoveLimited
                         THEN NoAccount ELSE a)
    ELSE UNCHANGED accounts

\* Mutant of DeleteAccount: the counter outlives the account.
DeleteAccountOnly(t) ==
    LET target == Resolve(t) IN
    /\ Put(target, NoAccount)
    /\ aliases' = [u \in Tokens |-> IF u = target \/ aliases[u] = target
                                    THEN NoToken ELSE aliases[u]]
    /\ UNCHANGED inflight

\* delete_accounts of one token: the account, its counter and every alias that
\* touches it go.
DeleteAccount(t) ==
    LET target == Resolve(t) IN
    /\ Put(target, NoAccount)
    /\ inflight' = [inflight EXCEPT ![target] = 0]
    /\ aliases' = [u \in Tokens |-> IF u = target \/ aliases[u] = target
                                    THEN NoToken ELSE aliases[u]]

\* remove_invalid_token: the account is deleted, or marked abnormal with no quota.
\* When there was nothing to delete, a second section marks it (MarkInvalid).
MarkInvalidToken(t) ==
    /\ UpdateAccount(t, [status |-> "abnormal", quota |-> 0])
    /\ UNCHANGED <<inflight, aliases>>

RemoveInvalidToken(t) ==
    IF AutoRemoveInvalid THEN DeleteAccount(t) ELSE MarkInvalidToken(t)

RemovedNothing(t) == AutoRemoveInvalid /\ ~InPool(Resolve(t))

\* Mutant of ApplyRefreshedTokens: no alias is left for those who hold the replaced
\* token.
ApplyRefreshedTokensUnaliased(t, new) ==
    LET old == Resolve(t) IN
    IF ~InPool(old)
    THEN UNCHANGED <<accounts, inflight, aliases, issued>>
    ELSE /\ accounts' = [accounts EXCEPT ![old] = NoAccount, ![new] = accounts[old]]
         /\ inflight' = IF new = old THEN inflight
                        ELSE [inflight EXCEPT ![old] = 0, ![new] = @ + inflight[old]]
         /\ issued' = issued \cup {new}
         /\ UNCHANGED aliases

\* _apply_refreshed_tokens: under a new token the account, the images it is
\* generating and an alias from the replaced token appear in one section.
ApplyRefreshedTokens(t, new) ==
    LET old == Resolve(t) IN
    IF ~InPool(old)
    THEN UNCHANGED <<accounts, inflight, aliases, issued>>
    ELSE /\ accounts' = [accounts EXCEPT ![old] = NoAccount,
                                         ![new] = accounts[old]]
         /\ IF new = old
            THEN UNCHANGED <<inflight, aliases>>
            ELSE /\ aliases'  = [aliases EXCEPT ![old] = new]
                 /\ inflight' = [inflight EXCEPT ![old] = 0,
                                                 ![new] = @ + inflight[old]]
         /\ issued' = issued \cup {new}

\* What _apply_refreshed_tokens returns.
AppliedToken(t, new) == IF InPool(Resolve(t)) THEN new ELSE Resolve(t)

\* The upstream mints a token nobody has seen, or answers without a new one.
MintedTokens(t) == (Tokens \ issued) \cup {Resolve(t)}

-----------------------------------------------------------------------------
(* get_available_access_token: take a slot, then check the account upstream. *)

ReadyTokens(r) == {t \in Tokens : Available(accounts[t]) /\ t \notin tried[r]}
FreeTokens(r)  == {t \in ReadyTokens(r) : inflight[t] < MaxConcurrency}

\* Every attempt adds one token to `tried`, and a second one when the check
\* found the token replaced: `_attempt` lies between half its size and its size.
MayAttempt(r)  == Cardinality(tried[r]) < 2 * MaxAttempts
OutOfAttempts(r) == Cardinality(tried[r]) >= MaxAttempts

\* Which free token is taken depends on `_index % len(tokens)`: any of them.
\* With no free token the thread waits for a notification or one second and
\* looks again, which is no step.
Acquire(r) ==
    /\ pc[r] = "acquire"
    /\ MayAttempt(r)
    /\ \E t \in FreeTokens(r) :
           /\ inflight' = [inflight EXCEPT ![t] = @ + 1]
           /\ tok' = [tok EXCEPT ![r] = t]
           /\ act' = [act EXCEPT ![r] = t]
           /\ tried' = [tried EXCEPT ![r] = @ \cup {t}]
    /\ pc' = [pc EXCEPT ![r] = "preflight"]
    /\ UNCHANGED <<accounts, aliases, store, unsaved, issued, refreshing, loginVars, cur>>

\* RuntimeError("no available image quota")
AcquireFails(r) ==
    /\ pc[r] = "acquire"
    /\ OutOfAttempts(r) \/ ReadyTokens(r) = {}
    /\ pc' = [pc EXCEPT ![r] = "failed"]
    /\ tried' = [tried EXCEPT ![r] = {}]
    /\ UNCHANGED <<pool, refreshing, loginVars, tok, act, cur>>

\* The slot of an account that did not pass its check goes back.
GiveBack(r) ==
    /\ ReleaseSlot(tok[r])
    /\ pc'  = [pc EXCEPT ![r] = "acquire"]
    /\ tok' = [tok EXCEPT ![r] = NoToken]

ReleaseUnused(r) ==
    /\ pc[r] = "release"
    /\ GiveBack(r)
    /\ UNCHANGED <<accounts, aliases, store, unsaved, issued, refreshing, loginVars, act, cur, tried>>

-----------------------------------------------------------------------------
(* refresh_access_token, called before a check and again, forced, when the *)
(* upstream rejects the token.  _token_refresh_lock is held throughout.    *)

Unforced == {"preflight", "preflightNet"}
AfterRefresh(p, ret) ==
    IF pc[p] \in Unforced THEN "userInfo"
    ELSE IF ret # act[p] THEN "userInfoAgain" ELSE "condemn"

\* A thread calls it before the check, and in the check when get_user_info
\* raises InvalidAccessTokenError for the first time.
CallsRefresh(p) ==
    /\ pc[p] \in {"preflight", "userInfo"}
    /\ refreshing = NoThread

\* The account is gone, its token is still good, it has no refresh token, or
\* an unforced refresh failed a short while ago.
RefreshNotNeeded(p) ==
    LET ret == IF InPool(Resolve(act[p])) THEN Resolve(act[p]) ELSE act[p] IN
    /\ CallsRefresh(p)
    /\ pc'  = [pc EXCEPT ![p] = AfterRefresh(p, ret)]
    /\ act' = [act EXCEPT ![p] = ret]
    /\ UNCHANGED <<pool, refreshing, loginVars, tok, cur, tried>>

RefreshStart(p) ==
    /\ CallsRefresh(p)
    /\ InPool(Resolve(act[p]))
    /\ refreshing' = p
    /\ cur' = [cur EXCEPT ![p] = Resolve(act[p])]
    /\ pc'  = [pc EXCEPT ![p] = IF @ = "preflight" THEN "preflightNet" ELSE "forcedNet"]
    /\ UNCHANGED <<pool, loginVars, tok, act, tried>>

RefreshReturns(p, ret) ==
    /\ refreshing' = NoThread
    /\ pc'  = [pc EXCEPT ![p] = AfterRefresh(p, ret)]
    /\ act' = [act EXCEPT ![p] = ret]
    /\ cur' = [cur EXCEPT ![p] = NoToken]
    /\ UNCHANGED <<tok, tried>>

\* The save at the end of the refresh raised, and the check with it.
RefreshRaises(p) ==
    /\ refreshing' = NoThread
    /\ pc'  = [pc EXCEPT ![p] = Raised(p)]
    /\ act' = [act EXCEPT ![p] = NoToken]
    /\ cur' = [cur EXCEPT ![p] = NoToken]
    /\ UNCHANGED <<tok, tried>>

RefreshSucceeds(p) ==
    /\ pc[p] \in Refreshing
    /\ \E new \in MintedTokens(cur[p]), raised \in Raises("pool") :
           /\ ApplyRefreshedTokens(cur[p], new)
           /\ Save(cur[p], raised)
           /\ IF raised THEN RefreshRaises(p)
                        ELSE RefreshReturns(p, AppliedToken(cur[p], new))
    /\ UNCHANGED loginVars

\* _password_re_login_thread starts.  Nothing in the code keeps several of them
\* from running at once: MaxRelogins is a bound of the model.
SpawnRelogin(t) ==
    /\ "relogin" \in Operations
    /\ Cardinality({u \in Tokens : relogin[u] # "none"}) < MaxRelogins
    /\ relogin' = [relogin EXCEPT ![t] = "login"]
    /\ UNCHANGED fresh

\* The error is noted in the account and saved.  A terminated session starts a
\* password re-login of the account in a thread of its own.
RefreshFails(p) ==
    /\ pc[p] \in Refreshing
    /\ UNCHANGED <<accounts, inflight, aliases, issued>>
    /\ \E raised \in Raises("pool") :
           /\ Save(cur[p], raised)
           /\ IF raised
              THEN RefreshRaises(p) /\ UNCHANGED loginVars
              ELSE RefreshReturns(p, cur[p]) /\ (UNCHANGED loginVars \/ SpawnRelogin(cur[p]))

-----------------------------------------------------------------------------
(* The rest of fetch_remote_info.                                          *)

\* update_account with the answer of get_user_info, which replaces the status and
\* the quota the account had.  A request goes on with the account when it is still
\* usable.  (_record_refresh_success, in a section just before, resets the error
\* fields of the account, which are not modelled, and saves nothing.)
UpdateFromUpstream(p) ==
    LET t == Resolve(act[p]) IN
    /\ pc[p] \in {"userInfo", "userInfoAgain"}
    /\ \E q \in 0 .. MaxQuota, raised \in Raises("pool") :
           LET a      == [status |-> IF q = 0 THEN "limited" ELSE "normal", quota |-> q]
               kept   == InPool(t) /\ ~raised /\ ~(a.status = "limited" /\ AutoRemoveLimited)
               usable == kept /\ Available(a)
           IN /\ UpdateAccount(act[p], a)
              /\ Save(act[p], raised)
              /\ pc' = [pc EXCEPT ![p] = IF p \in Workers THEN "done"
                                         ELSE IF usable THEN "generate" ELSE "release"]
              /\ IF p \in Requests
                 THEN /\ tok'   = [tok EXCEPT ![p] = IF usable THEN t ELSE @]
                      /\ tried' = [tried EXCEPT ![p] = IF usable THEN {}
                                                       ELSE IF kept THEN @ \cup {t} ELSE @]
                 ELSE UNCHANGED <<tok, tried>>
    /\ act' = [act EXCEPT ![p] = NoToken]
    /\ UNCHANGED <<inflight, aliases, issued, refreshing, loginVars, cur>>

\* Mutant of UserInfoFails: the attempt is abandoned with its slot.
UserInfoFailsKeepingSlot(p) ==
    /\ pc[p] \in {"userInfo", "userInfoAgain"}
    /\ pc'  = [pc EXCEPT ![p] = IF p \in Requests THEN "acquire" ELSE "done"]
    /\ tok' = [tok EXCEPT ![p] = NoToken]
    /\ act' = [act EXCEPT ![p] = NoToken]
    /\ UNCHANGED <<pool, refreshing, loginVars, cur, tried>>

\* get_user_info raised: a request gives its slot back, a worker is done.
UserInfoFails(p) ==
    /\ pc[p] \in {"userInfo", "userInfoAgain"}
    /\ IF p \in Requests
       THEN GiveBack(p)
       ELSE /\ pc' = [pc EXCEPT ![p] = "done"]
            /\ UNCHANGED <<inflight, tok>>
    /\ act' = [act EXCEPT ![p] = NoToken]
    /\ UNCHANGED <<accounts, aliases, store, unsaved, issued, refreshing, loginVars, cur, tried>>

\* The check raises: a slot that was taken for it goes back.
CheckRaises(p) ==
    /\ pc'  = [pc EXCEPT ![p] = Raised(p)]
    /\ act' = [act EXCEPT ![p] = NoToken]

\* _record_invalid_token_seen, when the refreshed token is rejected too or there
\* is none.  It counts and saves; whether the account is to go depends on the
\* count and on times, and here is open.  An account that is gone is to go.
RecordInvalidTokenSeen(p) ==
    /\ pc[p] \in {"condemn", "userInfoAgain"}
    /\ UNCHANGED <<accounts, inflight, aliases, issued>>
    /\ \E raised \in Raises("pool") :
           /\ Save(act[p], raised)
           /\ \/ /\ ~raised
                 /\ pc' = [pc EXCEPT ![p] = "remove"]
                 /\ UNCHANGED act
              \/ InPool(Resolve(act[p])) /\ CheckRaises(p)
    /\ UNCHANGED <<refreshing, loginVars, tok, cur, tried>>

RemoveInvalid(p) ==
    /\ pc[p] = "remove"
    /\ RemoveInvalidToken(act[p])
    /\ \E raised \in Raises("pool") : Save(act[p], raised)
    /\ IF RemovedNothing(act[p])
       THEN pc' = [pc EXCEPT ![p] = "markInvalid"] /\ UNCHANGED act
       ELSE CheckRaises(p)
    /\ UNCHANGED <<issued, refreshing, loginVars, tok, cur, tried>>

\* An account that was imported in between is marked.
MarkInvalid(p) ==
    /\ pc[p] = "markInvalid"
    /\ MarkInvalidToken(act[p])
    /\ \E raised \in Raises("pool") : Save(act[p], raised)
    /\ CheckRaises(p)
    /\ UNCHANGED <<issued, refreshing, loginVars, tok, cur, tried>>

-----------------------------------------------------------------------------
(* The end of a generation: mark_image_result releases the slot in one     *)
(* section and updates the account in a second one.                        *)

\* A message, or no output at all, is marked in the try, an error in its handler.
\* With outputs but no image, _generate_single_image marks the failure in the try,
\* raises, and marks it once more in the handler ("markAgain").
MarkReleases(r) ==
    /\ pc[r] \in {"generate", "markAgain"}
    /\ ReleaseSlot(tok[r])
    /\ \E o \in IF pc[r] = "markAgain" THEN {"error"} ELSE Outcomes :
           pc' = [pc EXCEPT ![r] = CASE o = "result"  -> "markSuccess"
                                     [] o = "message" -> "markMessage"
                                     [] o = "error"   -> "markFailure"
                                     [] o = "noImage" -> "markFailureTwice"]
    /\ UNCHANGED <<accounts, aliases, store, unsaved, issued, refreshing, loginVars,
                   tok, act, cur, tried>>

\* The request is over, or its handler marks it again.
MarkEnds(r, again) ==
    IF again THEN pc' = [pc EXCEPT ![r] = "markAgain"] /\ UNCHANGED tok
             ELSE /\ pc'  = [pc EXCEPT ![r] = "done"]
                  /\ tok' = [tok EXCEPT ![r] = NoToken]

\* A success costs one image of quota; the last one makes the account limited.  When
\* its save raises, the handler marks a failure: a second release.
MarkSuccess(r) ==
    LET left == IF accounts[Resolve(tok[r])].quota = 0 THEN 0
                ELSE accounts[Resolve(tok[r])].quota - 1
        was  == accounts[Resolve(tok[r])].status
    IN /\ pc[r] = "markSuccess"
       /\ UpdateAccount(tok[r], [status |-> IF left = 0 THEN "limited"
                                            ELSE IF was = "limited" THEN "normal" ELSE was,
                                 quota  |-> left])
       /\ \E raised \in Raises("mark") : Save(tok[r], raised) /\ MarkEnds(r, raised)
       /\ UNCHANGED <<inflight, aliases, issued, refreshing, loginVars, act, cur, tried>>

\* A failure is only counted, but the account is saved and may be auto-removed.  An
\* exception in the handler leaves the request.
MarkFailure(r) ==
    /\ pc[r] \in {"markMessage", "markFailure", "markFailureTwice"}
    /\ UpdateAccount(tok[r], accounts[Resolve(tok[r])])
    /\ \E raised \in Raises("mark") :
           /\ Save(tok[r], raised)
           /\ MarkEnds(r, \/ pc[r] = "markFailureTwice"
                          \/ pc[r] = "markMessage" /\ raised)
    /\ UNCHANGED <<inflight, aliases, issued, refreshing, loginVars, act, cur, tried>>

-----------------------------------------------------------------------------
(* _password_re_login_thread, keyed by the token it was started for.       *)

ReloginGoesTo(t, stage) ==
    /\ relogin' = [relogin EXCEPT ![t] = stage]
    /\ UNCHANGED fresh

ReloginSucceeds(t) ==
    /\ relogin[t] = "login"
    /\ \E new \in MintedTokens(t), raised \in Raises("pool") :
           /\ ApplyRefreshedTokens(t, new)
           /\ Save(t, raised)
           /\ relogin' = [relogin EXCEPT ![t] = IF raised THEN Thrown(@) ELSE "promote"]
           /\ fresh' = [fresh EXCEPT ![t] = IF raised THEN NoToken ELSE AppliedToken(t, new)]
    /\ UNCHANGED <<refreshing, local>>

\* The second section: update_account(new_token, {status: normal}).
ReloginPromotes(t) ==
    /\ relogin[t] = "promote"
    /\ UpdateAccount(fresh[t], [status |-> "normal",
                                quota  |-> accounts[Resolve(fresh[t])].quota])
    /\ \E raised \in Raises("pool") :
           /\ Save(fresh[t], raised)
           /\ relogin' = [relogin EXCEPT ![t] = IF raised THEN Thrown(@) ELSE "none"]
    /\ fresh' = [fresh EXCEPT ![t] = NoToken]
    /\ UNCHANGED <<inflight, aliases, issued>>
    /\ UNCHANGED <<refreshing, local>>

\* A deactivated account is disabled.
ReloginDisables(t) ==
    /\ relogin[t] = "login"
    /\ UpdateAccount(t, [status |-> "disabled", quota |-> 0])
    /\ \E raised \in Raises("pool") :
           /\ Save(t, raised)
           /\ ReloginGoesTo(t, IF raised THEN Thrown("login") ELSE "none")
    /\ UNCHANGED <<inflight, aliases, issued>>
    /\ UNCHANGED <<refreshing, local>>

\* _login_with_password lets the errors of its requests out.
ReloginRaises(t) ==
    /\ relogin[t] = "login"
    /\ ReloginGoesTo(t, Thrown("login"))
    /\ UNCHANGED <<pool, refreshing, local>>

\* Any other failure condemns the token, and so does the handler of an exception:
\* remove_invalid_token, with its second section.
ReloginCondemns(t) ==
    /\ relogin[t] \in {"login", "handler"}
    /\ RemoveInvalidToken(t)
    /\ \E raised \in Raises("pool") :
           /\ Save(t, raised)
           /\ ReloginGoesTo(t, IF raised THEN Thrown(relogin[t])
                               ELSE IF ~RemovedNothing(t) THEN "none"
                               ELSE IF relogin[t] = "login" THEN "mark"
                               ELSE "handlerMark")
    /\ UNCHANGED issued
    /\ UNCHANGED <<refreshing, local>>

ReloginMarks(t) ==
    /\ relogin[t] \in {"mark", "handlerMark"}
    /\ MarkInvalidToken(t)
    /\ \E raised \in Raises("pool") :
           /\ Save(t, raised)
           /\ ReloginGoesTo(t, IF raised THEN Thrown(relogin[t]) ELSE "none")
    /\ UNCHANGED issued
    /\ UNCHANGED <<refreshing, local>>

-----------------------------------------------------------------------------
(* Operators and the environment.                                          *)

Holds(r)   == pc[r] \in Holding
Holders(t) == {r \in Requests : Holds(r) /\ Resolve(tok[r]) = t}

\* _add_account_payloads, for a token that has no account (one that has is
\* edited, as in EditAccount).  A token the pool never saw is a new account; one
\* it did see comes from an export file or a list kept elsewhere.  "overlap" lets
\* such an import happen while images are being generated.
ImportAccount(t) ==
    /\ "import" \in Operations
    /\ ~InPool(t)
    /\ t \in issued => /\ "reimport" \in Operations
                       /\ "overlap" \in Operations \/ \A r \in Requests : ~Holds(r)
    /\ \E q \in {0, MaxQuota} : Put(t, [status |-> "normal", quota |-> q])
    /\ issued' = issued \cup {t}
    /\ \E raised \in Raises("pool") : SaveAccounts(raised)
    /\ UNCHANGED <<inflight, aliases, refreshing, loginVars, local>>

DeleteAccounts(t) ==
    /\ "delete" \in Operations
    /\ t \in issued
    /\ DeleteAccount(t)
    /\ \E raised \in Raises("pool") : Save(t, raised)
    /\ UNCHANGED <<issued, refreshing, loginVars, local>>

\* The account editor sets the status, the quota or both.
EditAccount(t) ==
    /\ "update" \in Operations
    /\ InPool(t)
    /\ \E a \in Account : UpdateAccount(t, a)
    /\ \E raised \in Raises("pool") : Save(t, raised)
    /\ UNCHANGED <<inflight, aliases, issued, refreshing, loginVars, local>>

\* re_login_accounts of one account.
StartRelogin(t) ==
    /\ InPool(t)
    /\ SpawnRelogin(t)
    /\ UNCHANGED <<pool, refreshing, local>>

\* refresh_accounts hands a token to a worker; an import is followed by one too.
StartJob(w) ==
    /\ pc[w] = "idle"
    /\ \E t \in {u \in Tokens : InPool(u)} : act' = [act EXCEPT ![w] = t]
    /\ pc' = [pc EXCEPT ![w] = "preflight"]
    /\ UNCHANGED <<pool, refreshing, loginVars, tok, cur, tried>>

StartRequest(r) ==
    /\ pc[r] = "idle"
    /\ pc' = [pc EXCEPT ![r] = "acquire"]
    /\ UNCHANGED <<pool, refreshing, loginVars, tok, act, cur, tried>>

\* The process dies: threads, counters and aliases are gone, the store is reread.  Where
\* saves may fail the process may also have died in the middle of one.
Restart ==
    /\ "restart" \in Operations
    /\ store' \in IF "pool" \in SaveFaults THEN {store, LostStore} ELSE {store}
    /\ accounts' = store'
    /\ unsaved' = FALSE
    /\ inflight' = [t \in Tokens |-> 0]
    /\ aliases' = [t \in Tokens |-> NoToken]
    /\ refreshing' = NoThread
    /\ relogin' = [t \in Tokens |-> "none"]
    /\ fresh' = [t \in Tokens |-> NoToken]
    /\ pc' = [p \in Threads |-> IF pc[p] \in {"idle", "done"} THEN pc[p] ELSE "failed"]
    /\ tok' = [p \in Threads |-> NoToken]
    /\ act' = [p \in Threads |-> NoToken]
    /\ cur' = [p \in Threads |-> NoToken]
    /\ tried' = [p \in Threads |-> {}]
    /\ UNCHANGED issued

-----------------------------------------------------------------------------
Init ==
    /\ accounts \in {f \in [Tokens -> {NoAccount} \cup
                                [status : {"normal"}, quota : {0, MaxQuota}]] :
                         \A t \in Tokens : f[t] # NoAccount <=> t \in InitTokens}
    /\ inflight = [t \in Tokens |-> 0]
    /\ aliases = [t \in Tokens |-> NoToken]
    /\ store = accounts
    /\ unsaved = FALSE
    /\ issued = InitTokens
    /\ refreshing = NoThread
    /\ relogin = [t \in Tokens |-> "none"]
    /\ fresh = [t \in Tokens |-> NoToken]
    /\ pc = [p \in Threads |-> "idle"]
    /\ tok = [p \in Threads |-> NoToken]
    /\ act = [p \in Threads |-> NoToken]
    /\ cur = [p \in Threads |-> NoToken]
    /\ tried = [p \in Threads |-> {}]

Fetch(p) ==
    \/ RefreshNotNeeded(p) \/ RefreshStart(p) \/ RefreshSucceeds(p) \/ RefreshFails(p)
    \/ UpdateFromUpstream(p) \/ UserInfoFails(p)
    \/ RecordInvalidTokenSeen(p) \/ RemoveInvalid(p) \/ MarkInvalid(p)

Request(r) ==
    \/ Acquire(r) \/ AcquireFails(r) \/ ReleaseUnused(r)
    \/ MarkReleases(r) \/ MarkSuccess(r) \/ MarkFailure(r)

Relogin(t) ==
    \/ ReloginSucceeds(t) \/ ReloginPromotes(t) \/ ReloginDisables(t)
    \/ ReloginRaises(t) \/ ReloginCondemns(t) \/ ReloginMarks(t)

Environment ==
    \/ \E t \in Tokens : \/ ImportAccount(t) \/ DeleteAccounts(t)
                         \/ EditAccount(t) \/ StartRelogin(t)
    \/ \E r \in Requests : StartRequest(r)
    \/ \E w \in Workers : StartJob(w)
    \/ Restart

Next ==
    \/ \E p \in Threads : Fetch(p)
    \/ \E r \in Requests : Request(r)
    \/ \E t \in Tokens : Relogin(t)
    \/ Environment

Spec == Init /\ [][Next]_vars

\* Every network call ends (each has a timeout) and the interpreter runs every
\* thread that can run; nothing is assumed of operators.
Fairness ==
    /\ \A p \in Threads : WF_vars(Fetch(p))
    /\ \A r \in Requests : WF_vars(Request(r))

FairSpec == Spec /\ Fairness

-----------------------------------------------------------------------------
PoolTypeOK ==
    /\ accounts \in [Tokens -> Account \cup {NoAccount}]
    /\ inflight \in [Tokens -> Nat]
    /\ aliases \in [Tokens -> Tokens \cup {NoToken}]
    /\ store \in [Tokens -> Account \cup {NoAccount}]
    /\ unsaved \in BOOLEAN
    /\ issued \subseteq Tokens

LockTypeOK ==
    /\ refreshing \in Threads \cup {NoThread}
    /\ relogin \in [Tokens -> ReloginStages]
    /\ fresh \in [Tokens -> Tokens \cup {NoToken}]
    /\ \A t \in Tokens : relogin[t] = "promote" => fresh[t] \in Tokens

LocalTypeOK ==
    /\ pc \in [Threads -> Locations]
    /\ tok \in [Threads -> Tokens \cup {NoToken}]
    /\ act \in [Threads -> Tokens \cup {NoToken}]
    /\ cur \in [Threads -> Tokens \cup {NoToken}]
    /\ tried \in [Threads -> SUBSET Tokens]
    /\ \A p \in Threads : /\ pc[p] \in Fetching => act[p] \in Tokens
                          /\ pc[p] \in Refreshing => cur[p] \in Tokens

\* Counters are never negative and a thread that checks an account
\* or refreshes a token has one in hand.
TypeOK == PoolTypeOK /\ LockTypeOK /\ LocalTypeOK

\* The counter of every account in the pool is the number of requests that hold
\* a slot of it, whatever token they hold it under: list_accounts shows it as the
\* number of images the account is generating.
SlotsMatchHolders ==
    \A t \in Tokens : InPool(t) => inflight[t] = Cardinality(Holders(t))

\* The counters, aliases and locks implement sets of holders that follow their
\* account: nothing is lost or counted twice on the way.
Slots == INSTANCE SlotPool WITH
             live  <- {t \in Tokens : InPool(t)},
             slots <- [t \in Tokens |-> IF InPool(t) THEN Holders(t) ELSE {}]
ImplementsSlotPool == Slots!Spec

\* A token that was replaced is out for good: no thread that still works with it
\* writes the account back under it.  Only an import may bring it back, or a restart
\* that finds the store as it was before a save that raised, the last one of all.
ReplacedTokensStayOut ==
    [][\A t \in Tokens : (aliases[t] # NoToken /\ ~InPool(t) /\ InPool(t)')
                             => ImportAccount(t) \/ (Restart /\ unsaved)]_vars

\* Every request ends with an image, a failure or "no available image quota";
\* none waits forever for a slot.
EveryRequestEnds ==
    \A r \in Requests : (pc[r] = "acquire") ~> (pc[r] \in {"done", "failed"})
=============================================================================
