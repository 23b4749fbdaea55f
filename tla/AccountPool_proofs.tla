--------------------------- MODULE AccountPool_proofs ---------------------------
(* Proofs about the account pool, for every set of tokens, requests and     *)
(* workers and every configuration.                                        *)
EXTENDS AccountPool, FiniteSetTheorems, TLAPS

\* Resolution ends at a token, or at whatever it was given.
LEMMA ResolveType ==
    ASSUME NEW t \in Tokens \cup {NoToken}
    PROVE  Resolve(t) \in Tokens \cup {NoToken}
BY DEF Resolve, Chain

LEMMA ResolveToken ==
    ASSUME NEW t \in Tokens
    PROVE  Resolve(t) \in Tokens
BY DEF Resolve, Chain

LEMMA ReleaseSlotType ==
    ASSUME PoolTypeOK, NEW t, ReleaseSlot(t)
    PROVE  inflight' \in [Tokens -> Nat]
<1> DEFINE left(n) == IF n <= 1 THEN 0 ELSE n - 1
<1>1. inflight' = [inflight EXCEPT ![Resolve(t)] = left(inflight[Resolve(t)])]
    BY DEF ReleaseSlot
<1>2. \A n \in Nat : left(n) \in Nat
    OBVIOUS
<1> HIDE DEF left
<1> QED BY <1>1, <1>2 DEF PoolTypeOK

LEMMA UpdateAccountType ==
    ASSUME PoolTypeOK, NEW t, NEW a \in Account \cup {NoAccount}, UpdateAccount(t, a)
    PROVE  accounts' \in [Tokens -> Account \cup {NoAccount}]
BY DEF PoolTypeOK, UpdateAccount, Put

\* A token that is none is in no pool to write to.
LEMMA UpdateElsewhere ==
    ASSUME PoolTypeOK, NEW t, NEW a, UpdateAccount(t, a), Resolve(t) \notin Tokens
    PROVE  accounts' = accounts
BY DEF PoolTypeOK, UpdateAccount, Put

LEMMA DeleteAccountType ==
    ASSUME PoolTypeOK, NEW t, DeleteAccount(t)
    PROVE  /\ accounts' \in [Tokens -> Account \cup {NoAccount}]
           /\ inflight' \in [Tokens -> Nat]
           /\ aliases' \in [Tokens -> Tokens \cup {NoToken}]
BY DEF PoolTypeOK, DeleteAccount, Put

LEMMA MarkInvalidTokenType ==
    ASSUME PoolTypeOK, NEW t, MarkInvalidToken(t)
    PROVE  /\ accounts' \in [Tokens -> Account \cup {NoAccount}]
           /\ UNCHANGED <<inflight, aliases>>
<1>1. [status |-> "abnormal", quota |-> 0] \in Account
    BY PoolAssumption DEF Account, Statuses
<1> QED BY <1>1, UpdateAccountType DEF MarkInvalidToken

LEMMA RemoveInvalidTokenType ==
    ASSUME PoolTypeOK, NEW t, RemoveInvalidToken(t)
    PROVE  /\ accounts' \in [Tokens -> Account \cup {NoAccount}]
           /\ inflight' \in [Tokens -> Nat]
           /\ aliases' \in [Tokens -> Tokens \cup {NoToken}]
<1>1. CASE AutoRemoveInvalid
    BY <1>1, DeleteAccountType DEF RemoveInvalidToken
<1>2. CASE ~AutoRemoveInvalid
    BY <1>2, MarkInvalidTokenType DEF RemoveInvalidToken, PoolTypeOK
<1> QED BY <1>1, <1>2

LEMMA ApplyRefreshedTokensType ==
    ASSUME PoolTypeOK, NEW t \in Tokens, NEW new \in Tokens, ApplyRefreshedTokens(t, new)
    PROVE  /\ accounts' \in [Tokens -> Account \cup {NoAccount}]
           /\ inflight' \in [Tokens -> Nat]
           /\ aliases' \in [Tokens -> Tokens \cup {NoToken}]
           /\ issued' \subseteq Tokens
BY ResolveToken DEF PoolTypeOK, ApplyRefreshedTokens, InPool

\* A save writes what the accounts are, or leaves the store as it was or empty.
LEMMA SaveAccountsType ==
    ASSUME PoolTypeOK, accounts' \in [Tokens -> Account \cup {NoAccount}],
           NEW raised \in BOOLEAN, SaveAccounts(raised)
    PROVE  store' \in [Tokens -> Account \cup {NoAccount}] /\ unsaved' \in BOOLEAN
BY DEF PoolTypeOK, SaveAccounts, LostStore

LEMMA RaisesBoolean ==
    ASSUME NEW save
    PROVE  Raises(save) \subseteq BOOLEAN
BY DEF Raises

LEMMA SaveType ==
    ASSUME PoolTypeOK, accounts' \in [Tokens -> Account \cup {NoAccount}], NEW t,
           NEW save, NEW raised \in Raises(save), Save(t, raised)
    PROVE  store' \in [Tokens -> Account \cup {NoAccount}] /\ unsaved' \in BOOLEAN
<1>1. raised \in BOOLEAN
    BY RaisesBoolean
<1> QED BY <1>1, SaveAccountsType DEF Save, PoolTypeOK

-----------------------------------------------------------------------------
(* One lemma per group of actions.                                         *)

\* A mark writes an account, or finds none.
LEMMA MarkedAccount ==
    ASSUME TypeOK, NEW r \in Requests, MarkSuccess(r) \/ MarkFailure(r)
    PROVE  \E a \in Account \cup {NoAccount} :
               /\ UpdateAccount(tok[r], a)
               /\ InPool(Resolve(tok[r])) /\ tok[r] \in Tokens => a \in Account
<1> DEFINE t == Resolve(tok[r])
<1>0. tok[r] \in Tokens \cup {NoToken}
    BY DEF TypeOK, LocalTypeOK, Threads
<1>1. CASE ~InPool(t)
    <2>1. UNCHANGED accounts
        BY <1>1 DEF MarkSuccess, MarkFailure, UpdateAccount
    <2> QED BY <1>1, <2>1 DEF UpdateAccount
<1>2. CASE InPool(t) /\ t \in Tokens
    <2>1. accounts[t] \in Account
        BY <1>2 DEF TypeOK, PoolTypeOK, InPool
    <2>2. CASE MarkFailure(r)
        BY <2>1, <2>2 DEF MarkFailure
    <2>3. CASE MarkSuccess(r)
        <3> DEFINE left == IF accounts[t].quota = 0 THEN 0 ELSE accounts[t].quota - 1
                   was == accounts[t].status
                   a == [status |-> IF left = 0 THEN "limited"
                                    ELSE IF was = "limited" THEN "normal" ELSE was,
                         quota |-> left]
        <3>1. was \in Statuses /\ accounts[t].quota \in 0 .. MaxQuota
            BY <2>1 DEF Account
        <3>2. left \in 0 .. MaxQuota
            BY <3>1, PoolAssumption
        <3>3. a \in Account
            BY <3>1, <3>2 DEF Account, Statuses
        <3>4. UpdateAccount(tok[r], a)
            BY <2>3 DEF MarkSuccess
        <3> HIDE DEF a
        <3> QED BY <3>3, <3>4
    <2> QED BY <2>2, <2>3
<1>3. CASE InPool(t) /\ t \notin Tokens
    <2>1. tok[r] \notin Tokens
        BY <1>3, ResolveToken
    <2>2. accounts' = accounts
        BY <1>3, UpdateElsewhere DEF MarkSuccess, MarkFailure, TypeOK
    <2>3. UpdateAccount(tok[r], NoAccount)
        BY <1>3, <2>2 DEF UpdateAccount, Put, TypeOK, PoolTypeOK
    <2> QED BY <2>1, <2>3
<1> QED BY <1>1, <1>2, <1>3

LEMMA RequestType ==
    ASSUME TypeOK, NEW r \in Requests, Request(r)
    PROVE  TypeOK'
<1> USE DEF TypeOK
<1>1. CASE Acquire(r)
    <2>1. PICK t \in Tokens :
              /\ inflight' = [inflight EXCEPT ![t] = @ + 1]
              /\ tok' = [tok EXCEPT ![r] = t]
              /\ act' = [act EXCEPT ![r] = t]
              /\ tried' = [tried EXCEPT ![r] = @ \cup {t}]
        BY <1>1 DEF Acquire, FreeTokens, ReadyTokens
    <2>2. /\ pc' = [pc EXCEPT ![r] = "preflight"]
          /\ UNCHANGED <<accounts, aliases, store, unsaved, issued, refreshing, relogin, fresh, cur>>
        BY <1>1 DEF Acquire, loginVars
    <2>3. PoolTypeOK' /\ LockTypeOK'
        BY <2>1, <2>2 DEF PoolTypeOK, LockTypeOK
    <2>4. LocalTypeOK'
        BY <2>1, <2>2 DEF LocalTypeOK, Threads, Locations, Holding, Fetching, Refreshing
    <2> QED BY <2>3, <2>4
<1>2. CASE AcquireFails(r)
    BY <1>2 DEF AcquireFails, PoolTypeOK, LockTypeOK, LocalTypeOK, pool, loginVars,
                Locations, Holding, Fetching, Refreshing
<1>3. CASE ReleaseUnused(r)
    BY <1>3, ReleaseSlotType
       DEF ReleaseUnused, GiveBack, loginVars, PoolTypeOK, LockTypeOK, LocalTypeOK,
           Locations, Holding, Fetching, Refreshing
<1>4. CASE MarkReleases(r)
    <2>1. PICK l \in {"markSuccess", "markMessage", "markFailure", "markFailureTwice"} :
              pc' = [pc EXCEPT ![r] = l]
        BY <1>4, PoolAssumption DEF MarkReleases
    <2>2. inflight' \in [Tokens -> Nat]
        BY <1>4, ReleaseSlotType DEF MarkReleases
    <2> QED BY <1>4, <2>1, <2>2
            DEF MarkReleases, PoolTypeOK, LockTypeOK, LocalTypeOK, loginVars,
                Locations, Holding, Fetching, Refreshing
<1>5. CASE MarkSuccess(r) \/ MarkFailure(r)
    <2>1. accounts' \in [Tokens -> Account \cup {NoAccount}]
        BY <1>5, MarkedAccount, UpdateAccountType
    <2>2. PICK raised \in Raises("mark"), again \in BOOLEAN :
              Save(tok[r], raised) /\ MarkEnds(r, again)
        BY <1>5, RaisesBoolean DEF MarkSuccess, MarkFailure
    <2>3. store' \in [Tokens -> Account \cup {NoAccount}] /\ unsaved' \in BOOLEAN
        BY <2>1, <2>2, SaveType
    <2>4. UNCHANGED <<inflight, aliases, issued, refreshing, relogin, fresh, act, cur, tried>>
        BY <1>5 DEF MarkSuccess, MarkFailure, loginVars
    <2>5. PoolTypeOK' /\ LockTypeOK'
        BY <2>1, <2>3, <2>4 DEF PoolTypeOK, LockTypeOK
    <2>6. LocalTypeOK'
        BY <2>2, <2>4 DEF MarkEnds, LocalTypeOK, Locations, Holding, Fetching, Refreshing
    <2> QED BY <2>5, <2>6
<1> QED BY <1>1, <1>2, <1>3, <1>4, <1>5 DEF Request

LEMMA RaisesType ==
    ASSUME LocalTypeOK, NEW p \in Threads, RefreshRaises(p)
    PROVE  LocalTypeOK'
<1>0. Raised(p) \in Locations \ Fetching
    BY DEF Raised, Locations, Holding, Fetching, Refreshing
<1>1. PICK l \in Locations \ Fetching : pc' = [pc EXCEPT ![p] = l]
    BY <1>0 DEF RefreshRaises
<1>2. pc' \in [Threads -> Locations]
    BY <1>1 DEF LocalTypeOK
<1> QED BY <1>1, <1>2 DEF RefreshRaises, LocalTypeOK, Fetching

LEMMA ReturnsType ==
    ASSUME LocalTypeOK, NEW p \in Threads, NEW t \in Tokens, RefreshReturns(p, t)
    PROVE  LocalTypeOK'
<1>0. AfterRefresh(p, t) \in Fetching \ Refreshing
    BY DEF AfterRefresh, Fetching, Refreshing
<1>1. PICK l \in Fetching \ Refreshing : pc' = [pc EXCEPT ![p] = l]
    BY <1>0 DEF RefreshReturns
<1>2. pc' \in [Threads -> Locations]
    BY <1>1 DEF LocalTypeOK, Locations, Holding
<1> QED BY <1>1, <1>2 DEF RefreshReturns, LocalTypeOK

LEMMA FetchType ==
    ASSUME TypeOK, NEW p \in Threads, Fetch(p)
    PROVE  TypeOK'
<1> USE DEF TypeOK
<1>0. act[p] \in Tokens \cup {NoToken} /\ cur[p] \in Tokens \cup {NoToken}
    BY DEF LocalTypeOK
<1>1. CASE RefreshNotNeeded(p)
    <2> DEFINE ret == IF InPool(Resolve(act[p])) THEN Resolve(act[p]) ELSE act[p]
    <2>1. act[p] \in Tokens /\ ret \in Tokens
        BY <1>1, ResolveToken
           DEF RefreshNotNeeded, CallsRefresh, LocalTypeOK, Fetching
    <2>2. /\ pc' = [pc EXCEPT ![p] = AfterRefresh(p, ret)]
          /\ act' = [act EXCEPT ![p] = ret]
          /\ UNCHANGED <<accounts, inflight, aliases, store, unsaved, issued, refreshing,
                         relogin, fresh, tok, cur, tried>>
        BY <1>1 DEF RefreshNotNeeded, pool, loginVars
    <2>3. AfterRefresh(p, ret) \in Fetching \ Refreshing
        BY DEF AfterRefresh, Fetching, Refreshing
    <2> HIDE DEF ret
    <2> QED BY <2>1, <2>2, <2>3 DEF PoolTypeOK, LockTypeOK, LocalTypeOK, Locations, Holding
<1>2. CASE RefreshStart(p)
    <2>1. act[p] \in Tokens /\ Resolve(act[p]) \in Tokens
        BY <1>2, ResolveToken DEF RefreshStart, CallsRefresh, LocalTypeOK, Fetching
    <2>2. PICK l \in Refreshing : pc' = [pc EXCEPT ![p] = l]
        BY <1>2 DEF RefreshStart, Refreshing
    <2> QED BY <1>2, <2>1, <2>2
            DEF RefreshStart, PoolTypeOK, LockTypeOK, LocalTypeOK, pool, loginVars,
                Locations, Holding, Fetching
<1>3. CASE RefreshSucceeds(p)
    <2>1. PICK new \in MintedTokens(cur[p]), raised \in Raises("pool") :
              /\ ApplyRefreshedTokens(cur[p], new)
              /\ Save(cur[p], raised)
              /\ IF raised THEN RefreshRaises(p)
                           ELSE RefreshReturns(p, AppliedToken(cur[p], new))
        BY <1>3 DEF RefreshSucceeds
    <2>2. cur[p] \in Tokens /\ Resolve(cur[p]) \in Tokens
        BY <1>3, ResolveToken DEF RefreshSucceeds, LocalTypeOK
    <2>3. new \in Tokens
        BY <2>2 DEF MintedTokens
    <2>4. AppliedToken(cur[p], new) \in Tokens
        BY <2>2, <2>3 DEF AppliedToken
    <2>5. PoolTypeOK'
        BY <2>1, <2>2, <2>3, ApplyRefreshedTokensType, SaveType DEF PoolTypeOK
    <2>6. LockTypeOK' /\ LocalTypeOK'
        <3>1. LockTypeOK'
            BY <1>3, <2>1 DEF RefreshSucceeds, RefreshRaises, RefreshReturns, LockTypeOK, loginVars
        <3>2. CASE raised
            <4>1. RefreshRaises(p)
                BY <2>1, <3>2
            <4> QED BY <3>1, <4>1, RaisesType
        <3>3. CASE ~raised
            <4>1. RefreshReturns(p, AppliedToken(cur[p], new))
                BY <2>1, <3>3
            <4> QED BY <2>4, <3>1, <4>1, ReturnsType
        <3> QED BY <3>1, <3>2, <3>3
    <2> QED BY <2>5, <2>6
<1>4. CASE RefreshFails(p)
    <2>1. PICK raised \in Raises("pool") :
              /\ Save(cur[p], raised)
              /\ IF raised
                 THEN RefreshRaises(p) /\ UNCHANGED loginVars
                 ELSE RefreshReturns(p, cur[p]) /\ (UNCHANGED loginVars \/ SpawnRelogin(cur[p]))
        BY <1>4 DEF RefreshFails
    <2>2. UNCHANGED <<accounts, inflight, aliases, issued>> /\ cur[p] \in Tokens
        BY <1>4 DEF RefreshFails, LocalTypeOK
    <2>3. accounts' \in [Tokens -> Account \cup {NoAccount}]
        BY <2>2 DEF PoolTypeOK
    <2>4. PoolTypeOK'
        BY <2>1, <2>2, <2>3, SaveType DEF PoolTypeOK
    <2>5. LockTypeOK'
        <3>1. relogin' \in [Tokens -> ReloginStages] /\ fresh' = fresh
            BY <2>1 DEF SpawnRelogin, loginVars, LockTypeOK, ReloginStages
        <3>2. \A t \in Tokens : relogin'[t] = "promote" => relogin[t] = "promote"
            BY <2>1 DEF SpawnRelogin, loginVars, LockTypeOK
        <3> QED BY <2>1, <3>1, <3>2 DEF RefreshRaises, RefreshReturns, LockTypeOK
    <2>6. LocalTypeOK'
        <3>1. CASE raised
            BY <2>1, <3>1, RaisesType
        <3>2. CASE ~raised
            BY <2>1, <2>2, <3>2, ReturnsType
        <3> QED BY <3>1, <3>2
    <2> QED BY <2>4, <2>5, <2>6
<1>5. CASE UpdateFromUpstream(p)
    <2> DEFINE t == Resolve(act[p])
               upd(q) == [status |-> IF q = 0 THEN "limited" ELSE "normal", quota |-> q]
    <2>1. t \in Tokens
        BY <1>5, ResolveToken DEF UpdateFromUpstream, LocalTypeOK, Fetching
    <2>2. \A q \in 0 .. MaxQuota : upd(q) \in Account
        BY DEF Account, Statuses
    <2>3. PICK q \in 0 .. MaxQuota, raised \in Raises("pool") :
              UpdateAccount(act[p], upd(q)) /\ Save(act[p], raised)
        BY <1>5 DEF UpdateFromUpstream
    <2>4. /\ accounts' \in [Tokens -> Account \cup {NoAccount}]
          /\ store' \in [Tokens -> Account \cup {NoAccount}] /\ unsaved' \in BOOLEAN
        BY <2>2, <2>3, UpdateAccountType, SaveType
    <2>5. LocalTypeOK'
        <3>1. pc' \in [Threads -> Locations]
            BY <1>5 DEF UpdateFromUpstream, LocalTypeOK,
                        Locations, Holding, Fetching, Refreshing
        <3>2. tok' \in [Threads -> Tokens \cup {NoToken}]
            BY <1>5, <2>1 DEF UpdateFromUpstream, LocalTypeOK
        <3>3. tried' \in [Threads -> SUBSET Tokens]
            BY <1>5, <2>1 DEF UpdateFromUpstream, LocalTypeOK
        <3>4. pc'[p] \notin Fetching /\ \A o \in Threads \ {p} : pc'[o] = pc[o]
            BY <1>5 DEF UpdateFromUpstream, LocalTypeOK, Fetching, Refreshing
        <3>5. /\ act' = [act EXCEPT ![p] = NoToken]
              /\ cur' = cur
            BY <1>5 DEF UpdateFromUpstream
        <3> QED BY <3>1, <3>2, <3>3, <3>4, <3>5 DEF LocalTypeOK, Fetching
    <2> QED BY <1>5, <2>4, <2>5 DEF UpdateFromUpstream, PoolTypeOK, LockTypeOK, loginVars
<1>6. CASE UserInfoFails(p)
    BY <1>6, ReleaseSlotType
       DEF UserInfoFails, GiveBack, loginVars, PoolTypeOK, LockTypeOK, LocalTypeOK,
           Locations, Holding, Fetching, Refreshing
<1>7. CASE RecordInvalidTokenSeen(p)
    <2>1. PICK raised \in Raises("pool") : Save(act[p], raised)
        BY <1>7 DEF RecordInvalidTokenSeen
    <2>2. accounts' \in [Tokens -> Account \cup {NoAccount}]
        BY <1>7 DEF RecordInvalidTokenSeen, PoolTypeOK
    <2>3. PoolTypeOK'
        BY <1>7, <2>1, <2>2, SaveType DEF RecordInvalidTokenSeen, PoolTypeOK
    <2> QED BY <1>7, <2>3
            DEF RecordInvalidTokenSeen, CheckRaises, Raised, LockTypeOK, LocalTypeOK, loginVars,
                Locations, Holding, Fetching, Refreshing
<1>8. CASE RemoveInvalid(p) \/ MarkInvalid(p)
    <2>1. PICK raised \in Raises("pool") : Save(act[p], raised)
        BY <1>8 DEF RemoveInvalid, MarkInvalid
    <2>2. /\ accounts' \in [Tokens -> Account \cup {NoAccount}]
          /\ inflight' \in [Tokens -> Nat]
          /\ aliases' \in [Tokens -> Tokens \cup {NoToken}]
          /\ issued' = issued
        BY <1>8, RemoveInvalidTokenType, MarkInvalidTokenType
           DEF RemoveInvalid, MarkInvalid, PoolTypeOK
    <2>3. PoolTypeOK'
        BY <2>1, <2>2, SaveType DEF PoolTypeOK
    <2> QED BY <1>8, <2>3
            DEF RemoveInvalid, MarkInvalid, CheckRaises, Raised, LockTypeOK, LocalTypeOK,
                loginVars, Locations, Holding, Fetching, Refreshing
<1> QED BY <1>1, <1>2, <1>3, <1>4, <1>5, <1>6, <1>7, <1>8 DEF Fetch

\* A stage of a re-login that is not a promotion needs no token in hand.
LEMMA StageType ==
    ASSUME LockTypeOK, NEW t \in Tokens, NEW s \in ReloginStages \ {"promote"},
           ReloginGoesTo(t, s), UNCHANGED refreshing
    PROVE  LockTypeOK'
BY DEF LockTypeOK, ReloginGoesTo

LEMMA ReloginType ==
    ASSUME TypeOK, NEW t \in Tokens, Relogin(t)
    PROVE  TypeOK'
<1> USE DEF TypeOK
<1>0. LocalTypeOK'
    BY DEF Relogin, ReloginSucceeds, ReloginPromotes, ReloginDisables, ReloginRaises,
           ReloginCondemns, ReloginMarks, local, LocalTypeOK
<1>1. CASE ReloginSucceeds(t)
    <2>1. PICK new \in MintedTokens(t), raised \in Raises("pool") :
              /\ ApplyRefreshedTokens(t, new)
              /\ Save(t, raised)
              /\ relogin' = [relogin EXCEPT ![t] = IF raised THEN Thrown(@) ELSE "promote"]
              /\ fresh' = [fresh EXCEPT ![t] = IF raised THEN NoToken ELSE AppliedToken(t, new)]
        BY <1>1 DEF ReloginSucceeds
    <2>2. new \in Tokens /\ AppliedToken(t, new) \in Tokens
        BY ResolveToken DEF MintedTokens, AppliedToken
    <2>3. PoolTypeOK'
        BY <2>1, <2>2, ApplyRefreshedTokensType, SaveType DEF PoolTypeOK
    <2>4. LockTypeOK'
        BY <1>1, <2>1, <2>2 DEF ReloginSucceeds, LockTypeOK, Thrown, ReloginStages
    <2> QED BY <1>0, <2>3, <2>4
<1>2. CASE ReloginPromotes(t)
    <2> DEFINE a == [status |-> "normal", quota |-> accounts[Resolve(fresh[t])].quota]
    <2>1. UpdateAccount(fresh[t], a) /\ fresh[t] \in Tokens
        BY <1>2 DEF ReloginPromotes, LockTypeOK
    <2>2. accounts' \in [Tokens -> Account \cup {NoAccount}]
        <3>1. CASE InPool(Resolve(fresh[t]))
            <4>1. a \in Account
                BY <2>1, <3>1, ResolveToken DEF PoolTypeOK, InPool, Account, Statuses
            <4> HIDE DEF a
            <4> QED BY <2>1, <4>1, UpdateAccountType
        <3>2. CASE ~InPool(Resolve(fresh[t]))
            BY <2>1, <3>2 DEF UpdateAccount, PoolTypeOK
        <3> QED BY <3>1, <3>2
    <2>3. PICK raised \in Raises("pool") :
              /\ Save(fresh[t], raised)
              /\ relogin' = [relogin EXCEPT ![t] = IF raised THEN Thrown(@) ELSE "none"]
        BY <1>2 DEF ReloginPromotes
    <2>4. PoolTypeOK'
        BY <1>2, <2>2, <2>3, SaveType DEF ReloginPromotes, PoolTypeOK
    <2>5. LockTypeOK'
        BY <1>2, <2>3 DEF ReloginPromotes, LockTypeOK, Thrown, ReloginStages
    <2> QED BY <1>0, <2>4, <2>5
<1>3. CASE ReloginRaises(t)
    <2>1. LockTypeOK'
        BY <1>3, StageType DEF ReloginRaises, Thrown, ReloginStages
    <2> QED BY <1>0, <1>3, <2>1 DEF ReloginRaises, pool, PoolTypeOK
<1>4. CASE ReloginDisables(t) \/ ReloginCondemns(t) \/ ReloginMarks(t)
    <2>1. PICK raised \in Raises("pool"), s \in ReloginStages \ {"promote"} :
              Save(t, raised) /\ ReloginGoesTo(t, s)
        BY <1>4 DEF ReloginDisables, ReloginCondemns, ReloginMarks, Thrown, ReloginStages
    <2>2. /\ accounts' \in [Tokens -> Account \cup {NoAccount}]
          /\ inflight' \in [Tokens -> Nat]
          /\ aliases' \in [Tokens -> Tokens \cup {NoToken}]
          /\ issued' = issued /\ refreshing' = refreshing
        <3>1. [status |-> "disabled", quota |-> 0] \in Account
            BY PoolAssumption DEF Account, Statuses
        <3> QED BY <1>4, <3>1, UpdateAccountType, RemoveInvalidTokenType, MarkInvalidTokenType
                DEF ReloginDisables, ReloginCondemns, ReloginMarks, PoolTypeOK
    <2>3. PoolTypeOK'
        BY <2>1, <2>2, SaveType DEF PoolTypeOK
    <2>4. LockTypeOK'
        BY <2>1, <2>2, StageType
    <2> QED BY <1>0, <2>3, <2>4
<1> QED BY <1>1, <1>2, <1>3, <1>4 DEF Relogin

LEMMA EnvironmentType ==
    ASSUME TypeOK, Environment
    PROVE  TypeOK'
<1> USE DEF TypeOK
<1>1. ASSUME NEW t \in Tokens, ImportAccount(t) PROVE TypeOK'
    <2>1. \A q \in {0, MaxQuota} : [status |-> "normal", quota |-> q] \in Account
        BY PoolAssumption DEF Account, Statuses
    <2>2. accounts' \in [Tokens -> Account \cup {NoAccount}]
        BY <1>1, <2>1 DEF ImportAccount, Put, PoolTypeOK
    <2>3. PICK raised \in Raises("pool") : SaveAccounts(raised)
        BY <1>1 DEF ImportAccount
    <2>4. store' \in [Tokens -> Account \cup {NoAccount}] /\ unsaved' \in BOOLEAN
        BY <2>2, <2>3, RaisesBoolean, SaveAccountsType
    <2> QED BY <1>1, <2>2, <2>4
            DEF ImportAccount, PoolTypeOK, LockTypeOK, LocalTypeOK, local, loginVars
<1>2. ASSUME NEW t \in Tokens, DeleteAccounts(t) \/ EditAccount(t) PROVE TypeOK'
    <2>1. PICK raised \in Raises("pool") : Save(t, raised)
        BY <1>2 DEF DeleteAccounts, EditAccount
    <2>2. /\ accounts' \in [Tokens -> Account \cup {NoAccount}]
          /\ inflight' \in [Tokens -> Nat]
          /\ aliases' \in [Tokens -> Tokens \cup {NoToken}]
          /\ issued' = issued
        BY <1>2, DeleteAccountType, UpdateAccountType DEF DeleteAccounts, EditAccount, PoolTypeOK
    <2>3. PoolTypeOK'
        BY <2>1, <2>2, SaveType DEF PoolTypeOK
    <2> QED BY <1>2, <2>3
            DEF DeleteAccounts, EditAccount, LockTypeOK, LocalTypeOK, local, loginVars
<1>4. ASSUME NEW t \in Tokens, StartRelogin(t) PROVE TypeOK'
    <2>1. LockTypeOK'
        BY <1>4 DEF StartRelogin, SpawnRelogin, LockTypeOK, ReloginStages
    <2> QED BY <1>4, <2>1 DEF StartRelogin, PoolTypeOK, LocalTypeOK, local, pool
<1>5. ASSUME NEW r \in Requests, StartRequest(r) PROVE TypeOK'
    BY <1>5 DEF StartRequest, PoolTypeOK, LockTypeOK, LocalTypeOK, pool, loginVars,
                Locations, Holding, Fetching, Refreshing
<1>6. ASSUME NEW w \in Workers, StartJob(w) PROVE TypeOK'
    <2>1. PICK t \in Tokens : act' = [act EXCEPT ![w] = t]
        BY <1>6 DEF StartJob
    <2>2. w \in Threads /\ pc' = [pc EXCEPT ![w] = "preflight"]
          /\ UNCHANGED <<pool, refreshing, loginVars, tok, cur, tried>>
        BY <1>6 DEF StartJob, Threads
    <2>3. "preflight" \in Locations \ Refreshing
        BY DEF Locations, Holding, Fetching, Refreshing
    <2>4. LocalTypeOK'
        BY <2>1, <2>2, <2>3 DEF LocalTypeOK
    <2> QED BY <2>2, <2>4 DEF PoolTypeOK, LockTypeOK, pool, loginVars
<1>7. CASE Restart
    <2>1. PoolTypeOK' /\ LockTypeOK'
        BY <1>7 DEF Restart, LostStore, PoolTypeOK, LockTypeOK, ReloginStages
    <2>2. \A p \in Threads : pc'[p] \in {"idle", "done", "failed"}
        BY <1>7 DEF Restart
    <2>3. LocalTypeOK'
        BY <1>7, <2>2 DEF Restart, LocalTypeOK, Locations, Holding, Fetching, Refreshing
    <2> QED BY <2>1, <2>3
<1> QED BY <1>1, <1>2, <1>4, <1>5, <1>6, <1>7 DEF Environment

-----------------------------------------------------------------------------
\* In every reachable state counters are natural numbers and no thread checks or
\* refreshes an account without a token in hand, whatever the pool, the requests
\* and the configuration.
THEOREM PoolTypeCorrect == Spec => []TypeOK
<1>1. Init => TypeOK
    <2> SUFFICES ASSUME Init PROVE TypeOK
        OBVIOUS
    <2>1. accounts \in [Tokens -> Account \cup {NoAccount}]
        BY PoolAssumption DEF Init, Account, Statuses
    <2>2. PoolTypeOK /\ LockTypeOK
        BY <2>1, PoolAssumption DEF Init, PoolTypeOK, LockTypeOK, ReloginStages
    <2>3. LocalTypeOK
        BY DEF Init, LocalTypeOK, Locations, Holding, Fetching, Refreshing
    <2> QED BY <2>2, <2>3 DEF TypeOK
<1>2. TypeOK /\ [Next]_vars => TypeOK'
    <2> SUFFICES ASSUME TypeOK, [Next]_vars PROVE TypeOK'
        OBVIOUS
    <2>1. ASSUME NEW p \in Threads, Fetch(p) PROVE TypeOK'
        BY <2>1, FetchType
    <2>2. ASSUME NEW r \in Requests, Request(r) PROVE TypeOK'
        BY <2>2, RequestType
    <2>3. ASSUME NEW t \in Tokens, Relogin(t) PROVE TypeOK'
        BY <2>3, ReloginType
    <2>4. CASE Environment
        BY <2>4, EnvironmentType
    <2>5. CASE UNCHANGED vars
        BY <2>5 DEF vars, pool, local, loginVars, TypeOK, PoolTypeOK, LockTypeOK, LocalTypeOK
    <2> QED BY <2>1, <2>2, <2>3, <2>4, <2>5 DEF Next
<1> QED BY <1>1, <1>2, PTL DEF Spec

-----------------------------------------------------------------------------
(* The store.                                                              *)

\* The store is behind the pool only while the last save is one that raised.
SavedOrKnown == ~unsaved => store = accounts

LEMMA SaveAccountsKeeps ==
    ASSUME NEW raised, SaveAccounts(raised)
    PROVE  SavedOrKnown'
BY DEF SaveAccounts, SavedOrKnown

\* An operation that found no account changed none.
LEMMA SaveKeeps ==
    ASSUME SavedOrKnown, NEW t, NEW raised, Save(t, raised),
           ~InPool(Resolve(t)) => UNCHANGED accounts
    PROVE  SavedOrKnown'
BY SaveAccountsKeeps DEF Save, SavedOrKnown

LEMMA DeleteFinds ==
    ASSUME PoolTypeOK, NEW t, DeleteAccount(t), ~InPool(Resolve(t))
    PROVE  UNCHANGED accounts
BY DEF DeleteAccount, Put, PoolTypeOK, InPool

LEMMA RemoveFinds ==
    ASSUME PoolTypeOK, NEW t, RemoveInvalidToken(t) \/ MarkInvalidToken(t), ~InPool(Resolve(t))
    PROVE  UNCHANGED accounts
BY DeleteFinds DEF RemoveInvalidToken, MarkInvalidToken, UpdateAccount

\* Whatever the threads, operators and restarts do and in whatever order, a restart
\* finds what the pool holds unless the last save of the accounts raised.
LEMMA StoreKnown == Spec => []SavedOrKnown
<1>1. Init => SavedOrKnown
    BY DEF Init, SavedOrKnown
<1>2. TypeOK /\ SavedOrKnown /\ [Next]_vars => SavedOrKnown'
    <2> SUFFICES ASSUME TypeOK, SavedOrKnown, [Next]_vars PROVE SavedOrKnown'
        OBVIOUS
    <2>0. UNCHANGED <<accounts, store, unsaved>> => SavedOrKnown'
        BY DEF SavedOrKnown
    <2>1. ASSUME NEW p \in Threads, Fetch(p) PROVE SavedOrKnown'
        <3>1. CASE RefreshSucceeds(p)
            BY <3>1, SaveKeeps DEF RefreshSucceeds, ApplyRefreshedTokens
        <3>2. CASE UpdateFromUpstream(p)
            BY <3>2, SaveKeeps DEF UpdateFromUpstream, UpdateAccount
        <3>3. CASE RemoveInvalid(p) \/ MarkInvalid(p)
            BY <3>3, SaveKeeps, RemoveFinds DEF RemoveInvalid, MarkInvalid, TypeOK
        <3>4. CASE RefreshFails(p) \/ RecordInvalidTokenSeen(p)
            BY <3>4, SaveKeeps DEF RefreshFails, RecordInvalidTokenSeen
        <3>5. CASE RefreshNotNeeded(p) \/ RefreshStart(p) \/ UserInfoFails(p)
            BY <2>0, <3>5 DEF RefreshNotNeeded, RefreshStart, UserInfoFails, pool
        <3> QED BY <2>1, <3>1, <3>2, <3>3, <3>4, <3>5 DEF Fetch
    <2>2. ASSUME NEW r \in Requests, Request(r) PROVE SavedOrKnown'
        <3>1. CASE MarkSuccess(r) \/ MarkFailure(r)
            BY <3>1, SaveKeeps DEF MarkSuccess, MarkFailure, UpdateAccount
        <3>2. CASE Acquire(r) \/ AcquireFails(r) \/ ReleaseUnused(r) \/ MarkReleases(r)
            BY <2>0, <3>2 DEF Acquire, AcquireFails, ReleaseUnused, MarkReleases, pool
        <3> QED BY <2>2, <3>1, <3>2 DEF Request
    <2>3. ASSUME NEW t \in Tokens, Relogin(t) PROVE SavedOrKnown'
        <3>1. CASE ReloginSucceeds(t)
            BY <3>1, SaveKeeps DEF ReloginSucceeds, ApplyRefreshedTokens
        <3>2. CASE ReloginPromotes(t) \/ ReloginDisables(t)
            BY <3>2, SaveKeeps DEF ReloginPromotes, ReloginDisables, UpdateAccount
        <3>3. CASE ReloginCondemns(t) \/ ReloginMarks(t)
            BY <3>3, SaveKeeps, RemoveFinds DEF ReloginCondemns, ReloginMarks, TypeOK
        <3>4. CASE ReloginRaises(t)
            BY <2>0, <3>4 DEF ReloginRaises, pool
        <3> QED BY <2>3, <3>1, <3>2, <3>3, <3>4 DEF Relogin
    <2>4. CASE Environment
        <3>1. ASSUME NEW t \in Tokens, DeleteAccounts(t) PROVE SavedOrKnown'
            BY <3>1, SaveKeeps, DeleteFinds DEF DeleteAccounts, TypeOK
        <3>2. ASSUME NEW t \in Tokens, EditAccount(t) PROVE SavedOrKnown'
            BY <3>2, SaveKeeps DEF EditAccount, UpdateAccount
        <3>3. ASSUME NEW t \in Tokens, ImportAccount(t) PROVE SavedOrKnown'
            BY <3>3, SaveAccountsKeeps DEF ImportAccount
        <3>4. ASSUME NEW p \in Threads, StartRequest(p) \/ StartJob(p) PROVE SavedOrKnown'
            BY <2>0, <3>4 DEF StartRequest, StartJob, pool
        <3>5. ASSUME NEW t \in Tokens, StartRelogin(t) PROVE SavedOrKnown'
            BY <2>0, <3>5 DEF StartRelogin, pool
        <3>6. CASE Restart
            BY <3>6 DEF Restart, SavedOrKnown
        <3> QED BY <2>4, <3>1, <3>2, <3>3, <3>4, <3>5, <3>6 DEF Environment, Threads
    <2>5. CASE UNCHANGED vars
        BY <2>0, <2>5 DEF vars, pool
    <2> QED BY <2>1, <2>2, <2>3, <2>4, <2>5 DEF Next
<1> QED BY <1>1, <1>2, PoolTypeCorrect, PTL DEF Spec
=============================================================================
