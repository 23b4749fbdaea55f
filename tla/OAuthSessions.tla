----------------------------- MODULE OAuthSessions -----------------------------
(***************************************************************************)
(* The sessions of the manual OAuth login (services/                       *)
(* oauth_login_service.py): an operator opens an authorization page, logs  *)
(* in, and pastes what the browser was sent back; the code in it is        *)
(* exchanged with the verifier of the session it was made for.  Several    *)
(* pages may be open, so what is pasted need not belong to the session the *)
(* console asks about.                                                     *)
(*                                                                         *)
(* A session stands for its verifier and its state, and is numbered by the *)
(* order of its creation, that is by created_at.                           *)
(***************************************************************************)
EXTENDS Naturals, FiniteSets

CONSTANTS
    Finishers,   \* requests that finish a login
    MaxSessions, \* _MAX_SESSIONS
    MaxLogins    \* bound: logins that are started

ASSUME OAuthAssumption == MaxSessions \in Nat \ {0} /\ MaxLogins \in Nat

VARIABLES
    logins,    \* how many were started
    sessions,  \* _sessions
    expired,   \* sessions older than _SESSION_TTL_SECONDS
    finisher   \* each request: where it is, the session its code was made for, whether
               \* the whole URL was pasted, and the session it picked

oauthVars == <<logins, sessions, expired, finisher>>

NoSession == 0
Waiting   == [pc |-> "idle", code |-> NoSession, whole |-> FALSE, picked |-> NoSession]

\* _purge_expired_locked: the expired ones, and the oldest beyond the capacity.
Purged ==
    LET kept == sessions \ expired
    IN {s \in kept : Cardinality({t \in kept : t > s}) < MaxSessions}

\* start: the capacity is kept before the new one comes.
StartLogin ==
    /\ logins < MaxLogins
    /\ logins' = logins + 1
    /\ sessions' = Purged \cup {logins + 1}
    /\ UNCHANGED <<expired, finisher>>

SessionAges(s) ==
    /\ s \notin expired /\ \A t \in 1 .. s - 1 : t \in expired
    /\ expired' = expired \cup {s}
    /\ UNCHANGED <<logins, sessions, finisher>>

\* The session in the state of the URL comes before the one of the console.
Pick(code, whole, body) ==
    IF whole /\ code \in Purged THEN code
    ELSE IF body \in Purged THEN body ELSE NoSession

\* The pasted state must be the one of the session that was picked; the mutant does not
\* look.
StateUnchecked(code, whole, picked) == TRUE
StateMatches(code, whole, picked) == whole => code = picked

Finish(f) ==
    /\ finisher[f].pc = "idle" /\ finisher[f].code = NoSession
    /\ \E code \in 1 .. logins, whole \in BOOLEAN, body \in 0 .. logins :
          LET picked == Pick(code, whole, body) IN
          /\ whole \/ body # NoSession
          /\ finisher' = [finisher EXCEPT ![f] =
                [pc |-> IF picked = NoSession \/ ~StateMatches(code, whole, picked)
                        THEN "refused" ELSE "exchanging",
                 code |-> code, whole |-> whole, picked |-> picked]]
    /\ sessions' = Purged
    /\ UNCHANGED <<logins, expired>>

\* The provider takes a code once, with the verifier it was made for.
Spent(code) == \E f \in Finishers : finisher[f].code = code /\ finisher[f].pc = "granted"

\* Tokens came: only now the session is over.
Granted(f) ==
    /\ finisher[f].pc = "exchanging" /\ finisher[f].picked = finisher[f].code
    /\ ~Spent(finisher[f].code)
    /\ finisher' = [finisher EXCEPT ![f].pc = "granted"]
    /\ UNCHANGED <<logins, sessions, expired>>

Consume(f) ==
    /\ finisher[f].pc = "granted" /\ finisher[f].picked \in sessions
    /\ sessions' = sessions \ {finisher[f].picked}
    /\ UNCHANGED <<logins, expired, finisher>>

\* The exchange failed, and the operator may try again.
NotGranted(f) ==
    /\ finisher[f].pc = "exchanging"
    /\ finisher' = [finisher EXCEPT ![f] = Waiting]
    /\ UNCHANGED <<logins, sessions, expired>>

Refused(f) ==
    /\ finisher[f].pc = "refused"
    /\ finisher' = [finisher EXCEPT ![f] = Waiting]
    /\ UNCHANGED <<logins, sessions, expired>>

-----------------------------------------------------------------------------
OAuthInit ==
    /\ logins = 0 /\ sessions = {} /\ expired = {}
    /\ finisher = [f \in Finishers |-> Waiting]

OAuthNext ==
    \/ StartLogin
    \/ \E s \in 1 .. logins : SessionAges(s)
    \/ \E f \in Finishers :
          Finish(f) \/ Granted(f) \/ Consume(f) \/ NotGranted(f) \/ Refused(f)

OAuthSpec == OAuthInit /\ [][OAuthNext]_oauthVars

-----------------------------------------------------------------------------
\* Of a pasted URL the code goes to the provider with the verifier of the login it came
\* from, whichever page the console shows and whatever was purged; and as long as it is
\* young and among the newest MaxSessions a login can be finished until it was, failed
\* attempts or not.
LoginsApart ==
    /\ \A f \in Finishers :
           (finisher[f].pc = "exchanging" /\ finisher[f].whole)
               => finisher[f].picked = finisher[f].code
    /\ \A s \in 1 .. logins :
           (s \notin expired /\ s + MaxSessions > logins)
               => s \in sessions \/ Spent(s)
    /\ Cardinality(sessions) <= MaxSessions + 1
=============================================================================
