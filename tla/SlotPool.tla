------------------------------- MODULE SlotPool -------------------------------
(***************************************************************************)
(* What the account pool promises about slots, with no counters, aliases   *)
(* or locks: each account of the pool has a set of requests that generate   *)
(* an image with it, never more than MaxConcurrency, and the set follows   *)
(* the account when its access token is replaced.  AccountPool implements  *)
(* it (services/account_service.py keeps a number per token instead).      *)
(***************************************************************************)
EXTENDS Naturals, FiniteSets

CONSTANTS
    Tokens,         \* access tokens
    Requests,       \* image requests
    MaxConcurrency  \* config.image_account_concurrency, a natural number

VARIABLES
    live,   \* the tokens of the accounts in the pool
    slots   \* slots[t]: the requests that generate with the account of token t

vars == <<live, slots>>

Busy == UNION {slots[t] : t \in live}

Init ==
    /\ live \in SUBSET Tokens
    /\ slots = [t \in Tokens |-> {}]

\* _acquire_next_candidate_token takes a slot of an account that has one free.
Grant(r, t) ==
    /\ t \in live
    /\ r \notin Busy
    /\ Cardinality(slots[t]) < MaxConcurrency
    /\ slots' = [slots EXCEPT ![t] = @ \cup {r}]
    /\ UNCHANGED live

\* release_image_slot gives back the slot of the request, and no other.
Release(r, t) ==
    /\ t \in live
    /\ r \in slots[t]
    /\ slots' = [slots EXCEPT ![t] = @ \ {r}]
    /\ UNCHANGED live

\* _apply_refreshed_tokens puts the account under a new token, with its slots.
Replace(old, new) ==
    /\ old \in live
    /\ new \notin live
    /\ live'  = (live \ {old}) \cup {new}
    /\ slots' = [slots EXCEPT ![old] = {}, ![new] = slots[old]]

\* An imported account starts with all its slots free.
Admit(t) ==
    /\ t \notin live
    /\ live' = live \cup {t}
    /\ UNCHANGED slots

\* An account that leaves the pool takes its slots with it.
Drop(t) ==
    /\ t \in live
    /\ live'  = live \ {t}
    /\ slots' = [slots EXCEPT ![t] = {}]

\* After a restart the accounts are those of the store and nobody holds a slot.
Crash ==
    /\ live' \in SUBSET Tokens
    /\ slots' = [t \in Tokens |-> {}]

Next ==
    \/ \E r \in Requests, t \in Tokens : Grant(r, t) \/ Release(r, t)
    \/ \E old, new \in Tokens : Replace(old, new)
    \/ \E t \in Tokens : Admit(t) \/ Drop(t)
    \/ Crash

Spec == Init /\ [][Next]_vars

TypeOK ==
    /\ live \in SUBSET Tokens
    /\ slots \in [Tokens -> SUBSET Requests]

\* No account generates more images at once than image_account_concurrency.
SlotBound == \A t \in Tokens : Cardinality(slots[t]) <= MaxConcurrency

\* A request holds a slot of one account at most, and only of accounts that are
\* still there: no slot outlives its account or is counted twice.
OneSlotEach ==
    /\ \A t \in Tokens : slots[t] # {} => t \in live
    /\ \A t, u \in Tokens : t # u => slots[t] \cap slots[u] = {}
=============================================================================
