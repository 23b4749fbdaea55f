---------------------------- MODULE SlotPool_proofs ----------------------------
(* Proofs about the abstract slot pool, for every pool size and limit.     *)
EXTENDS SlotPool, FiniteSetTheorems, TLAPS

\* The specification of slots is type correct: no step puts anything but a
\* request into a slot, or anything but a token into the pool.
THEOREM SlotTypeCorrect == Spec => []TypeOK
<1>1. Init => TypeOK
    BY DEF Init, TypeOK
<1>2. TypeOK /\ [Next]_vars => TypeOK'
    BY DEF TypeOK, Next, vars, Grant, Release, Replace, Admit, Drop, Crash
<1> QED BY <1>1, <1>2, PTL DEF Spec

\* Slots are granted one at a time, so there are finitely many of each account even
\* if there are infinitely many requests.
SlotsFinite == \A t \in Tokens : IsFiniteSet(slots[t])

\* The inductive strengthening: besides the bound, slots belong to accounts of
\* the pool only, no request is counted in two of them, and they can be counted.
SlotInv == TypeOK /\ SlotsFinite /\ SlotBound /\ OneSlotEach

LEMMA SlotsCounted ==
    ASSUME SlotInv, NEW t \in Tokens
    PROVE  IsFiniteSet(slots[t]) /\ Cardinality(slots[t]) \in Nat
BY FS_CardinalityType DEF SlotInv, SlotsFinite

\* No step adds more than one request to a slot set.
LEMMA SlotsStayFinite ==
    ASSUME TypeOK, SlotsFinite, [Next]_vars
    PROVE  SlotsFinite'
<1>1. ASSUME NEW r \in Requests, NEW t \in Tokens, Grant(r, t) PROVE SlotsFinite'
    BY <1>1, FS_AddElement DEF Grant, TypeOK, SlotsFinite
<1>2. ASSUME NEW r \in Requests, NEW t \in Tokens, Release(r, t) PROVE SlotsFinite'
    BY <1>2, FS_RemoveElement DEF Release, TypeOK, SlotsFinite
<1>3. ASSUME NEW old \in Tokens, NEW new \in Tokens, Replace(old, new) PROVE SlotsFinite'
    BY <1>3, FS_EmptySet DEF Replace, TypeOK, SlotsFinite
<1>4. ASSUME NEW t \in Tokens, Admit(t) \/ Drop(t) PROVE SlotsFinite'
    BY <1>4, FS_EmptySet DEF Admit, Drop, TypeOK, SlotsFinite
<1>5. CASE Crash \/ UNCHANGED vars
    BY <1>5, FS_EmptySet DEF Crash, vars, SlotsFinite
<1> QED BY <1>1, <1>2, <1>3, <1>4, <1>5 DEF Next

\* Granting keeps the bound because the limit is checked in the same step.
LEMMA GrantKeepsInv ==
    ASSUME MaxConcurrency \in Nat, SlotInv, NEW r \in Requests, NEW t \in Tokens, Grant(r, t)
    PROVE  SlotBound' /\ OneSlotEach'
<1>1. slots' = [slots EXCEPT ![t] = @ \cup {r}] /\ live' = live
    BY DEF Grant
<1>2. Cardinality(slots[t] \cup {r}) <= MaxConcurrency
    <2>1. r \notin slots[t]
        BY DEF Grant, Busy
    <2>2. Cardinality(slots[t] \cup {r}) = Cardinality(slots[t]) + 1
        BY <2>1, SlotsCounted, FS_AddElement
    <2>3. Cardinality(slots[t]) < MaxConcurrency /\ Cardinality(slots[t]) \in Nat
        BY SlotsCounted DEF Grant
    <2> QED BY <2>2, <2>3
<1>3. SlotBound'
    BY <1>1, <1>2 DEF SlotInv, TypeOK, SlotBound
<1>4. \A u \in Tokens : r \notin slots[u]
    BY DEF Grant, Busy, SlotInv, OneSlotEach
<1>5. OneSlotEach'
    BY <1>1, <1>4 DEF Grant, SlotInv, TypeOK, OneSlotEach
<1> QED BY <1>3, <1>5

\* A slot given back can only lower a count.
LEMMA ReleaseKeepsInv ==
    ASSUME MaxConcurrency \in Nat, SlotInv, NEW r \in Requests, NEW t \in Tokens, Release(r, t)
    PROVE  SlotBound' /\ OneSlotEach'
<1>1. slots' = [slots EXCEPT ![t] = @ \ {r}] /\ live' = live
    BY DEF Release
<1>2. Cardinality(slots[t] \ {r}) <= MaxConcurrency
    <2>1. Cardinality(slots[t] \ {r}) <= Cardinality(slots[t])
        BY SlotsCounted, FS_Subset
    <2>2. Cardinality(slots[t] \ {r}) \in Nat
        BY SlotsCounted, FS_Subset, FS_CardinalityType
    <2> QED BY <2>1, <2>2, SlotsCounted DEF SlotInv, SlotBound
<1>3. SlotBound'
    BY <1>1, <1>2 DEF SlotInv, TypeOK, SlotBound
<1>4. OneSlotEach'
    BY <1>1 DEF Release, SlotInv, TypeOK, OneSlotEach
<1> QED BY <1>3, <1>4

\* Replacing a token moves a set of holders as a whole to an empty place.
LEMMA ReplaceKeepsInv ==
    ASSUME MaxConcurrency \in Nat, SlotInv, NEW old \in Tokens, NEW new \in Tokens, Replace(old, new)
    PROVE  SlotBound' /\ OneSlotEach'
<1>1. /\ slots' = [slots EXCEPT ![old] = {}, ![new] = slots[old]]
      /\ live' = (live \ {old}) \cup {new}
      /\ old # new
    BY DEF Replace
<1>2. slots[new] = {}
    BY DEF Replace, SlotInv, OneSlotEach
<1>3. SlotBound'
    <2>1. Cardinality({}) <= MaxConcurrency
        BY FS_EmptySet
    <2>2. \A t \in Tokens : slots'[t] \in {{}, slots[t], slots[old]}
        BY <1>1 DEF SlotInv, TypeOK
    <2> QED BY <2>1, <2>2 DEF SlotInv, SlotBound
<1>4. OneSlotEach'
    BY <1>1, <1>2 DEF Replace, SlotInv, TypeOK, OneSlotEach
<1> QED BY <1>3, <1>4

\* The slots of an account that leaves the pool, or of a dead process, are empty.
LEMMA EmptyingKeepsInv ==
    ASSUME MaxConcurrency \in Nat, SlotInv, (\E t \in Tokens : Drop(t)) \/ Crash
    PROVE  SlotBound' /\ OneSlotEach'
<1>1. CASE Crash
    BY <1>1, FS_EmptySet DEF Crash, SlotInv, TypeOK, SlotBound, OneSlotEach
<1>2. ASSUME NEW t \in Tokens, Drop(t) PROVE SlotBound' /\ OneSlotEach'
    BY <1>2, FS_EmptySet DEF Drop, SlotInv, TypeOK, SlotBound, OneSlotEach
<1> QED BY <1>1, <1>2

LEMMA StepKeepsInv ==
    ASSUME MaxConcurrency \in Nat, SlotInv, [Next]_vars
    PROVE  SlotInv'
<1>1. TypeOK'
    BY DEF SlotInv, TypeOK, Next, vars, Grant, Release, Replace, Admit, Drop, Crash
<1>2. SlotBound' /\ OneSlotEach'
    <2>1. CASE \E r \in Requests, t \in Tokens : Grant(r, t) \/ Release(r, t)
        BY <2>1, GrantKeepsInv, ReleaseKeepsInv
    <2>2. CASE \E old, new \in Tokens : Replace(old, new)
        BY <2>2, ReplaceKeepsInv
    <2>3. CASE \E t \in Tokens : Admit(t)
        BY <2>3 DEF Admit, SlotInv, TypeOK, SlotBound, OneSlotEach
    <2>4. CASE (\E t \in Tokens : Drop(t)) \/ Crash
        BY <2>4, EmptyingKeepsInv
    <2>5. CASE UNCHANGED vars
        BY <2>5 DEF vars, SlotInv, TypeOK, SlotBound, OneSlotEach
    <2> QED BY <2>1, <2>2, <2>3, <2>4, <2>5 DEF Next
<1> QED BY <1>1, <1>2, SlotsStayFinite DEF SlotInv

LEMMA InitInv ==
    ASSUME MaxConcurrency \in Nat, Init
    PROVE  SlotInv
<1>1. TypeOK
    BY DEF Init, TypeOK
<1>2. SlotBound
    BY FS_EmptySet DEF Init, SlotBound
<1>3. OneSlotEach
    BY DEF Init, OneSlotEach
<1> QED BY <1>1, <1>2, <1>3, FS_EmptySet DEF SlotInv, SlotsFinite, Init

\* image_account_concurrency is never exceeded, whatever the number of accounts,
\* requests and slots, and however often tokens are replaced.
THEOREM SlotBoundHolds ==
    ASSUME MaxConcurrency \in Nat
    PROVE  Spec => []SlotBound
<1>1. SlotInv => SlotBound
    BY DEF SlotInv
<1>2. Init => SlotInv
    BY InitInv
<1>3. SlotInv /\ [Next]_vars => SlotInv'
    BY StepKeepsInv
<1> QED BY <1>1, <1>2, <1>3, PTL DEF Spec

\* No slot outlives its account, and no request is counted in two accounts.
THEOREM OneSlotEachHolds ==
    ASSUME MaxConcurrency \in Nat
    PROVE  Spec => []OneSlotEach
<1>1. SlotInv => OneSlotEach
    BY DEF SlotInv
<1>2. Init => SlotInv
    BY InitInv
<1>3. SlotInv /\ [Next]_vars => SlotInv'
    BY StepKeepsInv
<1> QED BY <1>1, <1>2, <1>3, PTL DEF Spec
=============================================================================
