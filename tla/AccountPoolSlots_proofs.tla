------------------------ MODULE AccountPoolSlots_proofs ------------------------
(* Proofs about the slots of the account pool.                             *)
EXTENDS AccountPool_proofs

-----------------------------------------------------------------------------
(* Chains of aliases, for any set L of tokens that have an account and any *)
(* table A of aliases: the state before a step and the state after it.     *)

MovesIn(L, A, t)  == t \notin L /\ A[t] # NoToken
ClosedIn(L, A, S) == \A u \in S : MovesIn(L, A, u) => A[u] \in S
Reach(L, A, t)    == {u \in Tokens : \A S \in SUBSET Tokens :
                                         (t \in S /\ ClosedIn(L, A, S)) => u \in S}
EndOf(L, A, t)    == CHOOSE e \in Reach(L, A, t) : ~MovesIn(L, A, e)

\* No chain of aliases runs in a circle.
ChainsEnd(L, A) == \A t \in Tokens : \E e \in Reach(L, A, t) : ~MovesIn(L, A, e)

AliasTable == [Tokens -> Tokens \cup {NoToken}]

LEMMA ReachSelf ==
    ASSUME NEW L, NEW A, NEW t \in Tokens
    PROVE  t \in Reach(L, A, t)
BY DEF Reach

LEMMA ReachWithin ==
    ASSUME NEW L, NEW A, NEW S \in SUBSET Tokens, NEW t \in S, ClosedIn(L, A, S)
    PROVE  Reach(L, A, t) \subseteq S
BY DEF Reach

LEMMA ReachClosed ==
    ASSUME NEW L, NEW A \in AliasTable, NEW t \in Tokens,
           NEW u \in Reach(L, A, t), MovesIn(L, A, u)
    PROVE  A[u] \in Reach(L, A, t)
<1>1. u \in Tokens /\ A[u] \in Tokens
    BY DEF Reach, MovesIn, AliasTable
<1>2. ASSUME NEW S \in SUBSET Tokens, t \in S, ClosedIn(L, A, S)
      PROVE  A[u] \in S
    BY <1>2 DEF Reach, ClosedIn
<1> QED BY <1>1, <1>2 DEF Reach

\* A chain has one end.
LEMMA EndUnique ==
    ASSUME NEW L, NEW A \in AliasTable, NEW t \in Tokens,
           NEW d \in Reach(L, A, t), NEW e \in Reach(L, A, t),
           ~MovesIn(L, A, d), ~MovesIn(L, A, e)
    PROVE  d = e
<1> DEFINE S == {x \in Reach(L, A, t) : d \in Reach(L, A, x)}
<1>1. S \in SUBSET Tokens /\ t \in S
    BY ReachSelf DEF Reach
<1>2. ASSUME NEW x \in S, MovesIn(L, A, x)
      PROVE  A[x] \in S
    <2>1. A[x] \in Reach(L, A, t) /\ x \in Tokens /\ A[x] \in Tokens
        BY <1>2, ReachClosed DEF Reach
    <2>2. ASSUME NEW T \in SUBSET Tokens, A[x] \in T, ClosedIn(L, A, T)
          PROVE  d \in T
        <3>1. ClosedIn(L, A, T \cup {x})
            BY <1>2, <2>2 DEF ClosedIn
        <3>2. d \in T \cup {x}
            BY <2>1, <3>1 DEF Reach
        <3> QED BY <1>2, <3>2
    <2> QED BY <2>1, <2>2 DEF Reach
<1>3. e \in S
    BY <1>1, <1>2, ReachWithin DEF ClosedIn
<1>4. Reach(L, A, e) \subseteq {e}
    <2>1. ClosedIn(L, A, {e}) /\ {e} \in SUBSET Tokens
        BY DEF ClosedIn, Reach
    <2> QED BY <2>1, ReachWithin
<1> QED BY <1>3, <1>4

LEMMA EndOfChain ==
    ASSUME NEW L, NEW A \in AliasTable, ChainsEnd(L, A), NEW t \in Tokens
    PROVE  /\ EndOf(L, A, t) \in Reach(L, A, t)
           /\ EndOf(L, A, t) \in Tokens
           /\ ~MovesIn(L, A, EndOf(L, A, t))
           /\ \A e \in Reach(L, A, t) : ~MovesIn(L, A, e) => e = EndOf(L, A, t)
<1>1. PICK e \in Reach(L, A, t) : ~MovesIn(L, A, e)
    BY DEF ChainsEnd
<1>2. EndOf(L, A, t) \in Reach(L, A, t) /\ ~MovesIn(L, A, EndOf(L, A, t))
    BY <1>1 DEF EndOf
<1> QED BY <1>2, EndUnique DEF Reach

\* A token that has an account or no alias is the end of its chain.
LEMMA EndOfItself ==
    ASSUME NEW L, NEW A \in AliasTable, ChainsEnd(L, A), NEW t \in Tokens, ~MovesIn(L, A, t)
    PROVE  EndOf(L, A, t) = t
BY ReachSelf, EndOfChain

-----------------------------------------------------------------------------
(* What becomes of the ends when accounts and aliases change.              *)

\* Same moves, same ends: status updates, new accounts without aliases.
LEMMA EndsUnmoved ==
    ASSUME NEW L, NEW M, NEW A \in AliasTable, ChainsEnd(L, A),
           \A u \in Tokens : MovesIn(M, A, u) <=> MovesIn(L, A, u)
    PROVE  ChainsEnd(M, A) /\ \A t \in Tokens : EndOf(M, A, t) = EndOf(L, A, t)
<1>1. ASSUME NEW t \in Tokens
      PROVE  /\ EndOf(L, A, t) \in Reach(M, A, t)
             /\ ~MovesIn(M, A, EndOf(L, A, t))
    <2>1. ASSUME NEW S \in SUBSET Tokens, t \in S, ClosedIn(M, A, S)
          PROVE  EndOf(L, A, t) \in S
        <3>1. ClosedIn(L, A, S)
            BY <2>1 DEF ClosedIn
        <3> QED BY <2>1, <3>1, ReachWithin, EndOfChain
    <2> QED BY <2>1, EndOfChain DEF Reach
<1>2. ChainsEnd(M, A)
    BY <1>1 DEF ChainsEnd
<1> QED BY <1>1, <1>2, EndOfChain

\* An account moves from the token old to the token new, which nothing led to.
Replacing(L, A, old, new, M, B) ==
    /\ A \in AliasTable /\ ChainsEnd(L, A)
    /\ old \in L \cap Tokens /\ new \in Tokens \ L /\ A[new] = NoToken
    /\ M = (L \ {old}) \cup {new}
    /\ B = [A EXCEPT ![old] = new]

LEMMA EndsReplaced ==
    ASSUME NEW L, NEW A, NEW old, NEW new, NEW M, NEW B, Replacing(L, A, old, new, M, B)
    PROVE  /\ ChainsEnd(M, B)
           /\ \A t \in Tokens :
                 EndOf(M, B, t) = IF EndOf(L, A, t) = old THEN new ELSE EndOf(L, A, t)
<1> USE DEF Replacing
<1>0. B \in AliasTable /\ old # new /\ new # NoToken
    BY PoolAssumption DEF AliasTable
<1> DEFINE e(t) == IF EndOf(L, A, t) = old THEN new ELSE EndOf(L, A, t)
<1>1. ASSUME NEW t \in Tokens
      PROVE  e(t) \in Reach(M, B, t) /\ ~MovesIn(M, B, e(t))
    <2>1. /\ EndOf(L, A, t) \in Reach(L, A, t)
          /\ EndOf(L, A, t) \in Tokens
          /\ ~MovesIn(L, A, EndOf(L, A, t))
        BY EndOfChain
    <2>2. ASSUME NEW S \in SUBSET Tokens, t \in S, ClosedIn(M, B, S)
          PROVE  e(t) \in S
        <3>1. ClosedIn(L, A, S) /\ (old \in S => new \in S)
            BY <1>0, <2>2 DEF ClosedIn, MovesIn, AliasTable
        <3>2. EndOf(L, A, t) \in S
            BY <2>1, <2>2, <3>1 DEF Reach
        <3> QED BY <3>1, <3>2
    <2>3. ~MovesIn(M, B, e(t))
        BY <1>0, <2>1 DEF MovesIn, AliasTable
    <2> QED BY <2>1, <2>2, <2>3 DEF Reach
<1>2. ChainsEnd(M, B)
    BY <1>1 DEF ChainsEnd
<1> QED BY <1>0, <1>1, <1>2, EndOfChain

\* An account goes with every alias that touches its token: what led to it leads to no
\* account any more, and the rest stays.
LEMMA EndsDeleted ==
    ASSUME NEW L, NEW A \in AliasTable, ChainsEnd(L, A),
           NEW d \in Tokens, ~MovesIn(L, A, d),
           NEW M, M = L \ {d},
           NEW B, B = [u \in Tokens |-> IF u = d \/ A[u] = d THEN NoToken ELSE A[u]]
    PROVE  /\ B \in AliasTable /\ ChainsEnd(M, B)
           /\ \A t \in Tokens : IF EndOf(L, A, t) = d THEN EndOf(M, B, t) \notin M
                                ELSE EndOf(M, B, t) = EndOf(L, A, t)
<1>0. B \in AliasTable
    BY DEF AliasTable
<1>1. ASSUME NEW t \in Tokens, EndOf(L, A, t) # d
      PROVE  EndOf(L, A, t) \in Reach(M, B, t) /\ ~MovesIn(M, B, EndOf(L, A, t))
    <2>1. d \notin Reach(L, A, t)
        BY <1>1, EndOfChain
    <2>2. ASSUME NEW S \in SUBSET Tokens, t \in S, ClosedIn(M, B, S)
          PROVE  EndOf(L, A, t) \in S
        <3>1. ASSUME NEW u \in S \cap Reach(L, A, t), MovesIn(L, A, u)
              PROVE  A[u] \in S \cap Reach(L, A, t)
            <4>1. A[u] \in Reach(L, A, t) /\ A[u] # d /\ u # d
                BY <2>1, <3>1, ReachClosed
            <4>2. MovesIn(M, B, u) /\ B[u] = A[u]
                BY <3>1, <4>1 DEF MovesIn
            <4> QED BY <2>2, <4>1, <4>2 DEF ClosedIn
        <3>2. ClosedIn(L, A, S \cap Reach(L, A, t)) /\ t \in S \cap Reach(L, A, t)
            BY <2>2, <3>1, ReachSelf DEF ClosedIn
        <3> QED BY <3>2, ReachWithin, EndOfChain
    <2>3. ~MovesIn(M, B, EndOf(L, A, t))
        BY <1>1, EndOfChain DEF MovesIn
    <2> QED BY <2>2, <2>3, EndOfChain DEF Reach
<1>2. ASSUME NEW t \in Tokens, EndOf(L, A, t) = d
      PROVE  \E z \in Reach(M, B, t) : ~MovesIn(M, B, z) /\ z \notin M
    <2>1. CASE t = d
        BY <2>1, ReachSelf DEF MovesIn
    <2>2. CASE t # d
        <3>1. SUFFICES ASSUME \A z \in Reach(M, B, t) : MovesIn(L, A, z) => A[z] # d
                       PROVE  FALSE
            BY DEF MovesIn, Reach
        <3> DEFINE S == Reach(M, B, t)
        <3>2. S \in SUBSET Tokens /\ t \in S
            BY ReachSelf DEF Reach
        <3>3. ASSUME NEW u \in S, MovesIn(L, A, u)
              PROVE  A[u] \in S
            <4>1. MovesIn(M, B, u) /\ B[u] = A[u]
                BY <3>1, <3>2, <3>3 DEF MovesIn
            <4> QED BY <1>0, <4>1, ReachClosed
        <3>4. d \in S
            <4>1. Reach(L, A, t) \subseteq S
                BY <3>2, <3>3, ReachWithin DEF ClosedIn
            <4> HIDE DEF S
            <4> QED BY <1>2, <4>1, EndOfChain
        <3>5. ClosedIn(M, B, S \ {d})
            <4>1. ASSUME NEW u \in S \ {d}, MovesIn(M, B, u)
                  PROVE  B[u] \in S \ {d}
                BY <1>0, <3>2, <4>1, ReachClosed DEF MovesIn
            <4> QED BY <4>1 DEF ClosedIn
        <3>6. S \ {d} \in SUBSET Tokens /\ t \in S \ {d}
            BY <2>2, <3>2
        <3>7. S \subseteq S \ {d}
            BY <3>5, <3>6, ReachWithin
        <3> QED BY <3>4, <3>7
    <2> QED BY <2>1, <2>2
<1>3. ChainsEnd(M, B)
    BY <1>1, <1>2 DEF ChainsEnd
<1>4. ASSUME NEW t \in Tokens
      PROVE  IF EndOf(L, A, t) = d THEN EndOf(M, B, t) \notin M
             ELSE EndOf(M, B, t) = EndOf(L, A, t)
    <2>1. CASE EndOf(L, A, t) # d
        BY <1>0, <1>1, <1>3, <2>1, EndOfChain
    <2>2. CASE EndOf(L, A, t) = d
        <3>1. PICK z \in Reach(M, B, t) : ~MovesIn(M, B, z) /\ z \notin M
            BY <1>2, <2>2
        <3>2. EndOf(M, B, t) = z
            BY <1>0, <1>3, <3>1, EndOfChain
        <3> QED BY <2>2, <3>1, <3>2
    <2> QED BY <2>1, <2>2
<1> QED BY <1>0, <1>3, <1>4

\* An account comes back under a token that was replaced: its chain ends earlier.
LEMMA EndsAdmitted ==
    ASSUME NEW L, NEW A \in AliasTable, ChainsEnd(L, A), NEW x \in Tokens
    PROVE  ChainsEnd(L \cup {x}, A)
<1> SUFFICES ASSUME NEW t \in Tokens
             PROVE  \E e \in Reach(L \cup {x}, A, t) : ~MovesIn(L \cup {x}, A, e)
    BY DEF ChainsEnd
<1> DEFINE S == Reach(L \cup {x}, A, t)
<1>1. CASE x \in S
    BY <1>1 DEF MovesIn
<1>2. CASE x \notin S
    <2>1. S \in SUBSET Tokens /\ t \in S
        BY ReachSelf DEF Reach
    <2>2. ASSUME NEW u \in S, MovesIn(L, A, u)
          PROVE  A[u] \in S
        <3>1. MovesIn(L \cup {x}, A, u)
            BY <1>2, <2>2 DEF MovesIn
        <3> QED BY <3>1, ReachClosed
    <2>3. EndOf(L, A, t) \in S
        BY <2>1, <2>2, ReachWithin, EndOfChain DEF ClosedIn
    <2> QED BY <2>3, EndOfChain DEF MovesIn
<1> QED BY <1>1, <1>2

-----------------------------------------------------------------------------
(* Slots.                                                                  *)

Live == {t \in Tokens : InPool(t)}

\* Every token that has an account or touches an alias was minted or imported once.
IssuedOK ==
    /\ Live \subseteq issued
    /\ \A t \in Tokens : aliases[t] # NoToken => t \in issued /\ aliases[t] \in issued

\* The tokens a request works with.
InHand(r) ==
    {tok[r]} \cup (IF pc[r] \in Fetching THEN {act[r]} ELSE {})
             \cup (IF pc[r] \in Refreshing THEN {cur[r]} ELSE {})

\* A request that holds a slot works with one account only, while it is there.
HandsAgree ==
    \A r \in Requests : pc[r] \in Holding =>
        /\ InHand(r) \subseteq issued
        /\ \A u, v \in InHand(r) :
               EndOf(Live, aliases, u) \in Live
                   => EndOf(Live, aliases, v) = EndOf(Live, aliases, u)

\* A request that released its slot marks the result once.
MarksOnce ==
    \A r \in Requests :
        /\ pc[r] \notin {"markFailureTwice", "markAgain"}
        /\ pc[r] \in {"markSuccess", "markMessage", "markFailure"} => tok[r] \in Tokens

\* Only a token that was imported again has an account and a successor.
NoLiveAlias == AutoRemoveLimited => \A t \in Live : aliases[t] = NoToken

HoldersOf(t) == {r \in Requests : pc[r] \in Holding /\ EndOf(Live, aliases, tok[r]) = t}

\* A counter never exceeds its holders, also when its account is gone.
SlotsCounted ==
    \A t \in Tokens : /\ inflight[t] <= Cardinality(HoldersOf(t))
                      /\ t \in Live => inflight[t] = Cardinality(HoldersOf(t))

SlotInv ==
    /\ ChainsEnd(Live, aliases)
    /\ IssuedOK /\ HandsAgree /\ MarksOnce /\ NoLiveAlias /\ SlotsCounted

LEMMA ResolveIsEnd ==
    ASSUME TypeOK, ChainsEnd(Live, aliases), NEW t \in Tokens
    PROVE  Resolve(t) = EndOf(Live, aliases, t)
<1>0. aliases \in AliasTable
    BY DEF TypeOK, PoolTypeOK, AliasTable
<1>1. \A u \in Tokens : Moves(u) <=> MovesIn(Live, aliases, u)
    BY DEF Moves, MovesIn, Live
<1>2. Chain(t) = Reach(Live, aliases, t)
    BY <1>1 DEF Chain, Reach, Follows, ClosedIn
<1>3. \E e \in Chain(t) : ~Moves(e)
    BY <1>1, <1>2 DEF ChainsEnd, Reach
<1>4. CASE Moves(t)
    <2>1. Resolve(t) \in Chain(t) /\ ~Moves(Resolve(t))
        BY <1>3, <1>4 DEF Resolve
    <2> QED BY <1>0, <1>1, <1>2, <2>1, EndOfChain DEF Reach
<1>5. CASE ~Moves(t)
    BY <1>0, <1>1, <1>5, EndOfItself DEF Resolve
<1> QED BY <1>4, <1>5

\* What the invariant says of each token and each holder.
LEMMA EndIssued ==
    ASSUME TypeOK, SlotInv, NEW t \in issued
    PROVE  EndOf(Live, aliases, t) \in issued
<1>1. aliases \in AliasTable /\ issued \in SUBSET Tokens
    BY DEF TypeOK, PoolTypeOK, AliasTable
<1>2. ClosedIn(Live, aliases, issued)
    BY <1>1 DEF ClosedIn, MovesIn, SlotInv, IssuedOK
<1> QED BY <1>1, <1>2, ReachWithin, EndOfChain DEF SlotInv

LEMMA EndOfEnd ==
    ASSUME TypeOK, SlotInv, NEW t \in Tokens
    PROVE  /\ EndOf(Live, aliases, t) \in Tokens
           /\ EndOf(Live, aliases, EndOf(Live, aliases, t)) = EndOf(Live, aliases, t)
           /\ t \in Live => EndOf(Live, aliases, t) = t
<1>1. aliases \in AliasTable /\ ChainsEnd(Live, aliases)
    BY DEF TypeOK, PoolTypeOK, AliasTable, SlotInv
<1>2. t \in Live => ~MovesIn(Live, aliases, t)
    BY DEF MovesIn
<1> QED BY <1>1, <1>2, EndOfChain, EndOfItself

LEMMA HoldersFinite ==
    ASSUME IsFiniteSet(Requests), NEW t
    PROVE  IsFiniteSet(HoldersOf(t)) /\ Cardinality(HoldersOf(t)) \in Nat
BY FS_Subset, FS_CardinalityType DEF HoldersOf

-----------------------------------------------------------------------------
(* Steps by which accounts stay or go: requests keep what they hold.       *)

\* The accounts that stay keep their counters, and what resolved to them still does.
Shrinks ==
    /\ ChainsEnd(Live', aliases')
    /\ Live' \subseteq Live
    /\ issued' = issued
    /\ \A u \in Tokens : aliases'[u] \in {NoToken, aliases[u]}
    /\ \A t \in Tokens :
          IF EndOf(Live, aliases, t) \in Live'
          THEN EndOf(Live', aliases', t) = EndOf(Live, aliases, t)
          ELSE EndOf(Live', aliases', t) \notin Live'
    /\ \A t \in Tokens :
          \/ /\ inflight'[t] = inflight[t]
             /\ \A u \in Tokens : EndOf(Live, aliases, u) = t
                                      => EndOf(Live', aliases', u) = t
          \/ t \notin Live' /\ inflight'[t] = 0

\* No request takes or gives back a slot, or picks up the token of another account.
HandsKeep ==
    \A r \in Requests :
        /\ pc'[r] \in Holding <=> pc[r] \in Holding
        /\ pc'[r] \in Holding =>
               /\ InHand(r)' \subseteq
                      InHand(r) \cup {EndOf(Live, aliases, u) : u \in InHand(r)}
               /\ EndOf(Live, aliases, tok'[r]) = EndOf(Live, aliases, tok[r])

LEMMA ShrinkKeepsHolders ==
    ASSUME TypeOK, SlotInv, Shrinks, HandsKeep, TypeOK'
    PROVE  /\ \A t \in Live' : HoldersOf(t)' = HoldersOf(t)
           /\ \A t \in Tokens : (\A u \in Tokens : EndOf(Live, aliases, u) = t
                                      => EndOf(Live', aliases', u) = t)
                                 => HoldersOf(t) \subseteq HoldersOf(t)'
<1>1. ASSUME NEW r \in Requests, pc'[r] \in Holding
      PROVE  tok[r] \in Tokens /\ tok'[r] \in Tokens
    <2>1. tok[r] \in issued /\ tok'[r] \in InHand(r)'
        BY <1>1 DEF HandsKeep, SlotInv, HandsAgree, InHand
    <2>2. \A u \in InHand(r) : u \in Tokens /\ EndOf(Live, aliases, u) \in Tokens
        BY <1>1, EndOfEnd DEF HandsKeep, SlotInv, HandsAgree, TypeOK, PoolTypeOK
    <2> QED BY <1>1, <2>1, <2>2 DEF HandsKeep, TypeOK, PoolTypeOK
<1>2. ASSUME NEW t \in Live' PROVE HoldersOf(t)' = HoldersOf(t)
    <2>1. ASSUME NEW r \in Requests, pc'[r] \in Holding
          PROVE  EndOf(Live', aliases', tok'[r]) = t <=> EndOf(Live, aliases, tok[r]) = t
        BY <1>1, <2>1 DEF Shrinks, HandsKeep
    <2> QED BY <2>1 DEF HoldersOf, HandsKeep
<1>3. ASSUME NEW t \in Tokens,
             \A u \in Tokens : EndOf(Live, aliases, u) = t => EndOf(Live', aliases', u) = t
      PROVE  HoldersOf(t) \subseteq HoldersOf(t)'
    BY <1>1, <1>3 DEF HoldersOf, HandsKeep
<1> QED BY <1>2, <1>3

LEMMA ShrinkStep ==
    ASSUME IsFiniteSet(Requests), TypeOK, SlotInv, Shrinks, HandsKeep, MarksOnce', TypeOK'
    PROVE  SlotInv'
<1>1. IssuedOK' /\ NoLiveAlias'
    BY DEF SlotInv, Shrinks, IssuedOK, NoLiveAlias, TypeOK, PoolTypeOK, Live
<1>2. HandsAgree'
    <2> SUFFICES ASSUME NEW r \in Requests, pc'[r] \in Holding
                 PROVE  /\ InHand(r)' \subseteq issued'
                        /\ \A u, v \in InHand(r)' :
                               EndOf(Live', aliases', u) \in Live'
                                   => EndOf(Live', aliases', v) = EndOf(Live', aliases', u)
        BY DEF HandsAgree
    <2>1. InHand(r) \subseteq issued /\ issued \subseteq Tokens
        BY DEF SlotInv, HandsAgree, HandsKeep, TypeOK, PoolTypeOK
    <2>2. \A u \in InHand(r)' : \E w \in InHand(r) :
              /\ u \in issued
              /\ EndOf(Live, aliases, u) = EndOf(Live, aliases, w)
        BY <2>1, EndIssued, EndOfEnd DEF HandsKeep
    <2>3. ASSUME NEW u \in InHand(r)', NEW v \in InHand(r)', EndOf(Live', aliases', u) \in Live'
          PROVE  EndOf(Live', aliases', v) = EndOf(Live', aliases', u)
        <3>1. u \in Tokens /\ v \in Tokens
            BY <2>1, <2>2
        <3>2. EndOf(Live, aliases, u) \in Live' /\ EndOf(Live', aliases', u) = EndOf(Live, aliases, u)
            BY <2>3, <3>1 DEF Shrinks
        <3>3. EndOf(Live, aliases, v) = EndOf(Live, aliases, u)
            BY <2>2, <3>2 DEF SlotInv, HandsAgree, HandsKeep, Shrinks
        <3> QED BY <3>1, <3>2, <3>3 DEF Shrinks
    <2> QED BY <2>2, <2>3 DEF Shrinks
<1>3. SlotsCounted'
    <2> SUFFICES ASSUME NEW t \in Tokens
                 PROVE  /\ inflight'[t] <= Cardinality(HoldersOf(t)')
                        /\ t \in Live' => inflight'[t] = Cardinality(HoldersOf(t)')
        BY DEF SlotsCounted
    <2>0. /\ IsFiniteSet(HoldersOf(t)) /\ Cardinality(HoldersOf(t)) \in Nat
          /\ IsFiniteSet(HoldersOf(t)') /\ Cardinality(HoldersOf(t)') \in Nat
          /\ inflight'[t] \in Nat /\ inflight[t] \in Nat
        BY FS_Subset, FS_CardinalityType DEF HoldersOf, TypeOK, PoolTypeOK
    <2>1. CASE t \in Live'
        BY <2>1, ShrinkKeepsHolders DEF Shrinks, SlotInv, SlotsCounted
    <2>2. CASE t \notin Live' /\ inflight'[t] = 0
        BY <2>0, <2>2
    <2>3. CASE /\ inflight'[t] = inflight[t]
               /\ \A u \in Tokens : EndOf(Live, aliases, u) = t
                                        => EndOf(Live', aliases', u) = t
        <3>1. HoldersOf(t) \subseteq HoldersOf(t)'
            BY <2>3, ShrinkKeepsHolders
        <3>2. Cardinality(HoldersOf(t)) <= Cardinality(HoldersOf(t)')
            BY <2>0, <3>1, FS_Subset
        <3>3. inflight[t] <= Cardinality(HoldersOf(t))
            BY DEF SlotInv, SlotsCounted
        <3>4. inflight'[t] <= Cardinality(HoldersOf(t)')
            BY <2>0, <2>3, <3>2, <3>3
        <3> QED BY <2>1, <3>4
    <2> QED BY <2>1, <2>2, <2>3 DEF Shrinks
<1> QED BY <1>1, <1>2, <1>3 DEF SlotInv, Shrinks

-----------------------------------------------------------------------------
(* What each operation on the pool does to accounts and slots.             *)

LEMMA PoolUnchanged ==
    ASSUME TypeOK, SlotInv, UNCHANGED <<accounts, inflight, aliases, issued>>
    PROVE  Shrinks
<1>1. Live' = Live
    BY DEF Live, InPool
<1>2. /\ ChainsEnd(Live', aliases')
      /\ \A t \in Tokens : EndOf(Live', aliases', t) = EndOf(Live, aliases, t)
    BY <1>1 DEF SlotInv
<1> QED BY <1>1, <1>2 DEF Shrinks

\* A status never makes an account appear, and may make it go when limited accounts
\* are removed.
LEMMA UpdateShrinks ==
    ASSUME TypeOK, SlotInv, NEW t \in Tokens, NEW a \in Account,
           UpdateAccount(t, a), UNCHANGED <<inflight, aliases, issued>>
    PROVE  /\ Shrinks
           /\ Live' = Live \/ (Resolve(t) \in Live /\ Live' = Live \ {Resolve(t)})
<1>0. Resolve(t) \in Tokens /\ aliases \in AliasTable
    BY ResolveToken DEF TypeOK, PoolTypeOK, AliasTable
<1>1. a # NoAccount
    BY DEF Account, NoAccount, Statuses
<1>2. CASE Live' = Live
    <2>1. /\ ChainsEnd(Live', aliases')
          /\ \A u \in Tokens : EndOf(Live', aliases', u) = EndOf(Live, aliases, u)
        BY <1>2 DEF SlotInv
    <2> QED BY <1>2, <2>1 DEF Shrinks
<1>3. CASE /\ AutoRemoveLimited /\ Resolve(t) \in Live
           /\ Live' = Live \ {Resolve(t)}
    <2>1. \A u \in Tokens : MovesIn(Live', aliases, u) <=> MovesIn(Live, aliases, u)
        BY <1>3 DEF MovesIn, SlotInv, NoLiveAlias
    <2>2. /\ ChainsEnd(Live', aliases)
          /\ \A u \in Tokens : EndOf(Live', aliases, u) = EndOf(Live, aliases, u)
        BY <1>0, <2>1, EndsUnmoved DEF SlotInv
    <2> QED BY <1>3, <2>2 DEF Shrinks
<1>4. \/ Live' = Live
      \/ AutoRemoveLimited /\ Resolve(t) \in Live /\ Live' = Live \ {Resolve(t)}
    <2>1. CASE ~InPool(Resolve(t))
        BY <2>1 DEF UpdateAccount, Live, InPool
    <2>2. CASE InPool(Resolve(t))
        <3>1. PICK b \in Account \cup {NoAccount} :
                  /\ accounts' = [accounts EXCEPT ![Resolve(t)] = b]
                  /\ b = NoAccount => AutoRemoveLimited
            BY <1>1, <2>2 DEF UpdateAccount, Put
        <3>2. \A u \in Tokens : accounts'[u] = IF u = Resolve(t) THEN b ELSE accounts[u]
            BY <1>0, <3>1 DEF TypeOK, PoolTypeOK
        <3>3. CASE b = NoAccount
            BY <1>0, <2>2, <3>1, <3>2, <3>3 DEF Live, InPool
        <3>4. CASE b # NoAccount
            BY <1>0, <2>2, <3>2, <3>4 DEF Live, InPool
        <3> QED BY <3>3, <3>4
    <2> QED BY <2>1, <2>2
<1> QED BY <1>2, <1>3, <1>4

LEMMA DeleteShrinks ==
    ASSUME TypeOK, SlotInv, NEW t \in Tokens, DeleteAccount(t), UNCHANGED issued
    PROVE  Shrinks /\ Live' = Live \ {Resolve(t)}
<1> DEFINE d == Resolve(t)
<1>0. d \in Tokens /\ aliases \in AliasTable
    BY ResolveToken DEF TypeOK, PoolTypeOK, AliasTable
<1>1. ~MovesIn(Live, aliases, d)
    BY <1>0, ResolveIsEnd, EndOfChain DEF SlotInv
<1> HIDE DEF d
<1>2. /\ accounts' = [accounts EXCEPT ![d] = NoAccount]
      /\ inflight' = [inflight EXCEPT ![d] = 0]
      /\ aliases' = [u \in Tokens |-> IF u = d \/ aliases[u] = d THEN NoToken ELSE aliases[u]]
    BY DEF DeleteAccount, Put, d
<1>3. Live' = Live \ {d}
    BY <1>0, <1>2 DEF Live, InPool, TypeOK, PoolTypeOK
<1>4. /\ ChainsEnd(Live', aliases')
      /\ \A u \in Tokens : IF EndOf(Live, aliases, u) = d THEN EndOf(Live', aliases', u) \notin Live'
                           ELSE EndOf(Live', aliases', u) = EndOf(Live, aliases, u)
    BY <1>0, <1>1, <1>2, <1>3, EndsDeleted DEF SlotInv
<1>5. \A u \in Tokens : aliases'[u] \in {NoToken, aliases[u]}
    BY <1>2
<1>6. ASSUME NEW u \in Tokens
      PROVE  IF EndOf(Live, aliases, u) \in Live'
             THEN EndOf(Live', aliases', u) = EndOf(Live, aliases, u)
             ELSE EndOf(Live', aliases', u) \notin Live'
    BY <1>3, <1>4
<1>7. ASSUME NEW u \in Tokens
      PROVE  \/ /\ inflight'[u] = inflight[u]
                /\ \A w \in Tokens : EndOf(Live, aliases, w) = u
                                         => EndOf(Live', aliases', w) = u
             \/ u \notin Live' /\ inflight'[u] = 0
    BY <1>0, <1>2, <1>3, <1>4 DEF TypeOK, PoolTypeOK
<1> QED BY <1>3, <1>4, <1>5, <1>6, <1>7 DEF Shrinks, d

LEMMA RemoveShrinks ==
    ASSUME TypeOK, SlotInv, NEW t \in Tokens, UNCHANGED issued,
           RemoveInvalidToken(t) \/ MarkInvalidToken(t)
    PROVE  /\ Shrinks
           /\ Live' = Live \/ Live' = Live \ {Resolve(t)}
<1>1. [status |-> "abnormal", quota |-> 0] \in Account
    BY PoolAssumption DEF Account, Statuses
<1> QED BY <1>1, UpdateShrinks, DeleteShrinks DEF RemoveInvalidToken, MarkInvalidToken

\* A new token takes over the account, its counter and what resolved to the old one.
LEMMA TokenReplaced ==
    ASSUME TypeOK, SlotInv, NEW t \in Tokens, NEW new \in Tokens \ issued,
           NEW old, old = Resolve(t), ApplyRefreshedTokens(t, new), InPool(old)
    PROVE  /\ old \in Live /\ new \notin Live
           /\ Live' = (Live \ {old}) \cup {new}
           /\ issued' = issued \cup {new}
           /\ aliases' = [aliases EXCEPT ![old] = new]
           /\ inflight' = [inflight EXCEPT ![old] = 0, ![new] = @ + inflight[old]]
           /\ ChainsEnd(Live', aliases')
           /\ \A u \in Tokens : EndOf(Live', aliases', u) =
                 IF EndOf(Live, aliases, u) = old THEN new ELSE EndOf(Live, aliases, u)
<1>0. old \in Live \cap Tokens /\ aliases \in AliasTable
    BY ResolveToken DEF TypeOK, PoolTypeOK, AliasTable, Live
<1>1. new \in Tokens \ Live /\ aliases[new] = NoToken /\ new # old
    BY <1>0 DEF SlotInv, IssuedOK
<1>2. /\ accounts' = [accounts EXCEPT ![old] = NoAccount, ![new] = accounts[old]]
      /\ inflight' = [inflight EXCEPT ![old] = 0, ![new] = @ + inflight[old]]
      /\ aliases' = [aliases EXCEPT ![old] = new]
      /\ issued' = issued \cup {new}
    BY <1>1 DEF ApplyRefreshedTokens
<1>3. \A u \in Tokens : accounts'[u] = IF u = new THEN accounts[old]
                                      ELSE IF u = old THEN NoAccount ELSE accounts[u]
    BY <1>0, <1>1, <1>2 DEF TypeOK, PoolTypeOK
<1>4. Live' = (Live \ {old}) \cup {new}
    BY <1>0, <1>1, <1>3 DEF Live, InPool
<1>5. /\ ChainsEnd(Live', aliases')
      /\ \A u \in Tokens : EndOf(Live', aliases', u) =
              IF EndOf(Live, aliases, u) = old THEN new ELSE EndOf(Live, aliases, u)
    <2>1. Replacing(Live, aliases, old, new, Live', aliases')
        BY <1>0, <1>1, <1>2, <1>4 DEF Replacing, SlotInv
    <2> QED BY <2>1, EndsReplaced
<1> QED BY <1>0, <1>1, <1>2, <1>4, <1>5

\* Upstream answered without a new token, or the account is gone.
LEMMA TokenKept ==
    ASSUME TypeOK, NEW t \in Tokens, NEW new, ApplyRefreshedTokens(t, new),
           new = Resolve(t) \/ ~InPool(Resolve(t)), SlotInv
    PROVE  UNCHANGED <<accounts, inflight, aliases, issued>>
<1>1. CASE ~InPool(Resolve(t))
    BY <1>1 DEF ApplyRefreshedTokens, pool
<1>2. CASE InPool(Resolve(t)) /\ new = Resolve(t)
    <2>1. Resolve(t) \in Tokens /\ Resolve(t) \in issued
        BY <1>2, ResolveToken DEF SlotInv, IssuedOK, Live
    <2>2. /\ accounts' = [accounts EXCEPT ![new] = NoAccount, ![new] = accounts[new]]
          /\ UNCHANGED <<inflight, aliases>> /\ issued' = issued \cup {new}
        BY <1>2 DEF ApplyRefreshedTokens
    <2>3. accounts' = accounts
        BY <1>2, <2>1, <2>2 DEF TypeOK, PoolTypeOK
    <2> QED BY <1>2, <2>1, <2>2, <2>3
<1> QED BY <1>1, <1>2

-----------------------------------------------------------------------------
(* Steps that move slots.                                                  *)

\* All requests but r stay where they are.
OthersStay(r) ==
    \A q \in Requests \ {r} :
        pc'[q] = pc[q] /\ tok'[q] = tok[q] /\ act'[q] = act[q] /\ cur'[q] = cur[q]

LEMMA HolderToken ==
    ASSUME TypeOK, SlotInv, NEW r \in Requests, pc[r] \in Holding
    PROVE  tok[r] \in issued /\ tok[r] \in Tokens
BY DEF SlotInv, HandsAgree, InHand, TypeOK, PoolTypeOK

LEMMA CountAll ==
    ASSUME IsFiniteSet(Requests), TypeOK
    PROVE  \A t \in Tokens : /\ IsFiniteSet(HoldersOf(t)) /\ Cardinality(HoldersOf(t)) \in Nat
                             /\ inflight[t] \in Nat
BY FS_Subset, FS_CardinalityType DEF HoldersOf, TypeOK, PoolTypeOK

LEMMA ReleaseHolders ==
    ASSUME TypeOK, SlotInv, NEW r \in Requests, pc[r] \in Holding, pc'[r] \notin Holding,
           OthersStay(r), UNCHANGED <<accounts, aliases>>, NEW t
    PROVE  HoldersOf(t)' = HoldersOf(t) \ {r}
<1>1. Live' = Live
    BY DEF Live, InPool
<1> QED BY <1>1 DEF HoldersOf, OthersStay

LEMMA ReleaseStep ==
    ASSUME IsFiniteSet(Requests), TypeOK, SlotInv, TypeOK', MarksOnce',
           NEW r \in Requests, pc[r] \in Holding, pc'[r] \notin Holding, OthersStay(r),
           ReleaseSlot(tok[r]), UNCHANGED <<accounts, aliases, issued>>
    PROVE  SlotInv'
<1> DEFINE x == EndOf(Live, aliases, tok[r])
<1>1. Live' = Live
    BY DEF Live, InPool
<1>2. tok[r] \in Tokens /\ x \in Tokens /\ x = Resolve(tok[r])
    BY HolderToken, EndOfEnd, ResolveIsEnd DEF SlotInv
<1>3. ChainsEnd(Live', aliases') /\ IssuedOK' /\ NoLiveAlias'
    BY <1>1 DEF SlotInv, IssuedOK, NoLiveAlias
<1>4. HandsAgree'
    BY <1>1 DEF SlotInv, HandsAgree, OthersStay, InHand
<1>5. SlotsCounted'
    <2>1. SUFFICES ASSUME NEW t \in Tokens
                   PROVE  /\ inflight'[t] <= Cardinality(HoldersOf(t)')
                          /\ t \in Live' => inflight'[t] = Cardinality(HoldersOf(t)')
        BY DEF SlotsCounted
    <2>2. /\ IsFiniteSet(HoldersOf(t)) /\ Cardinality(HoldersOf(t)) \in Nat
          /\ inflight[t] \in Nat /\ inflight[t] <= Cardinality(HoldersOf(t))
          /\ t \in Live => inflight[t] = Cardinality(HoldersOf(t))
        BY CountAll DEF SlotInv, SlotsCounted
    <2>3. HoldersOf(t)' = HoldersOf(t) \ {r}
        BY ReleaseHolders
    <2>4. r \in HoldersOf(t) <=> t = x
        BY DEF HoldersOf
    <2>5. Cardinality(HoldersOf(t)') = Cardinality(HoldersOf(t)) - (IF t = x THEN 1 ELSE 0)
        <3>1. CASE t = x
            <4>1. r \in HoldersOf(t)
                BY <2>4, <3>1
            <4>2. Cardinality(HoldersOf(t) \ {r}) = Cardinality(HoldersOf(t)) - 1
                BY <2>2, <4>1, FS_RemoveElement
            <4> QED BY <2>3, <3>1, <4>2
        <3>2. CASE t # x
            <4>1. HoldersOf(t)' = HoldersOf(t)
                BY <2>3, <2>4, <3>2
            <4> HIDE DEF x
            <4> QED BY <2>2, <3>2, <4>1
        <3> QED BY <3>1, <3>2
    <2>6. inflight'[t] = IF t = x THEN IF inflight[t] <= 1 THEN 0 ELSE inflight[t] - 1
                         ELSE inflight[t]
        BY <1>2 DEF ReleaseSlot, TypeOK, PoolTypeOK
    <2>7. t = x => Cardinality(HoldersOf(t)) >= 1
        BY <2>2, <2>4, FS_EmptySet
    <2> HIDE DEF x
    <2> QED BY <1>1, <2>2, <2>5, <2>6, <2>7
<1> QED BY <1>3, <1>4, <1>5 DEF SlotInv

LEMMA AcquireHolders ==
    ASSUME TypeOK, SlotInv, NEW r \in Requests, Acquire(r)
    PROVE  \E x \in Live :
               /\ x \in FreeTokens(r)
               /\ inflight' = [inflight EXCEPT ![x] = @ + 1]
               /\ tok'[r] = x /\ act'[r] = x /\ pc'[r] = "preflight"
               /\ r \notin HoldersOf(x) /\ OthersStay(r) /\ Live' = Live
               /\ \A t : HoldersOf(t)' = IF t = x THEN HoldersOf(t) \cup {r} ELSE HoldersOf(t)
<1>1. PICK x \in FreeTokens(r) :
          /\ inflight' = [inflight EXCEPT ![x] = @ + 1]
          /\ tok' = [tok EXCEPT ![r] = x]
          /\ act' = [act EXCEPT ![r] = x]
    BY DEF Acquire
<1>2. x \in Live /\ Live' = Live
    BY DEF FreeTokens, ReadyTokens, Available, InPool, NoAccount, Live, Acquire
<1>3. /\ pc[r] \notin Holding /\ pc'[r] = "preflight" /\ pc'[r] \in Holding
      /\ tok'[r] = x /\ act'[r] = x /\ OthersStay(r)
    BY <1>1 DEF Acquire, Holding, Fetching, Refreshing, OthersStay,
                TypeOK, LocalTypeOK, Threads
<1>4. EndOf(Live, aliases, x) = x /\ aliases' = aliases
    BY <1>2, EndOfEnd DEF Live, Acquire
<1>5. \A t : HoldersOf(t)' = IF t = x THEN HoldersOf(t) \cup {r} ELSE HoldersOf(t)
    BY <1>2, <1>3, <1>4 DEF HoldersOf, OthersStay
<1>6. r \notin HoldersOf(x)
    BY <1>3 DEF HoldersOf
<1> QED BY <1>1, <1>2, <1>3, <1>5, <1>6

LEMMA AcquireStep ==
    ASSUME IsFiniteSet(Requests), TypeOK, SlotInv, TypeOK', NEW r \in Requests, Acquire(r)
    PROVE  SlotInv'
<1>1. PICK x \in Live :
          /\ inflight' = [inflight EXCEPT ![x] = @ + 1]
          /\ tok'[r] = x /\ act'[r] = x /\ pc'[r] = "preflight"
          /\ r \notin HoldersOf(x) /\ OthersStay(r) /\ Live' = Live
          /\ \A t : HoldersOf(t)' = IF t = x THEN HoldersOf(t) \cup {r} ELSE HoldersOf(t)
    BY AcquireHolders
<1>2. UNCHANGED <<accounts, aliases, store, issued>>
    BY DEF Acquire
<1>3. ChainsEnd(Live', aliases') /\ IssuedOK' /\ NoLiveAlias'
    BY <1>1, <1>2 DEF SlotInv, IssuedOK, NoLiveAlias
<1>4. HandsAgree'
    <2>1. SUFFICES ASSUME NEW q \in Requests, pc'[q] \in Holding
                   PROVE  /\ InHand(q)' \subseteq issued'
                          /\ \A u, v \in InHand(q)' :
                                 EndOf(Live', aliases', u) \in Live'
                                     => EndOf(Live', aliases', v) = EndOf(Live', aliases', u)
        BY DEF HandsAgree
    <2>2. CASE q = r
        <3>1. InHand(q)' = {x}
            BY <1>1, <2>2 DEF InHand, Refreshing, Fetching
        <3> QED BY <1>2, <3>1 DEF SlotInv, IssuedOK
    <2>3. CASE q # r
        <3>1. InHand(q)' = InHand(q) /\ pc[q] \in Holding
            BY <1>1, <2>1, <2>3 DEF InHand, OthersStay
        <3> QED BY <1>1, <1>2, <3>1 DEF SlotInv, HandsAgree
    <2> QED BY <2>2, <2>3
<1>5. MarksOnce'
    BY <1>1 DEF MarksOnce, SlotInv, OthersStay
<1>6. SlotsCounted'
    <2>1. SUFFICES ASSUME NEW t \in Tokens
                   PROVE  /\ inflight'[t] <= Cardinality(HoldersOf(t)')
                          /\ t \in Live' => inflight'[t] = Cardinality(HoldersOf(t)')
        BY DEF SlotsCounted
    <2>2. /\ IsFiniteSet(HoldersOf(t)) /\ Cardinality(HoldersOf(t)) \in Nat
          /\ inflight[t] \in Nat /\ inflight[t] <= Cardinality(HoldersOf(t))
          /\ t \in Live => inflight[t] = Cardinality(HoldersOf(t))
        BY CountAll DEF SlotInv, SlotsCounted
    <2>3. inflight'[t] = inflight[t] + (IF t = x THEN 1 ELSE 0)
        BY <1>1, <2>2 DEF TypeOK, PoolTypeOK
    <2>4. Cardinality(HoldersOf(t)') = Cardinality(HoldersOf(t)) + (IF t = x THEN 1 ELSE 0)
        BY <1>1, <2>2, FS_AddElement
    <2> QED BY <1>1, <2>2, <2>3, <2>4
<1> QED BY <1>3, <1>4, <1>5, <1>6 DEF SlotInv

\* The account goes on under a new token, and every holder of a slot with it.
LEMMA ReplaceHolders ==
    ASSUME TypeOK, SlotInv, NEW t \in Tokens, NEW new \in Tokens \ issued,
           NEW old, old = Resolve(t), ApplyRefreshedTokens(t, new), InPool(old),
           \A r \in Requests : /\ pc'[r] \in Holding <=> pc[r] \in Holding
                               /\ tok'[r] = tok[r]
    PROVE  /\ HoldersOf(new) = {} /\ HoldersOf(new)' = HoldersOf(old)
           /\ \A u : u \notin {old, new} => HoldersOf(u)' = HoldersOf(u)
<1>1. /\ old \in Live /\ new \notin Live
      /\ \A u \in Tokens : EndOf(Live', aliases', u) =
                 IF EndOf(Live, aliases, u) = old THEN new ELSE EndOf(Live, aliases, u)
    BY TokenReplaced
<1>2. \A r \in Requests : pc[r] \in Holding =>
          tok[r] \in Tokens /\ EndOf(Live, aliases, tok[r]) # new
    BY HolderToken, EndIssued
<1> QED BY <1>1, <1>2 DEF HoldersOf

LEMMA ReplaceStep ==
    ASSUME IsFiniteSet(Requests), TypeOK, SlotInv, TypeOK', MarksOnce',
           NEW t \in Tokens, NEW new \in Tokens \ issued,
           NEW old, old = Resolve(t), ApplyRefreshedTokens(t, new), InPool(old),
           \A r \in Requests :
              /\ pc'[r] \in Holding <=> pc[r] \in Holding
              /\ tok'[r] = tok[r]
              /\ \/ InHand(r)' \subseteq InHand(r)
                 \/ /\ InHand(r)' \subseteq InHand(r) \cup {new}
                    /\ \E u \in InHand(r) : EndOf(Live, aliases, u) = old
    PROVE  SlotInv'
<1>1. /\ old \in Live /\ old \in Tokens /\ new \notin Live /\ new # old
      /\ Live' = (Live \ {old}) \cup {new}
      /\ issued' = issued \cup {new}
      /\ aliases' = [aliases EXCEPT ![old] = new]
      /\ inflight' = [inflight EXCEPT ![old] = 0, ![new] = @ + inflight[old]]
      /\ ChainsEnd(Live', aliases')
      /\ \A u \in Tokens : EndOf(Live', aliases', u) =
                 IF EndOf(Live, aliases, u) = old THEN new ELSE EndOf(Live, aliases, u)
    BY TokenReplaced DEF Live
<1>2. IssuedOK'
    BY <1>1 DEF IssuedOK, SlotInv, TypeOK, PoolTypeOK
<1>3. NoLiveAlias'
    BY <1>1 DEF NoLiveAlias, IssuedOK, SlotInv, TypeOK, PoolTypeOK
<1>4. HandsAgree'
    <2>1. SUFFICES ASSUME NEW r \in Requests, pc'[r] \in Holding
                   PROVE  /\ InHand(r)' \subseteq issued'
                          /\ \A u, v \in InHand(r)' :
                                 EndOf(Live', aliases', u) \in Live'
                                     => EndOf(Live', aliases', v) = EndOf(Live', aliases', u)
        BY DEF HandsAgree
    <2>2. InHand(r) \subseteq issued /\ issued \subseteq Tokens /\ pc[r] \in Holding
        BY <2>1 DEF SlotInv, HandsAgree, TypeOK, PoolTypeOK
    <2>3. EndOf(Live', aliases', new) = new
        <3>1. TypeOK' /\ new \in Live' /\ ~MovesIn(Live', aliases', new) /\ aliases' \in AliasTable
            BY <1>1 DEF MovesIn, TypeOK, PoolTypeOK, AliasTable
        <3> QED BY <1>1, <3>1, EndOfItself
    <2>4. \A u \in InHand(r) : EndOf(Live, aliases, u) # new /\ EndOf(Live, aliases, u) \in issued
        BY <2>2, EndIssued
    <2>5. \A u, v \in InHand(r) :
              EndOf(Live, aliases, u) \in Live => EndOf(Live, aliases, v) = EndOf(Live, aliases, u)
        BY <2>2 DEF SlotInv, HandsAgree
    <2>6. \A u, v \in InHand(r) :
              EndOf(Live', aliases', u) \in Live' => EndOf(Live', aliases', v) = EndOf(Live', aliases', u)
        <3>1. SUFFICES ASSUME NEW u \in InHand(r), NEW v \in InHand(r),
                              EndOf(Live', aliases', u) \in Live'
                       PROVE  EndOf(Live', aliases', v) = EndOf(Live', aliases', u)
            OBVIOUS
        <3>2. u \in Tokens /\ v \in Tokens
            BY <2>2
        <3>3. EndOf(Live, aliases, u) \in Live
            BY <1>1, <2>4, <3>1, <3>2
        <3>4. EndOf(Live, aliases, v) = EndOf(Live, aliases, u)
            BY <2>5, <3>3
        <3> QED BY <1>1, <3>2, <3>4
    <2>7. CASE InHand(r)' \subseteq InHand(r)
        BY <1>1, <2>2, <2>6, <2>7
    <2>8. CASE /\ InHand(r)' \subseteq InHand(r) \cup {new}
               /\ \E u \in InHand(r) : EndOf(Live, aliases, u) = old
        <3>1. \A u \in InHand(r) : EndOf(Live', aliases', u) = new
            <4>1. PICK w \in InHand(r) : EndOf(Live, aliases, w) = old
                BY <2>8
            <4>2. \A u \in InHand(r) : EndOf(Live, aliases, u) = old
                BY <1>1, <2>5, <4>1
            <4> QED BY <1>1, <2>2, <4>2
        <3> QED BY <1>1, <2>2, <2>3, <2>8, <3>1
    <2> QED BY <2>7, <2>8
<1>5. SlotsCounted'
    <2>1. SUFFICES ASSUME NEW u \in Tokens
                   PROVE  /\ inflight'[u] <= Cardinality(HoldersOf(u)')
                          /\ u \in Live' => inflight'[u] = Cardinality(HoldersOf(u)')
        BY DEF SlotsCounted
    <2>2. /\ HoldersOf(new) = {} /\ HoldersOf(new)' = HoldersOf(old)
          /\ u \notin {old, new} => HoldersOf(u)' = HoldersOf(u)
        BY ReplaceHolders
    <2>3. \A w \in Tokens : /\ inflight[w] \in Nat /\ Cardinality(HoldersOf(w)) \in Nat
                            /\ inflight[w] <= Cardinality(HoldersOf(w))
                            /\ w \in Live => inflight[w] = Cardinality(HoldersOf(w))
        BY CountAll DEF SlotInv, SlotsCounted
    <2>4. inflight[new] = 0
        <3>1. Cardinality(HoldersOf(new)) = 0
            BY <2>2, FS_EmptySet
        <3> QED BY <2>3, <3>1
    <2>5. inflight'[u] = IF u = new THEN inflight[old]
                         ELSE IF u = old THEN 0 ELSE inflight[u]
        BY <1>1, <2>3, <2>4 DEF TypeOK, PoolTypeOK
    <2>6. Cardinality(HoldersOf(u)') \in Nat
        BY FS_Subset, FS_CardinalityType DEF HoldersOf
    <2> QED BY <1>1, <2>2, <2>3, <2>5, <2>6
<1> QED BY <1>1, <1>2, <1>3, <1>4, <1>5 DEF SlotInv

-----------------------------------------------------------------------------
(* Replaced tokens.  Nothing is assumed of operators here.                 *)

\* Outside of imports an account appears only under a token that is minted in this
\* step, and an alias joins two tokens that were issued.
Mints ==
    /\ issued \subseteq issued'
    /\ \A t \in Tokens : accounts'[t] # NoAccount /\ accounts[t] = NoAccount
                           => t \in issued' \ issued
    /\ \A t \in Tokens : \/ aliases'[t] \in {NoToken, aliases[t]}
                         \/ t \in issued' /\ aliases'[t] \in issued'

LEMMA UpdateMints ==
    ASSUME TypeOK, NEW t, NEW a, UpdateAccount(t, a), UNCHANGED <<aliases, issued>>
    PROVE  Mints
BY DEF UpdateAccount, Put, Mints, InPool, TypeOK, PoolTypeOK

LEMMA RemoveMints ==
    ASSUME TypeOK, NEW t, UNCHANGED issued,
           RemoveInvalidToken(t) \/ MarkInvalidToken(t) \/ DeleteAccount(t)
    PROVE  Mints
<1>1. CASE DeleteAccount(t)
    BY <1>1 DEF DeleteAccount, Put, Mints, TypeOK, PoolTypeOK
<1>2. CASE MarkInvalidToken(t)
    BY <1>2, UpdateMints DEF MarkInvalidToken
<1> QED BY <1>1, <1>2 DEF RemoveInvalidToken

LEMMA ReplaceMints ==
    ASSUME TypeOK, IssuedOK, NEW t \in Tokens, NEW new \in MintedTokens(t),
           ApplyRefreshedTokens(t, new)
    PROVE  Mints
<1> DEFINE old == Resolve(t)
<1>0. old \in Tokens
    BY ResolveToken
<1> HIDE DEF old
<1>1. CASE ~InPool(old)
    BY <1>1 DEF ApplyRefreshedTokens, pool, Mints, old
<1>2. CASE InPool(old)
    <2>1. /\ accounts' = [accounts EXCEPT ![old] = NoAccount, ![new] = accounts[old]]
          /\ aliases' \in {aliases, [aliases EXCEPT ![old] = new]}
          /\ issued' = issued \cup {new}
        BY <1>2 DEF ApplyRefreshedTokens, old
    <2>2. old \in issued /\ new \in Tokens /\ (new \notin issued \/ new = old)
        BY <1>0, <1>2 DEF IssuedOK, Live, MintedTokens, old
    <2>3. \A u \in Tokens : accounts'[u] # NoAccount => u = new \/ accounts[u] # NoAccount
        BY <2>1 DEF TypeOK, PoolTypeOK
    <2>4. new = old => accounts[new] # NoAccount
        BY <1>2 DEF InPool
    <2>5. \A u \in Tokens : aliases'[u] = aliases[u] \/ (u = old /\ aliases'[u] = new)
        BY <2>1 DEF TypeOK, PoolTypeOK
    <2> QED BY <2>1, <2>2, <2>3, <2>4, <2>5 DEF Mints
<1> QED BY <1>1, <1>2

LEMMA NothingMinted ==
    ASSUME UNCHANGED <<accounts, aliases, issued>>
    PROVE  Mints
BY DEF Mints

LEMMA NextMints ==
    ASSUME TypeOK, IssuedOK, Next
    PROVE  Mints \/ Restart \/ \E t \in Tokens : ImportAccount(t)
<1>1. ASSUME NEW p \in Threads, Fetch(p) PROVE Mints
    <2>1. CASE RefreshSucceeds(p)
        BY <2>1, ReplaceMints DEF RefreshSucceeds, TypeOK, LocalTypeOK
    <2>2. CASE UpdateFromUpstream(p)
        BY <2>2, UpdateMints DEF UpdateFromUpstream
    <2>3. CASE RemoveInvalid(p) \/ MarkInvalid(p)
        BY <2>3, RemoveMints DEF RemoveInvalid, MarkInvalid
    <2>4. CASE RefreshNotNeeded(p) \/ RefreshStart(p) \/ RefreshFails(p) \/ UserInfoFails(p)
               \/ RecordInvalidTokenSeen(p)
        BY <2>4, NothingMinted
           DEF RefreshNotNeeded, RefreshStart, RefreshFails, UserInfoFails,
               RecordInvalidTokenSeen, pool
    <2> QED BY <1>1, <2>1, <2>2, <2>3, <2>4 DEF Fetch
<1>2. ASSUME NEW r \in Requests, Request(r) PROVE Mints
    <2>1. CASE MarkSuccess(r) \/ MarkFailure(r)
        BY <2>1, UpdateMints DEF MarkSuccess, MarkFailure
    <2>2. CASE Acquire(r) \/ AcquireFails(r) \/ ReleaseUnused(r) \/ MarkReleases(r)
        BY <2>2, NothingMinted DEF Acquire, AcquireFails, ReleaseUnused, MarkReleases, pool
    <2> QED BY <1>2, <2>1, <2>2 DEF Request
<1>3. ASSUME NEW t \in Tokens, Relogin(t) PROVE Mints
    <2>1. CASE ReloginSucceeds(t)
        BY <2>1, ReplaceMints DEF ReloginSucceeds
    <2>2. CASE ReloginPromotes(t) \/ ReloginDisables(t)
        BY <2>2, UpdateMints DEF ReloginPromotes, ReloginDisables
    <2>3. CASE ReloginCondemns(t) \/ ReloginMarks(t)
        BY <2>3, RemoveMints DEF ReloginCondemns, ReloginMarks
    <2>4. CASE ReloginRaises(t)
        BY <2>4, NothingMinted DEF ReloginRaises, pool
    <2> QED BY <1>3, <2>1, <2>2, <2>3, <2>4 DEF Relogin
<1>4. ASSUME NEW t \in Tokens, DeleteAccounts(t) \/ EditAccount(t) \/ StartRelogin(t)
      PROVE  Mints
    BY <1>4, UpdateMints, RemoveMints, NothingMinted
       DEF DeleteAccounts, EditAccount, StartRelogin, pool
<1>5. ASSUME NEW p \in Threads, StartRequest(p) \/ StartJob(p) PROVE Mints
    BY <1>5, NothingMinted DEF StartRequest, StartJob, pool
<1> QED BY <1>1, <1>2, <1>3, <1>4, <1>5 DEF Next, Environment, Threads

\* The store holds accounts of issued tokens only, also when it is behind the pool.
StoreIssued == \A t \in Tokens : store[t] # NoAccount => t \in issued

LEMMA Saved ==
    ASSUME NEW t, NEW raised, Save(t, raised) \/ SaveAccounts(raised)
    PROVE  store' \in {store, LostStore, accounts'}
BY DEF Save, SaveAccounts

LEMMA NextSaves ==
    ASSUME Next
    PROVE  store' \in {store, LostStore, accounts'}
<1>1. ASSUME NEW p \in Threads, Fetch(p) PROVE store' \in {store, LostStore, accounts'}
    BY <1>1, Saved
       DEF Fetch, RefreshNotNeeded, RefreshStart, RefreshSucceeds, RefreshFails,
           UpdateFromUpstream, UserInfoFails, RecordInvalidTokenSeen, RemoveInvalid,
           MarkInvalid, pool
<1>2. ASSUME NEW r \in Requests, Request(r) PROVE store' \in {store, LostStore, accounts'}
    BY <1>2, Saved
       DEF Request, Acquire, AcquireFails, ReleaseUnused, MarkReleases, MarkSuccess,
           MarkFailure, pool
<1>3. ASSUME NEW t \in Tokens, Relogin(t) PROVE store' \in {store, LostStore, accounts'}
    BY <1>3, Saved
       DEF Relogin, ReloginSucceeds, ReloginPromotes, ReloginDisables, ReloginRaises,
           ReloginCondemns, ReloginMarks, pool
<1>4. CASE Environment
    BY <1>4, Saved
       DEF Environment, ImportAccount, DeleteAccounts, EditAccount, StartRelogin,
           StartRequest, StartJob, Restart, pool
<1> QED BY <1>1, <1>2, <1>3, <1>4 DEF Next

LEMMA SavedIssued ==
    ASSUME StoreIssued, IssuedOK', issued \subseteq issued', [Next]_vars
    PROVE  StoreIssued'
<1>1. store' \in {store, LostStore, accounts'}
    BY NextSaves DEF vars, pool
<1> QED BY <1>1 DEF StoreIssued, LostStore, IssuedOK, Live, InPool

LEMMA IssuedHolds == Spec => [](TypeOK /\ StoreIssued /\ IssuedOK)
<1>1. Init => IssuedOK /\ StoreIssued
    BY PoolAssumption DEF Init, IssuedOK, StoreIssued, Live, InPool
<1>2. TypeOK /\ TypeOK' /\ StoreIssued /\ IssuedOK /\ [Next]_vars => IssuedOK' /\ StoreIssued'
    <2> SUFFICES ASSUME TypeOK, TypeOK', StoreIssued, IssuedOK, [Next]_vars
                 PROVE  IssuedOK' /\ StoreIssued'
        OBVIOUS
    <2>1. CASE Mints
        <3>1. IssuedOK' /\ issued \subseteq issued'
            BY <2>1 DEF Mints, IssuedOK, Live, InPool
        <3> QED BY <3>1, SavedIssued
    <2>2. ASSUME NEW t \in Tokens, ImportAccount(t) PROVE IssuedOK' /\ StoreIssued'
        <3>1. /\ issued' = issued \cup {t} /\ aliases' = aliases
              /\ \A u \in Tokens \ {t} : accounts'[u] = accounts[u]
            BY <2>2 DEF ImportAccount, Put, TypeOK, PoolTypeOK
        <3>2. IssuedOK'
            BY <3>1 DEF IssuedOK, Live, InPool
        <3> QED BY <3>1, <3>2, SavedIssued
    <2>3. CASE Restart
        BY <2>3 DEF Restart, LostStore, IssuedOK, StoreIssued, Live, InPool
    <2>4. CASE UNCHANGED vars
        BY <2>4 DEF vars, pool, IssuedOK, StoreIssued, Live, InPool
    <2> QED BY <2>1, <2>2, <2>3, <2>4, NextMints
<1> QED BY <1>1, <1>2, PoolTypeCorrect, PTL DEF Spec

-----------------------------------------------------------------------------
(* Imports and restarts.                                                   *)

\* What the pool must be spared for its counters to be exact: an import of a replaced or
\* deleted token while requests hold slots (delete_accounts and the aliases leave what
\* they hold to it), a generation that marks its result twice because it failed or
\* because its save raised, and the removal of a limited account whose token was
\* replaced and imported again.
SlotConditions ==
    /\ "overlap" \notin Operations
    /\ "noImage" \notin Outcomes /\ "mark" \notin SaveFaults
    /\ AutoRemoveLimited => "reimport" \notin Operations

LEMMA ImportAdmits ==
    ASSUME TypeOK, SlotInv, SlotConditions, NEW t \in Tokens, ImportAccount(t)
    PROVE  /\ t \notin Live /\ Live' = Live \cup {t} /\ issued' = issued \cup {t}
           /\ ChainsEnd(Live', aliases')
           /\ UNCHANGED <<inflight, aliases, pc, tok, act, cur>>
           /\ \/ /\ t \notin issued
                 /\ \A u \in Tokens : EndOf(Live', aliases', u) = EndOf(Live, aliases, u)
              \/ /\ \A r \in Requests : pc[r] \notin Holding
                 /\ ~AutoRemoveLimited
<1>0. aliases \in AliasTable /\ UNCHANGED <<inflight, aliases, pc, tok, act, cur>>
    BY DEF TypeOK, PoolTypeOK, AliasTable, ImportAccount, local
<1>1. PICK q \in {0, MaxQuota} : accounts' = [accounts EXCEPT ![t] = [status |-> "normal", quota |-> q]]
    BY DEF ImportAccount, Put
<1>2. [status |-> "normal", quota |-> q] # NoAccount
    BY DEF NoAccount
<1>3. t \notin Live /\ Live' = Live \cup {t} /\ issued' = issued \cup {t}
    BY <1>1, <1>2 DEF ImportAccount, Live, InPool, TypeOK, PoolTypeOK
<1>4. ChainsEnd(Live', aliases')
    BY <1>0, <1>3, EndsAdmitted DEF SlotInv
<1>5. CASE t \notin issued
    <2>1. aliases[t] = NoToken
        BY <1>5 DEF SlotInv, IssuedOK
    <2>2. \A u \in Tokens : MovesIn(Live', aliases, u) <=> MovesIn(Live, aliases, u)
        BY <1>3, <2>1 DEF MovesIn
    <2>3. \A u \in Tokens : EndOf(Live', aliases, u) = EndOf(Live, aliases, u)
        BY <1>0, <2>2, EndsUnmoved DEF SlotInv
    <2> QED BY <1>0, <1>3, <1>4, <1>5, <2>3
<1>6. CASE t \in issued
    BY <1>0, <1>3, <1>4, <1>6 DEF ImportAccount, SlotConditions, Holds
<1> QED BY <1>5, <1>6

LEMMA ImportStep ==
    ASSUME IsFiniteSet(Requests), TypeOK, SlotInv, TypeOK', SlotConditions,
           NEW t \in Tokens, ImportAccount(t)
    PROVE  SlotInv'
<1>1. /\ t \notin Live /\ Live' = Live \cup {t} /\ issued' = issued \cup {t}
      /\ ChainsEnd(Live', aliases')
      /\ UNCHANGED <<inflight, aliases, pc, tok, act, cur>>
    BY ImportAdmits
<1>2. IssuedOK' /\ MarksOnce'
    BY <1>1 DEF IssuedOK, MarksOnce, SlotInv
<1>3. CASE /\ t \notin issued
           /\ \A u \in Tokens : EndOf(Live', aliases', u) = EndOf(Live, aliases, u)
    <2>1. NoLiveAlias'
        BY <1>1, <1>3 DEF NoLiveAlias, SlotInv, IssuedOK
    <2>2. \A u \in issued : u \in Tokens /\ EndOf(Live, aliases, u) # t
        BY <1>3, EndIssued DEF TypeOK, PoolTypeOK
    <2>3. HandsAgree'
        <3>1. SUFFICES ASSUME NEW r \in Requests, pc[r] \in Holding
                       PROVE  /\ InHand(r) \subseteq issued'
                              /\ \A u, v \in InHand(r) :
                                     EndOf(Live', aliases', u) \in Live'
                                        => EndOf(Live', aliases', v) = EndOf(Live', aliases', u)
            BY <1>1 DEF HandsAgree, InHand
        <3>2. InHand(r) \subseteq issued
            BY <3>1 DEF SlotInv, HandsAgree
        <3>3. ASSUME NEW u \in InHand(r), NEW v \in InHand(r),
                     EndOf(Live', aliases', u) \in Live'
              PROVE  EndOf(Live', aliases', v) = EndOf(Live', aliases', u)
            <4>1. u \in Tokens /\ v \in Tokens /\ EndOf(Live, aliases, u) # t
                BY <2>2, <3>2
            <4>2. EndOf(Live, aliases, u) \in Live
                BY <1>1, <1>3, <3>3, <4>1
            <4>3. EndOf(Live, aliases, v) = EndOf(Live, aliases, u)
                BY <3>1, <4>2 DEF SlotInv, HandsAgree
            <4> QED BY <1>3, <4>1, <4>3
        <3> QED BY <1>1, <3>2, <3>3
    <2>4. ASSUME NEW u PROVE HoldersOf(u)' = HoldersOf(u)
        BY <1>1, <1>3, HolderToken DEF HoldersOf
    <2>5. HoldersOf(t) = {}
        BY <2>2, HolderToken DEF HoldersOf
    <2>6. inflight[t] = 0 /\ Cardinality(HoldersOf(t)) = 0
        BY <2>5, FS_EmptySet, CountAll DEF SlotInv, SlotsCounted
    <2>7. SlotsCounted'
        BY <1>1, <2>4, <2>6 DEF SlotInv, SlotsCounted
    <2> QED BY <1>1, <1>2, <2>1, <2>3, <2>7 DEF SlotInv
<1>4. CASE /\ \A r \in Requests : pc[r] \notin Holding
           /\ ~AutoRemoveLimited
    <2>1. NoLiveAlias' /\ HandsAgree'
        BY <1>1, <1>4 DEF NoLiveAlias, HandsAgree
    <2>2. ASSUME NEW u PROVE HoldersOf(u)' = {} /\ HoldersOf(u) = {}
        BY <1>1, <1>4 DEF HoldersOf
    <2>3. ASSUME NEW u \in Tokens PROVE inflight[u] = 0
        <3>1. Cardinality(HoldersOf(u)) = 0
            BY <2>2, FS_EmptySet
        <3> QED BY <3>1, CountAll DEF SlotInv, SlotsCounted
    <2>4. SlotsCounted'
        BY <1>1, <2>2, <2>3, FS_EmptySet DEF SlotsCounted
    <2> QED BY <1>1, <1>2, <2>1, <2>4 DEF SlotInv
<1> QED BY <1>3, <1>4, ImportAdmits

\* Where nobody holds a slot, no counter runs and no alias is left, all is well.
LEMMA FreshSlots ==
    ASSUME Live \subseteq issued, aliases = [t \in Tokens |-> NoToken],
           inflight = [t \in Tokens |-> 0],
           \A r \in Requests : pc[r] \notin Holding \cup
                {"markSuccess", "markMessage", "markFailure", "markFailureTwice", "markAgain"}
    PROVE  SlotInv
<1>1. ChainsEnd(Live, aliases)
    BY ReachSelf DEF ChainsEnd, MovesIn
<1>2. \A t : HoldersOf(t) = {}
    BY DEF HoldersOf
<1>3. SlotsCounted
    BY <1>2, FS_EmptySet DEF SlotsCounted
<1> QED BY <1>1, <1>3 DEF SlotInv, IssuedOK, HandsAgree, MarksOnce, NoLiveAlias, Live

LEMMA RestartStep ==
    ASSUME TypeOK, SlotInv, StoreIssued, Restart
    PROVE  SlotInv'
<1>1. Live' \subseteq issued' /\ aliases' = [t \in Tokens |-> NoToken]
      /\ inflight' = [t \in Tokens |-> 0]
    BY DEF Restart, LostStore, StoreIssued, Live, InPool
<1>2. \A r \in Requests : pc'[r] \in {"idle", "done", "failed"}
    BY DEF Restart, Threads
<1>3. \A r \in Requests : pc'[r] \notin Holding \cup
                {"markSuccess", "markMessage", "markFailure", "markFailureTwice", "markAgain"}
    BY <1>2 DEF Holding, Fetching, Refreshing
<1>4. ChainsEnd(Live', aliases')
    BY <1>1, ReachSelf DEF ChainsEnd, MovesIn
<1>5. \A t : HoldersOf(t)' = {}
    BY <1>3 DEF HoldersOf
<1>6. SlotsCounted'
    BY <1>1, <1>5, FS_EmptySet DEF SlotsCounted
<1>7. IssuedOK' /\ NoLiveAlias'
    BY <1>1 DEF IssuedOK, NoLiveAlias, Live
<1> QED BY <1>3, <1>4, <1>6, <1>7 DEF SlotInv, HandsAgree, MarksOnce

-----------------------------------------------------------------------------
(* The actions, one lemma per group: each is one of six kinds of steps.    *)

\* Nobody takes or gives back a slot; an account may go.
Quiet ==
    /\ Shrinks /\ HandsKeep
    /\ Live' = Live \/ \E x \in Tokens : Live' = Live \ {x}

Frees(r) ==
    /\ pc[r] \in Holding /\ pc'[r] \notin Holding
    /\ OthersStay(r)
    /\ UNCHANGED <<accounts, aliases>>

Replaces ==
    \E t \in Tokens, new \in Tokens \ issued :
        /\ ApplyRefreshedTokens(t, new)
        /\ InPool(Resolve(t))
        /\ \A r \in Requests : (pc'[r] \in Holding <=> pc[r] \in Holding) /\ tok'[r] = tok[r]

SlotMove ==
    \/ Quiet \/ Replaces \/ Restart
    \/ \E r \in Requests : Acquire(r) \/ Frees(r)
    \/ \E t \in Tokens : ImportAccount(t)

\* No save of a mark raises, so a mark is the end of its request.
LEMMA MarkedOnce ==
    ASSUME TypeOK, SlotInv, SlotConditions, NEW r \in Requests, MarkSuccess(r) \/ MarkFailure(r)
    PROVE  /\ pc[r] \in {"markSuccess", "markMessage", "markFailure"} /\ tok[r] \in Tokens
           /\ pc' = [pc EXCEPT ![r] = "done"] /\ tok' = [tok EXCEPT ![r] = NoToken]
           /\ UNCHANGED <<inflight, aliases, issued, act, cur>>
<1>1. pc[r] \in {"markSuccess", "markMessage", "markFailure"} /\ tok[r] \in Tokens
    BY DEF MarkSuccess, MarkFailure, SlotInv, MarksOnce
<1>2. Raises("mark") = {FALSE}
    BY DEF SlotConditions, Raises
<1>3. MarkEnds(r, FALSE)
    <2>1. CASE MarkSuccess(r)
        BY <1>2, <2>1 DEF MarkSuccess, MarkEnds
    <2>2. CASE MarkFailure(r)
        BY <1>1, <1>2, <2>2 DEF MarkFailure, MarkEnds
    <2> QED BY <2>1, <2>2
<1> QED BY <1>1, <1>3 DEF MarkSuccess, MarkFailure, MarkEnds

LEMMA ReloginIsElsewhere ==
    ASSUME NEW t \in Tokens, Relogin(t)
    PROVE  UNCHANGED local
BY DEF Relogin, ReloginSucceeds, ReloginPromotes, ReloginDisables, ReloginRaises,
       ReloginCondemns, ReloginMarks

LEMMA MarksStep ==
    ASSUME TypeOK, SlotInv, SlotConditions, Next
    PROVE  MarksOnce'
<1> USE DEF MarksOnce, SlotInv, TypeOK, LocalTypeOK, Threads, local
<1>1. ASSUME NEW p \in Threads, Fetch(p) PROVE MarksOnce'
    <2>1. \E l \in Fetching \cup {"generate", "release", "acquire", "done"} :
              pc' = [pc EXCEPT ![p] = l]
        <3>1. CASE RefreshNotNeeded(p)
            BY <3>1 DEF RefreshNotNeeded, AfterRefresh, Fetching
        <3>2. CASE RefreshStart(p)
            BY <3>2 DEF RefreshStart, Fetching, Refreshing
        <3>3. CASE RefreshSucceeds(p) \/ RefreshFails(p)
            <4>1. PICK ret : RefreshReturns(p, ret) \/ RefreshRaises(p)
                BY <3>3 DEF RefreshSucceeds, RefreshFails
            <4> QED BY <4>1 DEF RefreshReturns, RefreshRaises, AfterRefresh, Raised, Fetching
        <3>4. CASE UpdateFromUpstream(p)
            BY <3>4 DEF UpdateFromUpstream
        <3>5. CASE UserInfoFails(p)
            BY <3>5 DEF UserInfoFails, GiveBack
        <3>6. CASE RecordInvalidTokenSeen(p) \/ RemoveInvalid(p) \/ MarkInvalid(p)
            BY <3>6 DEF RecordInvalidTokenSeen, RemoveInvalid, MarkInvalid, CheckRaises,
                        Raised, Fetching
        <3> QED BY <1>1, <3>1, <3>2, <3>3, <3>4, <3>5, <3>6 DEF Fetch
    <2>2. \A q \in Requests \ {p} : tok'[q] = tok[q]
        BY <1>1 DEF Fetch, RefreshNotNeeded, RefreshStart, RefreshSucceeds, RefreshFails,
                    RefreshReturns, RefreshRaises, UpdateFromUpstream, UserInfoFails, GiveBack,
                    RecordInvalidTokenSeen, RemoveInvalid, MarkInvalid
    <2> QED BY <2>1, <2>2 DEF Fetching, Refreshing
<1>2. ASSUME NEW r \in Requests, Request(r) PROVE MarksOnce'
    <2>1. CASE Acquire(r) \/ AcquireFails(r) \/ ReleaseUnused(r)
        BY <2>1 DEF Acquire, AcquireFails, ReleaseUnused, GiveBack
    <2>2. CASE MarkReleases(r)
        <3>1. pc[r] = "generate" /\ tok' = tok
            BY <2>2 DEF MarkReleases
        <3>2. PICK l \in {"markSuccess", "markMessage", "markFailure"} :
                  pc' = [pc EXCEPT ![r] = l]
            BY <2>2, <3>1, PoolAssumption DEF MarkReleases, SlotConditions
        <3>3. tok[r] \in Tokens
            BY <3>1, HolderToken DEF Holding
        <3> QED BY <3>1, <3>2, <3>3
    <2>3. CASE MarkSuccess(r) \/ MarkFailure(r)
        BY <2>3, MarkedOnce
    <2> QED BY <1>2, <2>1, <2>2, <2>3 DEF Request
<1>3. ASSUME NEW t \in Tokens, Relogin(t) PROVE MarksOnce'
    BY <1>3, ReloginIsElsewhere
<1>4. CASE Environment
    <2>1. CASE Restart
        <3>1. \A r \in Requests : pc'[r] \in {"idle", "done", "failed"}
            BY <2>1 DEF Restart
        <3> QED BY <3>1
    <2>2. ASSUME NEW r \in Threads, StartRequest(r) \/ StartJob(r) PROVE MarksOnce'
        BY <2>2 DEF StartRequest, StartJob
    <2>3. ASSUME NEW t \in Tokens,
                 ImportAccount(t) \/ DeleteAccounts(t) \/ EditAccount(t) \/ StartRelogin(t)
          PROVE  MarksOnce'
        BY <2>3 DEF ImportAccount, DeleteAccounts, EditAccount, StartRelogin, local
    <2> QED BY <1>4, <2>1, <2>2, <2>3 DEF Environment
<1> QED BY <1>1, <1>2, <1>3, <1>4 DEF Next

\* A thread that moves within a fetch, or a worker anywhere, keeps what requests hold.
LEMMA FetchKeepsHands ==
    ASSUME TypeOK, SlotInv, NEW p \in Threads, NEW l \in Locations,
           pc' = [pc EXCEPT ![p] = l], tok' = tok,
           \A q \in Threads \ {p} : act'[q] = act[q] /\ cur'[q] = cur[q],
           p \in Requests => pc[p] \in Holding /\ l \in Holding,
           p \in Requests => InHand(p)' \subseteq
                                 InHand(p) \cup {EndOf(Live, aliases, u) : u \in InHand(p)}
    PROVE  HandsKeep
<1>1. ASSUME NEW r \in Requests, r # p
      PROVE  pc'[r] = pc[r] /\ InHand(r)' = InHand(r)
    BY <1>1 DEF InHand, Threads, TypeOK, LocalTypeOK
<1>2. pc'[p] = l
    BY DEF TypeOK, LocalTypeOK
<1> QED BY <1>1, <1>2 DEF HandsKeep

\* A check that raises holds no token but that of the slot.
LEMMA RaisedKeepsHands ==
    ASSUME TypeOK, SlotInv, NEW p \in Threads, pc[p] \in Fetching,
           pc' = [pc EXCEPT ![p] = Raised(p)], tok' = tok,
           \A q \in Threads \ {p} : act'[q] = act[q] /\ cur'[q] = cur[q]
    PROVE  HandsKeep
<1>1. /\ Raised(p) \in Locations /\ Raised(p) \notin Fetching \cup Refreshing
      /\ p \in Requests => Raised(p) \in Holding
    BY DEF Raised, Locations, Holding, Fetching, Refreshing
<1>2. pc'[p] = Raised(p)
    BY DEF TypeOK, LocalTypeOK
<1>3. InHand(p)' \subseteq InHand(p)
    BY <1>1, <1>2 DEF InHand
<1> QED BY <1>1, <1>3, FetchKeepsHands DEF Holding

\* The steps of a fetch that leave the counters and aliases alone.
FetchQuiet(p) ==
    \/ RefreshNotNeeded(p) \/ RefreshStart(p) \/ RefreshFails(p)
    \/ RecordInvalidTokenSeen(p) \/ (UserInfoFails(p) /\ p \notin Requests)

LEMMA FetchQuietStep ==
    ASSUME IsFiniteSet(Requests), TypeOK, SlotInv, TypeOK', MarksOnce',
           NEW p \in Threads, FetchQuiet(p)
    PROVE  Quiet /\ SlotInv'
<1> USE DEF TypeOK, LocalTypeOK
<1>0. /\ UNCHANGED <<accounts, inflight, aliases, issued, tok>>
      /\ pc[p] \in Fetching /\ act[p] \in Tokens
      /\ act[p] \in InHand(p)
      /\ pc[p] \in Refreshing => cur[p] \in InHand(p) /\ cur[p] \in Tokens
      /\ Resolve(act[p]) = EndOf(Live, aliases, act[p])
    <2>1. pc[p] \in Fetching /\ act[p] \in Tokens
        BY DEF FetchQuiet, RefreshNotNeeded, RefreshStart, RefreshFails, CallsRefresh,
               RecordInvalidTokenSeen, UserInfoFails, Fetching, Refreshing
    <2>2. UNCHANGED <<accounts, inflight, aliases, issued, tok>>
        BY DEF FetchQuiet, RefreshNotNeeded, RefreshStart, RefreshFails, RefreshReturns,
               RefreshRaises, RecordInvalidTokenSeen, UserInfoFails, pool
    <2>3. Resolve(act[p]) = EndOf(Live, aliases, act[p])
        BY <2>1, ResolveIsEnd DEF SlotInv
    <2> QED BY <2>1, <2>2, <2>3 DEF InHand
<1>1. Shrinks
    BY <1>0, PoolUnchanged
<1>2. HandsKeep
    <2>1. CASE RefreshNotNeeded(p)
        <3>1. PICK ret \in {act[p], Resolve(act[p])} :
                  /\ pc' = [pc EXCEPT ![p] = AfterRefresh(p, ret)]
                  /\ act' = [act EXCEPT ![p] = ret] /\ cur' = cur
            BY <2>1 DEF RefreshNotNeeded
        <3>2. AfterRefresh(p, ret) \in {"userInfo", "userInfoAgain", "condemn"}
            BY DEF AfterRefresh
        <3>3. InHand(p)' \subseteq {tok[p], ret}
            BY <1>0, <3>1, <3>2 DEF InHand, Refreshing
        <3>4. InHand(p)' \subseteq InHand(p) \cup {EndOf(Live, aliases, u) : u \in InHand(p)}
            BY <1>0, <3>1, <3>3 DEF InHand
        <3> QED BY <1>0, <3>1, <3>2, <3>4, FetchKeepsHands DEF Locations, Holding, Fetching
    <2>2. CASE RefreshStart(p)
        <3>1. PICK l \in Refreshing :
                  /\ pc' = [pc EXCEPT ![p] = l] /\ act' = act
                  /\ cur' = [cur EXCEPT ![p] = Resolve(act[p])]
            BY <2>2 DEF RefreshStart, Refreshing
        <3>2. InHand(p)' \subseteq {tok[p], act[p], Resolve(act[p])}
            BY <1>0, <3>1 DEF InHand
        <3>3. InHand(p)' \subseteq InHand(p) \cup {EndOf(Live, aliases, u) : u \in InHand(p)}
            BY <1>0, <3>2 DEF InHand
        <3> QED BY <1>0, <3>1, <3>3, FetchKeepsHands DEF Locations, Holding, Fetching
    <2>6. CASE RefreshFails(p) /\ RefreshRaises(p)
        BY <1>0, <2>6, RaisedKeepsHands DEF RefreshRaises
    <2>3. CASE RefreshFails(p) /\ ~RefreshRaises(p)
        <3>1. /\ pc' = [pc EXCEPT ![p] = AfterRefresh(p, cur[p])]
              /\ act' = [act EXCEPT ![p] = cur[p]]
              /\ cur' = [cur EXCEPT ![p] = NoToken]
              /\ pc[p] \in Refreshing
            BY <2>3 DEF RefreshFails, RefreshReturns
        <3>2. AfterRefresh(p, cur[p]) \in {"userInfo", "userInfoAgain", "condemn"}
            BY DEF AfterRefresh
        <3>3. InHand(p)' \subseteq {tok[p], cur[p]}
            BY <1>0, <3>1, <3>2 DEF InHand, Refreshing
        <3>4. InHand(p)' \subseteq InHand(p)
            BY <1>0, <3>1, <3>3 DEF InHand
        <3> QED BY <1>0, <3>1, <3>2, <3>4, FetchKeepsHands DEF Locations, Holding, Fetching
    <2>4. CASE RecordInvalidTokenSeen(p)
        <3>1. CASE pc' = [pc EXCEPT ![p] = "remove"] /\ act' = act
            <4>1. InHand(p)' \subseteq InHand(p) /\ cur' = cur
                BY <1>0, <2>4, <3>1 DEF RecordInvalidTokenSeen, InHand, Refreshing
            <4> QED BY <1>0, <3>1, <4>1, FetchKeepsHands DEF Locations, Holding, Fetching
        <3>2. CASE CheckRaises(p)
            <4>1. cur' = cur
                BY <2>4 DEF RecordInvalidTokenSeen
            <4> QED BY <1>0, <3>2, <4>1, RaisedKeepsHands DEF CheckRaises
        <3> QED BY <2>4, <3>1, <3>2 DEF RecordInvalidTokenSeen
    <2>5. CASE UserInfoFails(p) /\ p \notin Requests
        <3>1. pc' = [pc EXCEPT ![p] = "done"] /\ cur' = cur
              /\ \A q \in Threads \ {p} : act'[q] = act[q]
            BY <2>5 DEF UserInfoFails
        <3> QED BY <1>0, <2>5, <3>1, FetchKeepsHands DEF Locations
    <2> QED BY <2>1, <2>2, <2>3, <2>4, <2>5, <2>6 DEF FetchQuiet
<1>3. Live' = Live
    BY <1>0 DEF Live, InPool
<1> QED BY <1>1, <1>2, <1>3, ShrinkStep DEF Quiet

\* update_account after the check: a usable account is the one the slot was taken of.
LEMMA UpdateFromUpstreamStep ==
    ASSUME IsFiniteSet(Requests), TypeOK, SlotInv, TypeOK', MarksOnce',
           NEW p \in Threads, UpdateFromUpstream(p)
    PROVE  Quiet /\ SlotInv'
<1> USE DEF TypeOK, LocalTypeOK
<1> DEFINE t == Resolve(act[p])
           upd(q) == [status |-> IF q = 0 THEN "limited" ELSE "normal", quota |-> q]
<1>1. /\ pc[p] \in {"userInfo", "userInfoAgain"} /\ act[p] \in Tokens
      /\ act[p] \in InHand(p) /\ tok[p] \in InHand(p)
      /\ t = EndOf(Live, aliases, act[p]) /\ t \in Tokens
    BY ResolveIsEnd, ResolveToken DEF UpdateFromUpstream, Fetching, InHand, SlotInv
<1>2. PICK q \in 0 .. MaxQuota, usable \in {TRUE, FALSE} :
          /\ UpdateAccount(act[p], upd(q))
          /\ usable => InPool(t)
          /\ pc' = [pc EXCEPT ![p] = IF p \in Workers THEN "done"
                                     ELSE IF usable THEN "generate" ELSE "release"]
          /\ IF p \in Requests THEN tok' = [tok EXCEPT ![p] = IF usable THEN t ELSE @]
                                ELSE tok' = tok
    <2>1. PICK q \in 0 .. MaxQuota, raised \in Raises("pool") :
              LET kept   == InPool(t) /\ ~raised
                                /\ ~(upd(q).status = "limited" /\ AutoRemoveLimited)
                  usable == kept /\ Available(upd(q))
              IN /\ UpdateAccount(act[p], upd(q))
                 /\ pc' = [pc EXCEPT ![p] = IF p \in Workers THEN "done"
                                            ELSE IF usable THEN "generate" ELSE "release"]
                 /\ IF p \in Requests THEN tok' = [tok EXCEPT ![p] = IF usable THEN t ELSE @]
                                       ELSE tok' = tok
        BY DEF UpdateFromUpstream
    <2> DEFINE usable == /\ InPool(t) /\ ~raised
                         /\ ~(upd(q).status = "limited" /\ AutoRemoveLimited)
                         /\ Available(upd(q))
    <2> HIDE DEF t, upd
    <2>2. CASE usable
        BY <2>1, <2>2
    <2>3. CASE ~usable
        BY <2>1, <2>3
    <2> QED BY <2>2, <2>3
<1>3. /\ act' = [act EXCEPT ![p] = NoToken]
      /\ UNCHANGED <<inflight, aliases, issued, cur>>
    BY DEF UpdateFromUpstream
<1>4. upd(q) \in Account
    BY DEF Account, Statuses
<1>5. Shrinks /\ (Live' = Live \/ (t \in Live /\ Live' = Live \ {t}))
    BY <1>1, <1>2, <1>3, <1>4, UpdateShrinks
<1>6. PICK l \in {"done", "generate", "release"} :
          /\ pc' = [pc EXCEPT ![p] = l]
          /\ p \in Requests => l # "done"
    BY <1>2, PoolAssumption
<1>7. \/ tok' = tok
      \/ p \in Requests /\ t \in Live /\ tok' = [tok EXCEPT ![p] = t]
    BY <1>1, <1>2 DEF Live
<1>8. HandsKeep
    <2>1. ASSUME NEW r \in Requests, r # p
          PROVE  pc'[r] = pc[r] /\ InHand(r)' = InHand(r) /\ tok'[r] = tok[r]
        BY <1>3, <1>6, <1>7, <2>1 DEF InHand, Threads
    <2>2. ASSUME p \in Requests
          PROVE  /\ pc[p] \in Holding /\ pc'[p] \in Holding
                 /\ InHand(p)' \subseteq InHand(p) \cup {EndOf(Live, aliases, u) : u \in InHand(p)}
                 /\ EndOf(Live, aliases, tok'[p]) = EndOf(Live, aliases, tok[p])
        <3>1. pc[p] \in Holding /\ pc'[p] = l /\ l \in Holding /\ l \notin Fetching
            BY <1>1, <1>6, <2>2 DEF Holding, Fetching, Refreshing
        <3>2. InHand(p)' = {tok'[p]}
            BY <3>1 DEF InHand, Fetching
        <3>3. CASE tok' = tok
            BY <1>1, <3>1, <3>2, <3>3
        <3>4. CASE t \in Live /\ tok' = [tok EXCEPT ![p] = t]
            <4>1. tok'[p] = t /\ EndOf(Live, aliases, t) = t
                BY <1>1, <3>4, EndOfEnd
            <4>2. EndOf(Live, aliases, tok[p]) = t
                BY <1>1, <2>2, <3>1, <3>4 DEF SlotInv, HandsAgree
            <4> QED BY <1>1, <3>1, <3>2, <4>1, <4>2
        <3> QED BY <1>7, <3>3, <3>4
    <2> QED BY <2>1, <2>2 DEF HandsKeep
<1>9. Live' = Live \/ \E x \in Tokens : Live' = Live \ {x}
    BY <1>1, <1>5
<1> HIDE DEF t
<1> QED BY <1>5, <1>8, <1>9, ShrinkStep DEF Quiet

LEMMA RemoveInvalidStep ==
    ASSUME IsFiniteSet(Requests), TypeOK, SlotInv, TypeOK', MarksOnce',
           NEW p \in Threads, RemoveInvalid(p) \/ MarkInvalid(p)
    PROVE  Quiet /\ SlotInv'
<1> USE DEF TypeOK, LocalTypeOK
<1>1. /\ pc[p] \in {"remove", "markInvalid"} /\ pc[p] \in Fetching /\ act[p] \in Tokens
      /\ UNCHANGED <<issued, tok, cur>>
    BY DEF RemoveInvalid, MarkInvalid, Fetching
<1>2. Shrinks /\ (Live' = Live \/ Live' = Live \ {Resolve(act[p])})
    BY <1>1, RemoveShrinks DEF RemoveInvalid, MarkInvalid
<1>3. HandsKeep
    <2>1. CASE CheckRaises(p)
        BY <1>1, <2>1, RaisedKeepsHands DEF CheckRaises
    <2>2. CASE pc' = [pc EXCEPT ![p] = "markInvalid"] /\ act' = act
        <3>1. InHand(p)' \subseteq InHand(p)
            BY <1>1, <2>2 DEF InHand, Refreshing
        <3> QED BY <1>1, <2>2, <3>1, FetchKeepsHands DEF Locations, Holding, Fetching
    <2> QED BY <2>1, <2>2 DEF RemoveInvalid, MarkInvalid
<1> QED BY <1>1, <1>2, <1>3, ShrinkStep, ResolveToken DEF Quiet

\* A refresh that brought a new token, by a thread or by a re-login.
LEMMA RefreshSucceedsStep ==
    ASSUME IsFiniteSet(Requests), TypeOK, SlotInv, TypeOK', MarksOnce',
           NEW p \in Threads, RefreshSucceeds(p)
    PROVE  (Quiet \/ Replaces) /\ SlotInv'
<1> USE DEF TypeOK, LocalTypeOK
<1>1. PICK new \in MintedTokens(cur[p]) :
          /\ ApplyRefreshedTokens(cur[p], new)
          /\ RefreshReturns(p, AppliedToken(cur[p], new)) \/ RefreshRaises(p)
    BY DEF RefreshSucceeds
<1> DEFINE old == Resolve(cur[p])
           ret == AppliedToken(cur[p], new)
<1>2. /\ pc[p] \in Refreshing /\ cur[p] \in Tokens /\ old \in Tokens /\ new \in Tokens
      /\ old = EndOf(Live, aliases, cur[p])
      /\ cur[p] \in InHand(p) /\ tok[p] \in InHand(p)
    BY ResolveToken, ResolveIsEnd DEF RefreshSucceeds, MintedTokens, InHand, SlotInv
<1>3. PICK l \in {"userInfo", "userInfoAgain", "condemn", Raised(p)} :
          /\ pc' = [pc EXCEPT ![p] = l]
          /\ l # Raised(p) => act'[p] = ret
          /\ \A q \in Threads \ {p} : act'[q] = act[q] /\ cur'[q] = cur[q]
          /\ tok' = tok
    <2>1. AfterRefresh(p, ret) \in {"userInfo", "userInfoAgain", "condemn"}
        BY DEF AfterRefresh
    <2>2. CASE RefreshReturns(p, ret)
        BY <2>1, <2>2 DEF RefreshReturns
    <2>3. CASE RefreshRaises(p)
        BY <2>3 DEF RefreshRaises
    <2> QED BY <1>1, <2>2, <2>3
<1>4. /\ l \in Locations /\ l \notin Refreshing /\ Raised(p) \notin Fetching
      /\ p \in Requests => l \in Holding
    BY DEF Raised, Locations, Holding, Fetching, Refreshing
<1>5. InHand(p)' \subseteq {tok[p], ret}
    BY <1>3, <1>4 DEF InHand
<1>6. CASE new \notin issued /\ InPool(old)
    <2>1. ret = new
        BY <1>6 DEF AppliedToken
    <2>2. \A r \in Requests : r # p => pc'[r] = pc[r] /\ InHand(r)' = InHand(r)
        BY <1>3 DEF InHand, Threads
    <2>3. p \in Requests => pc'[p] \in Holding /\ pc[p] \in Holding
        BY <1>2, <1>3, <1>4 DEF Holding, Fetching
    <2>4. InHand(p)' \subseteq InHand(p) \cup {new}
        BY <1>2, <1>5, <2>1
    <2>5. \A r \in Requests :
              /\ pc'[r] \in Holding <=> pc[r] \in Holding
              /\ tok'[r] = tok[r]
              /\ \/ InHand(r)' \subseteq InHand(r)
                 \/ /\ InHand(r)' \subseteq InHand(r) \cup {new}
                    /\ \E u \in InHand(r) : EndOf(Live, aliases, u) = old
        BY <1>2, <1>3, <2>2, <2>3, <2>4
    <2>6. new \in Tokens \ issued
        BY <1>2, <1>6
    <2>7. Replaces
        BY <1>1, <1>2, <1>6, <2>5, <2>6 DEF Replaces
    <2> QED BY <1>1, <1>2, <1>6, <2>5, <2>6, <2>7, ReplaceStep
<1>7. CASE new = old \/ ~InPool(old)
    <2>1. UNCHANGED <<accounts, inflight, aliases, issued>>
        BY <1>1, <1>2, <1>7, TokenKept
    <2>2. ret = old
        BY <1>7 DEF AppliedToken
    <2>3. HandsKeep
        <3>1. InHand(p)' \subseteq InHand(p) \cup {EndOf(Live, aliases, u) : u \in InHand(p)}
            BY <1>2, <1>5, <2>2
        <3>2. pc[p] \in Holding
            BY <1>2 DEF Holding, Fetching
        <3> HIDE DEF ret, old
        <3> QED BY <1>3, <1>4, <3>1, <3>2, FetchKeepsHands
    <2>4. Live' = Live
        BY <2>1 DEF Live, InPool
    <2> QED BY <2>1, <2>3, <2>4, PoolUnchanged, ShrinkStep DEF Quiet
<1> QED BY <1>1, <1>6, <1>7 DEF MintedTokens

LEMMA FetchStep ==
    ASSUME IsFiniteSet(Requests), TypeOK, SlotInv, TypeOK', MarksOnce',
           NEW p \in Threads, Fetch(p)
    PROVE  SlotMove /\ SlotInv'
<1>1. CASE FetchQuiet(p)
    BY <1>1, FetchQuietStep DEF SlotMove
<1>2. CASE RefreshSucceeds(p)
    BY <1>2, RefreshSucceedsStep DEF SlotMove
<1>3. CASE UpdateFromUpstream(p) \/ RemoveInvalid(p) \/ MarkInvalid(p)
    BY <1>3, UpdateFromUpstreamStep, RemoveInvalidStep DEF SlotMove
<1>4. CASE UserInfoFails(p) /\ p \in Requests
    <2>1. /\ pc[p] \in Holding /\ pc' = [pc EXCEPT ![p] = "acquire"]
          /\ tok' = [tok EXCEPT ![p] = NoToken]
          /\ act' = [act EXCEPT ![p] = NoToken]
          /\ UNCHANGED <<accounts, aliases, store, issued, cur>>
          /\ ReleaseSlot(tok[p])
        BY <1>4 DEF UserInfoFails, GiveBack, Holding, Fetching
    <2>2. Frees(p)
        BY <1>4, <2>1 DEF Frees, OthersStay, Holding, Fetching, Refreshing,
                          TypeOK, LocalTypeOK, Threads
    <2> QED BY <1>4, <2>1, <2>2, ReleaseStep DEF Frees, SlotMove
<1> QED BY <1>1, <1>2, <1>3, <1>4 DEF Fetch, FetchQuiet

\* A request that marks its result, or that never held a slot, moves no other.
LEMMA NonHolderKeeps ==
    ASSUME TypeOK, NEW r \in Requests, pc[r] \notin Holding, pc'[r] \notin Holding, OthersStay(r)
    PROVE  HandsKeep
BY DEF HandsKeep, OthersStay, InHand

LEMMA RequestStep ==
    ASSUME IsFiniteSet(Requests), TypeOK, SlotInv, TypeOK', MarksOnce',
           SlotConditions, NEW r \in Requests, Request(r)
    PROVE  SlotMove /\ SlotInv'
<1> USE DEF TypeOK, LocalTypeOK, Threads
<1>1. CASE Acquire(r)
    BY <1>1, AcquireStep DEF SlotMove
<1>2. CASE AcquireFails(r)
    <2>1. HandsKeep
        BY <1>2, NonHolderKeeps
           DEF AcquireFails, OthersStay, Holding, Fetching, Refreshing
    <2>2. UNCHANGED <<accounts, inflight, aliases, issued>>
        BY <1>2 DEF AcquireFails, pool
    <2>3. Live' = Live
        BY <2>2 DEF Live, InPool
    <2> QED BY <2>1, <2>2, <2>3, PoolUnchanged, ShrinkStep DEF Quiet, SlotMove
<1>3. CASE ReleaseUnused(r)
    <2>1. /\ ReleaseSlot(tok[r]) /\ pc' = [pc EXCEPT ![r] = "acquire"]
          /\ pc[r] \in Holding /\ tok' = [tok EXCEPT ![r] = NoToken]
          /\ UNCHANGED <<accounts, aliases, issued, act, cur>>
        BY <1>3 DEF ReleaseUnused, GiveBack, Holding
    <2>2. Frees(r)
        BY <2>1 DEF Frees, OthersStay, Holding, Fetching, Refreshing
    <2> QED BY <2>1, <2>2, ReleaseStep DEF Frees, SlotMove
<1>4. CASE MarkReleases(r)
    <2>1. /\ ReleaseSlot(tok[r]) /\ pc[r] = "generate"
          /\ UNCHANGED <<accounts, aliases, issued, tok, act, cur>>
        BY <1>4 DEF MarkReleases, SlotInv, MarksOnce
    <2>2. PICK l \in {"markSuccess", "markMessage", "markFailure", "markFailureTwice"} :
              pc' = [pc EXCEPT ![r] = l]
        BY <1>4, PoolAssumption DEF MarkReleases
    <2>3. Frees(r)
        BY <2>1, <2>2 DEF Frees, OthersStay, Holding, Fetching, Refreshing
    <2> QED BY <2>1, <2>3, ReleaseStep DEF Frees, SlotMove
<1>5. CASE MarkSuccess(r) \/ MarkFailure(r)
    <2>1. /\ pc[r] \in {"markSuccess", "markMessage", "markFailure"} /\ tok[r] \in Tokens
          /\ pc' = [pc EXCEPT ![r] = "done"] /\ tok' = [tok EXCEPT ![r] = NoToken]
          /\ UNCHANGED <<inflight, aliases, issued, act, cur>>
        BY <1>5, MarkedOnce
    <2>2. HandsKeep
        BY <2>1, NonHolderKeeps DEF OthersStay, Holding, Fetching, Refreshing
    <2>3. CASE ~InPool(Resolve(tok[r]))
        <3>1. UNCHANGED accounts
            BY <1>5, <2>3 DEF MarkSuccess, MarkFailure, UpdateAccount
        <3>2. Live' = Live
            BY <3>1 DEF Live, InPool
        <3> QED BY <2>1, <2>2, <3>1, <3>2, PoolUnchanged, ShrinkStep DEF Quiet, SlotMove
    <2>4. CASE InPool(Resolve(tok[r]))
        <3>1. \E a \in Account : UpdateAccount(tok[r], a)
            BY <1>5, <2>1, <2>4, MarkedAccount
        <3>2. Shrinks /\ (Live' = Live \/ Live' = Live \ {Resolve(tok[r])})
            BY <2>1, <3>1, UpdateShrinks
        <3>3. Quiet
            BY <2>1, <2>2, <3>2, ResolveToken DEF Quiet
        <3> QED BY <2>2, <3>2, <3>3, ShrinkStep DEF SlotMove
    <2> QED BY <2>3, <2>4
<1> QED BY <1>1, <1>2, <1>3, <1>4, <1>5 DEF Request

\* Re-logins and operators touch no thread.
LEMMA LocalKeeps ==
    ASSUME TypeOK, SlotInv, UNCHANGED <<pc, tok, act, cur>>
    PROVE  HandsKeep
BY DEF HandsKeep, InHand

LEMMA ReloginStep ==
    ASSUME IsFiniteSet(Requests), TypeOK, SlotInv, TypeOK', MarksOnce',
           NEW t \in Tokens, Relogin(t)
    PROVE  SlotMove /\ SlotInv'
<1>0. HandsKeep
    BY LocalKeeps, ReloginIsElsewhere DEF local
<1>1. CASE ReloginSucceeds(t)
    <2>1. PICK new \in MintedTokens(t) : ApplyRefreshedTokens(t, new)
        BY <1>1 DEF ReloginSucceeds
    <2>2. UNCHANGED <<pc, tok, act, cur>> /\ Resolve(t) \in Tokens
        BY <1>1, ResolveToken DEF ReloginSucceeds, local
    <2>3. CASE new \notin issued /\ InPool(Resolve(t))
        <3>1. new \in Tokens \ issued
            BY <2>2, <2>3 DEF MintedTokens
        <3>2. Replaces
            BY <2>1, <2>2, <2>3, <3>1 DEF Replaces
        <3>3. \A r \in Requests : /\ pc'[r] \in Holding <=> pc[r] \in Holding
                                  /\ tok'[r] = tok[r] /\ InHand(r)' \subseteq InHand(r)
            BY <2>2 DEF InHand
        <3> QED BY <2>1, <2>3, <3>1, <3>2, <3>3, ReplaceStep DEF SlotMove
    <2>4. CASE new = Resolve(t) \/ ~InPool(Resolve(t))
        <3>1. UNCHANGED <<accounts, inflight, aliases, issued>>
            BY <2>1, <2>4, TokenKept
        <3>2. Live' = Live
            BY <3>1 DEF Live, InPool
        <3> QED BY <1>0, <3>1, <3>2, PoolUnchanged, ShrinkStep DEF Quiet, SlotMove
    <2> QED BY <2>3, <2>4 DEF MintedTokens
<1>2. CASE ReloginPromotes(t)
    <2> DEFINE new == fresh[t]
               a == [status |-> "normal", quota |-> accounts[Resolve(new)].quota]
    <2>1. UpdateAccount(new, a) /\ UNCHANGED <<inflight, aliases, issued>> /\ new \in Tokens
        BY <1>2 DEF ReloginPromotes, TypeOK, LockTypeOK
    <2> HIDE DEF new
    <2>2. CASE InPool(Resolve(new))
        <3>1. accounts[Resolve(new)] \in Account
            BY <2>1, <2>2, ResolveToken DEF TypeOK, PoolTypeOK, InPool
        <3>2. a \in Account
            BY <3>1 DEF Account, Statuses
        <3> HIDE DEF a
        <3>3. Shrinks /\ (Live' = Live \/ Live' = Live \ {Resolve(new)})
            BY <2>1, <3>2, UpdateShrinks
        <3> QED BY <1>0, <2>1, <3>3, ShrinkStep, ResolveToken DEF Quiet, SlotMove
    <2>3. CASE ~InPool(Resolve(new))
        <3>1. UNCHANGED accounts
            BY <2>1, <2>3 DEF UpdateAccount
        <3>2. Live' = Live
            BY <3>1 DEF Live, InPool
        <3> QED BY <1>0, <2>1, <3>1, <3>2, PoolUnchanged, ShrinkStep DEF Quiet, SlotMove
    <2> QED BY <2>2, <2>3
<1>3. CASE ReloginDisables(t)
    <2>1. [status |-> "disabled", quota |-> 0] \in Account
        BY PoolAssumption DEF Account, Statuses
    <2>2. Shrinks /\ (Live' = Live \/ Live' = Live \ {Resolve(t)})
        BY <1>3, <2>1, UpdateShrinks DEF ReloginDisables
    <2> QED BY <1>0, <2>2, ShrinkStep, ResolveToken DEF Quiet, SlotMove
<1>4. CASE ReloginCondemns(t) \/ ReloginMarks(t)
    <2>1. Shrinks /\ (Live' = Live \/ Live' = Live \ {Resolve(t)})
        BY <1>4, RemoveShrinks DEF ReloginCondemns, ReloginMarks
    <2> QED BY <1>0, <2>1, ShrinkStep, ResolveToken DEF Quiet, SlotMove
<1>5. CASE ReloginRaises(t)
    <2>1. UNCHANGED <<accounts, inflight, aliases, issued>> /\ Live' = Live
        BY <1>5 DEF ReloginRaises, pool, Live, InPool
    <2> QED BY <1>0, <2>1, PoolUnchanged, ShrinkStep DEF Quiet, SlotMove
<1> QED BY <1>1, <1>2, <1>3, <1>4, <1>5 DEF Relogin

LEMMA EnvironmentStep ==
    ASSUME IsFiniteSet(Requests), TypeOK, SlotInv, TypeOK', MarksOnce', SlotConditions,
           StoreIssued, Environment
    PROVE  SlotMove /\ SlotInv'
<1>1. ASSUME NEW t \in Tokens, ImportAccount(t) PROVE SlotMove /\ SlotInv'
    BY <1>1, ImportStep DEF SlotMove
<1>2. ASSUME NEW t \in Tokens, DeleteAccounts(t) PROVE SlotMove /\ SlotInv'
    <2>1. HandsKeep
        BY <1>2, LocalKeeps DEF DeleteAccounts, local
    <2>2. Shrinks /\ Live' = Live \ {Resolve(t)}
        BY <1>2, DeleteShrinks DEF DeleteAccounts
    <2> QED BY <2>1, <2>2, ShrinkStep, ResolveToken DEF Quiet, SlotMove
<1>3. ASSUME NEW t \in Tokens, EditAccount(t) PROVE SlotMove /\ SlotInv'
    <2>1. HandsKeep
        BY <1>3, LocalKeeps DEF EditAccount, local
    <2>2. Shrinks /\ (Live' = Live \/ Live' = Live \ {Resolve(t)})
        BY <1>3, UpdateShrinks DEF EditAccount
    <2> QED BY <2>1, <2>2, ShrinkStep, ResolveToken DEF Quiet, SlotMove
<1>4. CASE UNCHANGED pool /\ HandsKeep
    <2>1. UNCHANGED <<accounts, inflight, aliases, issued>> /\ Live' = Live
        BY <1>4 DEF pool, Live, InPool
    <2> QED BY <1>4, <2>1, PoolUnchanged, ShrinkStep DEF Quiet, SlotMove
<1>5. ASSUME NEW t \in Tokens, StartRelogin(t) PROVE SlotMove /\ SlotInv'
    BY <1>4, <1>5, LocalKeeps DEF StartRelogin, local
<1>6. ASSUME NEW r \in Requests, StartRequest(r) PROVE SlotMove /\ SlotInv'
    <2>1. HandsKeep
        BY <1>6, NonHolderKeeps DEF StartRequest, OthersStay, Holding, Fetching, Refreshing,
                                    TypeOK, LocalTypeOK, Threads
    <2> QED BY <1>4, <1>6, <2>1 DEF StartRequest
<1>7. ASSUME NEW w \in Workers, StartJob(w) PROVE SlotMove /\ SlotInv'
    <2>1. HandsKeep
        BY <1>7, PoolAssumption DEF StartJob, HandsKeep, InHand, TypeOK, LocalTypeOK, Threads
    <2> QED BY <1>4, <1>7, <2>1 DEF StartJob
<1>8. CASE Restart
    BY <1>8, RestartStep DEF SlotMove
<1> QED BY <1>1, <1>2, <1>3, <1>5, <1>6, <1>7, <1>8 DEF Environment

-----------------------------------------------------------------------------
(* The counters are exact.                                                 *)

LEMMA NextSlotStep ==
    ASSUME IsFiniteSet(Requests), SlotConditions, TypeOK, TypeOK', StoreIssued, SlotInv, Next
    PROVE  SlotMove /\ SlotInv'
<1>1. MarksOnce'
    BY MarksStep
<1> QED BY <1>1, FetchStep, RequestStep, ReloginStep, EnvironmentStep DEF Next

LEMMA StutterStep ==
    ASSUME SlotInv, UNCHANGED vars
    PROVE  SlotInv'
<1>1. Live' = Live /\ UNCHANGED <<aliases, inflight, issued, pc, tok, act, cur>>
    BY DEF vars, pool, local, Live, InPool
<1>2. \A t : HoldersOf(t)' = HoldersOf(t)
    BY <1>1 DEF HoldersOf
<1>3. \A r : InHand(r)' = InHand(r)
    BY <1>1 DEF InHand
<1> QED BY <1>1, <1>2, <1>3
        DEF SlotInv, IssuedOK, HandsAgree, MarksOnce, NoLiveAlias, SlotsCounted

LEMMA InitSlots ==
    ASSUME Init
    PROVE  SlotInv
<1>1. Live \subseteq issued
    BY PoolAssumption DEF Init, Live, InPool
<1>2. \A r \in Requests : pc[r] = "idle"
    BY DEF Init, Threads
<1> QED BY <1>1, <1>2, FreshSlots DEF Init, Holding, Fetching, Refreshing

LEMMA SlotInvHolds ==
    ASSUME IsFiniteSet(Requests), SlotConditions
    PROVE  Spec => [](TypeOK /\ StoreIssued /\ SlotInv)
<1>1. Init => SlotInv
    BY InitSlots
<1>2. TypeOK /\ TypeOK' /\ StoreIssued /\ SlotInv /\ [Next]_vars => SlotInv'
    BY NextSlotStep, StutterStep
<1> QED BY <1>1, <1>2, IssuedHolds, PTL DEF Spec

LEMMA HoldersAgree ==
    TypeOK /\ SlotInv => \A t \in Tokens : Holders(t) = HoldersOf(t)
<1> SUFFICES ASSUME TypeOK, SlotInv, NEW t \in Tokens PROVE Holders(t) = HoldersOf(t)
    OBVIOUS
<1>1. ASSUME NEW r \in Requests, pc[r] \in Holding
      PROVE  Resolve(tok[r]) = EndOf(Live, aliases, tok[r])
    BY <1>1, HolderToken, ResolveIsEnd DEF SlotInv
<1> QED BY <1>1 DEF Holders, HoldersOf, Holds

\* Under these conditions the number of images an account is said to generate is the
\* number of requests that hold a slot of it, in every reachable state: whatever tokens
\* are replaced while threads still work with the old ones, accounts are checked,
\* removed, deleted or imported, and the process restarts.
THEOREM SlotsMatchHoldersHolds ==
    ASSUME IsFiniteSet(Requests), SlotConditions
    PROVE  Spec => []SlotsMatchHolders
<1>1. TypeOK /\ SlotInv => SlotsMatchHolders
    <2>1. SUFFICES ASSUME TypeOK, SlotInv, NEW t \in Tokens, InPool(t)
                   PROVE  inflight[t] = Cardinality(Holders(t))
        BY DEF SlotsMatchHolders
    <2>2. t \in Live /\ Holders(t) = HoldersOf(t)
        BY <2>1, HoldersAgree DEF Live
    <2> QED BY <2>1, <2>2 DEF SlotInv, SlotsCounted
<1> QED BY <1>1, SlotInvHolds, PTL

-----------------------------------------------------------------------------
(* The pool implements SlotPool.                                           *)

\* The sets of holders that the counters stand for.
Slotted == [t \in Tokens |-> IF t \in Live THEN HoldersOf(t) ELSE {}]

LEMMA SlottedAgree ==
    TypeOK /\ SlotInv =>
        [t \in Tokens |-> IF InPool(t) THEN Holders(t) ELSE {}] = Slotted
BY HoldersAgree DEF Slotted, Live

LEMMA SlottedAgreeNext ==
    TypeOK' /\ SlotInv' =>
        ([t \in Tokens |-> IF InPool(t) THEN Holders(t) ELSE {}] = Slotted)'
BY SlottedAgree, PTL

\* Each kind of step, in terms of accounts and sets of holders.
LEMMA QuietSlots ==
    ASSUME TypeOK, SlotInv, TypeOK', Quiet
    PROVE  \/ Live' = Live /\ Slotted' = Slotted
           \/ \E x \in Live : Live' = Live \ {x} /\ Slotted' = [Slotted EXCEPT ![x] = {}]
<1>1. \A t \in Live' : HoldersOf(t)' = HoldersOf(t)
    BY ShrinkKeepsHolders DEF Quiet
<1>2. CASE Live' = Live
    BY <1>1, <1>2 DEF Slotted
<1>3. ASSUME NEW x \in Live, Live' = Live \ {x}
      PROVE  Slotted' = [Slotted EXCEPT ![x] = {}]
    BY <1>1, <1>3 DEF Slotted, Live
<1>4. ASSUME NEW x \in Tokens, x \notin Live, Live' = Live \ {x}
      PROVE  Live' = Live
    BY <1>4
<1> QED BY <1>2, <1>3, <1>4 DEF Quiet

LEMMA AcquireSlots ==
    ASSUME TypeOK, SlotInv, NEW r \in Requests, Acquire(r)
    PROVE  \E x \in Live : /\ r \notin UNION {Slotted[t] : t \in Live}
                          /\ Cardinality(Slotted[x]) < MaxConcurrency
                          /\ Live' = Live
                          /\ Slotted' = [Slotted EXCEPT ![x] = @ \cup {r}]
<1>1. PICK x \in Live :
          /\ x \in FreeTokens(r)
          /\ Live' = Live
          /\ \A t : HoldersOf(t)' = IF t = x THEN HoldersOf(t) \cup {r} ELSE HoldersOf(t)
    BY AcquireHolders
<1>2. pc[r] \notin Holding
    BY DEF Acquire, Holding, Fetching, Refreshing
<1>3. r \notin UNION {Slotted[t] : t \in Live}
    BY <1>2 DEF Slotted, HoldersOf, Live
<1>4. Cardinality(Slotted[x]) < MaxConcurrency
    BY <1>1 DEF Slotted, Live, FreeTokens, SlotInv, SlotsCounted
<1>5. Slotted' = [Slotted EXCEPT ![x] = @ \cup {r}]
    BY <1>1 DEF Slotted, Live
<1> QED BY <1>1, <1>3, <1>4, <1>5

LEMMA FreesSlots ==
    ASSUME TypeOK, SlotInv, NEW r \in Requests, Frees(r)
    PROVE  /\ Live' = Live
           /\ \/ Slotted' = Slotted
              \/ \E x \in Live : r \in Slotted[x] /\ Slotted' = [Slotted EXCEPT ![x] = @ \ {r}]
<1> DEFINE x == EndOf(Live, aliases, tok[r])
<1>1. Live' = Live
    BY DEF Live, InPool, Frees
<1>2. \A t : HoldersOf(t)' = HoldersOf(t) \ {r}
    BY ReleaseHolders DEF Frees
<1>3. \A t : r \in HoldersOf(t) <=> t = x
    BY DEF HoldersOf, Frees
<1> HIDE DEF x
<1>4. CASE x \in Live
    <2>1. r \in Slotted[x]
        BY <1>3, <1>4 DEF Slotted, Live
    <2>2. \A t \in Tokens : t # x => HoldersOf(t)' = HoldersOf(t)
        BY <1>2, <1>3
    <2>3. Slotted' = [Slotted EXCEPT ![x] = @ \ {r}]
        BY <1>1, <1>2, <1>4, <2>2 DEF Slotted, Live
    <2> QED BY <1>1, <1>4, <2>1, <2>3
<1>5. CASE x \notin Live
    <2>1. \A t \in Live : HoldersOf(t)' = HoldersOf(t)
        BY <1>2, <1>3, <1>5
    <2> QED BY <1>1, <2>1 DEF Slotted
<1> QED BY <1>4, <1>5

LEMMA ReplacesSlots ==
    ASSUME TypeOK, SlotInv, Replaces
    PROVE  \E old \in Live, new \in Tokens \ Live :
               /\ Live' = (Live \ {old}) \cup {new}
               /\ Slotted' = [Slotted EXCEPT ![old] = {}, ![new] = Slotted[old]]
<1>1. PICK t \in Tokens, new \in Tokens \ issued :
          /\ ApplyRefreshedTokens(t, new)
          /\ InPool(Resolve(t))
          /\ \A r \in Requests : (pc'[r] \in Holding <=> pc[r] \in Holding) /\ tok'[r] = tok[r]
    BY DEF Replaces
<1> DEFINE old == Resolve(t)
<1>2. /\ old \in Live /\ new \notin Live
      /\ Live' = (Live \ {old}) \cup {new}
    BY <1>1, TokenReplaced
<1>3. /\ HoldersOf(new)' = HoldersOf(old)
      /\ \A u : u \notin {old, new} => HoldersOf(u)' = HoldersOf(u)
    BY <1>1, ReplaceHolders
<1> HIDE DEF old
<1>4. Slotted' = [Slotted EXCEPT ![old] = {}, ![new] = Slotted[old]]
    BY <1>2, <1>3 DEF Slotted, Live
<1> QED BY <1>2, <1>4

LEMMA ImportSlots ==
    ASSUME TypeOK, SlotInv, SlotConditions, NEW t \in Tokens, ImportAccount(t)
    PROVE  t \notin Live /\ Live' = Live \cup {t} /\ Slotted' = Slotted
<1>1. /\ t \notin Live /\ Live' = Live \cup {t}
      /\ UNCHANGED <<inflight, aliases, pc, tok, act, cur>>
    BY ImportAdmits
<1>2. \A u \in Tokens : (u # t => HoldersOf(u)' = HoldersOf(u)) /\ HoldersOf(t)' = {}
    <2>1. CASE /\ t \notin issued
               /\ \A u \in Tokens : EndOf(Live', aliases', u) = EndOf(Live, aliases, u)
        BY <1>1, <2>1, HolderToken, EndIssued DEF HoldersOf
    <2>2. CASE \A r \in Requests : pc[r] \notin Holding
        BY <1>1, <2>2 DEF HoldersOf
    <2> QED BY <2>1, <2>2, ImportAdmits
<1>3. Slotted' = Slotted
    BY <1>1, <1>2 DEF Slotted
<1> QED BY <1>1, <1>3

LEMMA RestartSlots ==
    ASSUME Restart
    PROVE  Slotted' = [t \in Tokens |-> {}]
<1>2. \A r \in Requests : pc'[r] \in {"idle", "done", "failed"}
    BY DEF Restart, Threads
<1>3. \A t : HoldersOf(t)' = {}
    BY <1>2 DEF HoldersOf, Holding, Fetching, Refreshing
<1> QED BY <1>3 DEF Slotted

\* Every step of the pool is a step of SlotPool or leaves its variables alone.
LEMMA SlotMoveImplements ==
    ASSUME TypeOK, SlotInv, TypeOK', SlotInv', SlotConditions, SlotMove
    PROVE  [Slots!Next]_(Slots!vars)
<1> DEFINE live == {t \in Tokens : InPool(t)}
           slots == [t \in Tokens |-> IF InPool(t) THEN Holders(t) ELSE {}]
<1>1. live = Live /\ live' = Live' /\ slots = Slotted /\ slots' = Slotted'
    <2>1. slots = Slotted
        BY SlottedAgree
    <2>2. slots' = Slotted'
        BY SlottedAgreeNext
    <2> QED BY <2>1, <2>2 DEF Live
<1> HIDE DEF live, slots
<1>2. CASE live' = live /\ slots' = slots
    BY <1>2 DEF Slots!vars, live, slots
<1>3. ASSUME NEW x \in live, live' = live \ {x}, slots' = [slots EXCEPT ![x] = {}]
      PROVE  Slots!Next
    BY <1>3 DEF Slots!Next, Slots!Drop, live, slots
<1>4. CASE Quiet
    BY <1>1, <1>2, <1>3, <1>4, QuietSlots
<1>5. ASSUME NEW r \in Requests, Acquire(r) PROVE Slots!Next
    <2>1. PICK x \in live : /\ r \notin UNION {slots[t] : t \in live}
                           /\ Cardinality(slots[x]) < MaxConcurrency
                           /\ live' = live
                           /\ slots' = [slots EXCEPT ![x] = @ \cup {r}]
        BY <1>1, <1>5, AcquireSlots
    <2>2. x \in Tokens
        BY DEF live
    <2>3. Slots!Cardinality(slots[x]) = Cardinality(slots[x])
        BY DEF Slots!Cardinality, Slots!IsFiniteSet, Cardinality, IsFiniteSet
    <2> QED BY <2>1, <2>2, <2>3 DEF Slots!Next, Slots!Grant, Slots!Busy, live, slots
<1>6. ASSUME NEW r \in Requests, Frees(r) PROVE [Slots!Next]_(Slots!vars)
    <2>1. CASE slots' = slots
        BY <1>1, <1>2, <1>6, <2>1, FreesSlots
    <2>2. ASSUME NEW x \in live, r \in slots[x], slots' = [slots EXCEPT ![x] = @ \ {r}]
          PROVE  Slots!Next
        <3>1. live' = live /\ x \in Tokens
            BY <1>1, <1>6, FreesSlots DEF live
        <3> QED BY <2>2, <3>1 DEF Slots!Next, Slots!Release, live, slots
    <2> QED BY <1>1, <1>6, <2>1, <2>2, FreesSlots
<1>7. CASE Replaces
    <2>1. PICK old \in live, new \in Tokens \ live :
              /\ live' = (live \ {old}) \cup {new}
              /\ slots' = [slots EXCEPT ![old] = {}, ![new] = slots[old]]
        BY <1>1, <1>7, ReplacesSlots
    <2>2. old \in Tokens
        BY DEF live
    <2> QED BY <2>1, <2>2 DEF Slots!Next, Slots!Replace, live, slots
<1>8. ASSUME NEW t \in Tokens, ImportAccount(t) PROVE Slots!Next
    <2>1. t \notin live /\ live' = live \cup {t} /\ slots' = slots
        BY <1>1, <1>8, ImportSlots
    <2> QED BY <2>1 DEF Slots!Next, Slots!Admit, live, slots
<1>9. CASE Restart
    <2>1. live' \in SUBSET Tokens /\ slots' = [t \in Tokens |-> {}]
        BY <1>1, <1>9, RestartSlots DEF Live
    <2> QED BY <2>1 DEF Slots!Next, Slots!Crash, live, slots
<1> QED BY <1>4, <1>5, <1>6, <1>7, <1>8, <1>9 DEF SlotMove

LEMMA InitImplements ==
    ASSUME Init
    PROVE  Slots!Init
<1>1. \A r \in Requests : ~Holds(r)
    BY DEF Init, Threads, Holds, Holding, Fetching, Refreshing
<1>2. [t \in Tokens |-> IF InPool(t) THEN Holders(t) ELSE {}] = [t \in Tokens |-> {}]
    BY <1>1 DEF Holders
<1> QED BY <1>2 DEF Slots!Init

\* The counters, aliases and locks of the pool implement sets of holders that follow
\* their account when its token is replaced (SlotPool): no slot is lost, counted twice
\* or granted beyond image_account_concurrency.
THEOREM PoolImplementsSlotPool ==
    ASSUME IsFiniteSet(Requests), SlotConditions
    PROVE  Spec => ImplementsSlotPool
<1>1. Init => Slots!Init
    BY InitImplements
<1>2. TypeOK /\ TypeOK' /\ SlotInv /\ SlotInv' /\ StoreIssued /\ [Next]_vars
          => [Slots!Next]_(Slots!vars)
    <2>1. SUFFICES ASSUME TypeOK, TypeOK', SlotInv, SlotInv', StoreIssued, [Next]_vars
                   PROVE  [Slots!Next]_(Slots!vars)
        OBVIOUS
    <2>2. CASE Next
        BY <2>1, <2>2, NextSlotStep, SlotMoveImplements
    <2>3. CASE UNCHANGED vars
        <3>1. \A t \in Tokens : InPool(t)' = InPool(t) /\ Holders(t)' = Holders(t)
            BY <2>3 DEF vars, pool, local, InPool, Holders, Holds, Resolve, Chain, Follows, Moves
        <3> QED BY <3>1 DEF Slots!vars
    <2> QED BY <2>1, <2>2, <2>3
<1> QED BY <1>1, <1>2, SlotInvHolds, PTL DEF Spec, ImplementsSlotPool, Slots!Spec

-----------------------------------------------------------------------------
\* A token that was replaced gets an account again by an import only, in every
\* configuration and whatever operators do: no check, refresh, login or mark that still
\* works with the replaced token writes the account back under it
\* (_resolve_access_token_locked before every write of account_service.py), and no
\* restart does, unless the last save before it raised.
THEOREM ReplacedTokensStayOutHolds == Spec => ReplacedTokensStayOut
<1>1. TypeOK /\ SavedOrKnown /\ IssuedOK /\ [Next]_vars =>
          [\A t \in Tokens : (aliases[t] # NoToken /\ ~InPool(t) /\ InPool(t)')
                                 => ImportAccount(t) \/ (Restart /\ unsaved)]_vars
    <2> SUFFICES ASSUME TypeOK, SavedOrKnown, IssuedOK, Next,
                        NEW t \in Tokens, aliases[t] # NoToken, ~InPool(t), InPool(t)'
                 PROVE  ImportAccount(t) \/ (Restart /\ unsaved)
        OBVIOUS
    <2>1. ~Mints
        BY DEF Mints, InPool, IssuedOK
    <2>2. CASE Restart
        BY <2>2 DEF Restart, LostStore, SavedOrKnown, InPool
    <2>3. ASSUME NEW u \in Tokens, ImportAccount(u) PROVE ImportAccount(t)
        <3>1. u = t
            BY <2>3 DEF ImportAccount, Put, InPool, TypeOK, PoolTypeOK
        <3> QED BY <2>3, <3>1
    <2> QED BY <2>1, <2>2, <2>3, NextMints
<1> QED BY <1>1, IssuedHolds, StoreKnown, PTL DEF Spec, ReplacedTokensStayOut
=============================================================================
