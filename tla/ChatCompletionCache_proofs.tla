--------------------- MODULE ChatCompletionCache_proofs ---------------------
(* Single flight, that nobody waits for a call that is over, and that only *)
(* whole answers are kept and given, for every number of requests, keys    *)
(* and threads, whatever settings each request reads.                      *)
EXTENDS ChatCompletionCache, SequenceTheorems, TLAPS

UnderWay == {"computing", "storing", "publishing", "dropping", "alerting"}

\* What the invariants need of the types.
FlightType ==
    /\ inflight \in [Keys -> Requests \cup {Nobody}]
    /\ call \in [Requests -> {"pending", "value", "error"}]
    /\ pc \in [Requests -> {"new", "computing", "waiting", "replaying", "following",
                            "storing", "publishing", "dropping", "alerting"} \cup Ended]
    /\ from = [r \in Requests |-> from[r]]
    /\ mode \in [Requests -> {"off", "cache", "dedupe"}]
    /\ at \in [Requests -> Threads \cup {Nobody}]

\* A registered call merges calls and is under way, and so is the call a waiting
\* request has not heard of.
MergedCalls ==
    /\ \A k \in Keys :
           inflight[k] # Nobody =>
               /\ pc[inflight[k]] \in {"computing", "storing", "dropping"}
               /\ mode[inflight[k]] = "dedupe"
               /\ call[inflight[k]] = "pending"
               /\ KeyOf[inflight[k]] = k
    /\ \A r \in Requests :
           pc[r] = "waiting" =>
               /\ from[r] \in Requests
               /\ mode[from[r]] = "dedupe"
               /\ call[from[r]] = "pending" => pc[from[r]] \in UnderWay

\* A call that merges calls is registered until it is stored or dropped, or until one
\* that does not merge them ends on its key.
Registered ==
    \A r \in Requests :
        (pc[r] \in {"computing", "storing", "dropping"} /\ mode[r] = "dedupe")
            => inflight[KeyOf[r]] = r \/ Unmerged(KeyOf[r])

\* A request that unregisters a call computed for itself, with the cache enabled; until
\* it tells, its call is pending.
Untold ==
    /\ \A r \in Requests :
           /\ pc[r] \in {"storing", "dropping"} => mode[r] \in {"cache", "dedupe"}
           /\ pc[r] \in {"computing", "storing", "dropping"} => from[r] = r
    /\ \A r \in Requests :
           pc[r] \in {"new", "computing", "storing", "publishing", "dropping", "alerting"}
               => call[r] = "pending"

LEMMA NextCases ==
    ASSUME [Next]_vars
    PROVE  \/ \E r \in Requests : Step(r)
           \/ \E r \in Requests : Leave(r)
           \/ UNCHANGED <<inflight, call, pc, from, mode>>
BY DEF Next, vars, Yields, Run, Expire

LEMMA FlightTypeHolds == Spec => []FlightType
<1>1. Init => FlightType
    BY CacheAssumption DEF Init, FlightType, Ended
<1>2. FlightType /\ [Next]_vars => FlightType'
    <2> SUFFICES ASSUME FlightType, [Next]_vars PROVE FlightType'
        OBVIOUS
    <2> USE CacheAssumption DEF FlightType, Ended, Threads
    <2>1. ASSUME NEW r \in Requests, Step(r) PROVE FlightType'
        <3>0. USE DEF Ends, Goes, Starts
        <3>1. CASE Bypass(r) \/ Own(r) \/ Join(r)
            BY <3>1 DEF Bypass, Own, Join
        <3>2. CASE Hit(r)
            BY <3>2 DEF Hit
        <3>3. CASE Wake(r) \/ EndReplay(r)
            BY <3>3 DEF Wake, EndReplay
        <3>4. CASE Computed(r) \/ ComputeFails(r)
            BY <3>4 DEF Computed, ComputeFails
        <3>5. CASE Store(r) \/ Publish(r) \/ Drop(r) \/ PublishError(r)
            BY <3>5 DEF Store, Publish, Drop, PublishError, Unregistered
        <3> QED BY <2>1, <3>1, <3>2, <3>3, <3>4, <3>5 DEF Step
    <2>2. ASSUME NEW r \in Requests, Leave(r) \/ Yields(r) PROVE FlightType'
        BY <2>2 DEF Leave, Ends, Yields
    <2>3. ASSUME NEW r \in Requests, NEW w \in Workers, Run(r, w) PROVE FlightType'
        BY <2>3 DEF Run
    <2>4. CASE Expire \/ UNCHANGED vars
        BY <2>4 DEF Expire, vars
    <2> QED BY <2>1, <2>2, <2>3, <2>4 DEF Next
<1> QED BY <1>1, <1>2, PTL DEF Spec

\* Types, MergedCalls, Registered and Untold together are inductive.
CallInv == FlightType /\ MergedCalls /\ Registered /\ Untold

LEMMA InitCalls == Init => CallInv
<1>1. Init => FlightType
    BY CacheAssumption DEF Init, FlightType, Ended
<1> QED BY <1>1, CacheAssumption DEF Init, CallInv, MergedCalls, Registered, Untold

\* That a request without merging has ended on a key remains so.
LEMMA UnmergedStays ==
    ASSUME FlightType, NEW r \in Requests, Step(r) \/ Leave(r), NEW k, Unmerged(k)
    PROVE  Unmerged(k)'
<1>1. PICK c \in Requests :
          /\ mode[c] = "cache" /\ KeyOf[c] = k /\ from[c] = c
          /\ pc[c] \in {"publishing", "alerting", "answered", "failed"}
    BY DEF Unmerged
<1>2. /\ mode'[c] = "cache" /\ from'[c] = c
      /\ pc'[c] \in {"publishing", "alerting", "answered", "failed"}
    <2> USE <1>1 DEF FlightType, Starts, Ends, Goes
    <2>1. CASE Bypass(r) \/ Hit(r) \/ Own(r) \/ Join(r)
        BY <2>1 DEF Bypass, Hit, Own, Join
    <2>2. CASE Wake(r) \/ EndReplay(r)
        BY <2>2 DEF Wake, EndReplay
    <2>3. CASE Computed(r) \/ ComputeFails(r) \/ Leave(r)
        BY <2>3 DEF Computed, ComputeFails, Leave
    <2>4. CASE Store(r) \/ Publish(r) \/ Drop(r) \/ PublishError(r)
        BY <2>4 DEF Store, Publish, Drop, PublishError
    <2> QED BY <2>1, <2>2, <2>3, <2>4 DEF Step
<1> QED BY <1>1, <1>2 DEF Unmerged

\* A request that looks its key up.
LEMMA LookupKeeps ==
    ASSUME CallInv, FlightType', NEW r \in Requests,
           Bypass(r) \/ Hit(r) \/ Own(r) \/ Join(r)
    PROVE  CallInv'
<1>0. \A k : Unmerged(k) => Unmerged(k)'
    BY UnmergedStays DEF Step, CallInv
<1> USE CacheAssumption DEF CallInv, FlightType
<1>1. CASE Bypass(r)
    <2>1. Untold' BY <1>1 DEF Bypass, Starts, Goes, Untold
    <2>2. Registered' BY <1>0, <1>1 DEF Bypass, Starts, Goes, Registered
    <2>3. MergedCalls' BY <1>1 DEF Bypass, Starts, Goes, MergedCalls, UnderWay, Untold
    <2> QED BY <2>1, <2>2, <2>3
<1>2. CASE Hit(r)
    <2>1. Untold' BY <1>2 DEF Hit, Starts, Ends, Untold, Ended
    <2>2. Registered' BY <1>0, <1>2 DEF Hit, Starts, Ends, Registered
    <2>3. MergedCalls' BY <1>2 DEF Hit, Starts, Ends, MergedCalls, UnderWay, Untold
    <2> QED BY <2>1, <2>2, <2>3
<1>3. CASE Own(r)
    <2>1. Untold' BY <1>3 DEF Own, Starts, Goes, Untold
    <2>2. Registered' BY <1>0, <1>3 DEF Own, Starts, Goes, Registered
    <2>3. PICK m \in {"dedupe", "cache"} :
              /\ Starts(r, m)
              /\ inflight' = IF m = "dedupe" THEN [inflight EXCEPT ![KeyOf[r]] = r]
                             ELSE inflight
              /\ from' = [from EXCEPT ![r] = r]
              /\ pc' = [pc EXCEPT ![r] = "computing"]
              /\ UNCHANGED call
        BY <1>3 DEF Own, Goes
    <2>4. ASSUME NEW k \in Keys, inflight'[k] # Nobody
          PROVE  /\ pc'[inflight'[k]] \in {"computing", "storing", "dropping"}
                 /\ mode'[inflight'[k]] = "dedupe"
                 /\ call'[inflight'[k]] = "pending"
                 /\ KeyOf[inflight'[k]] = k
        <3>1. CASE inflight'[k] = r /\ k = KeyOf[r] /\ m = "dedupe"
            BY <3>1, <2>3 DEF Starts, Untold
        <3>2. CASE inflight'[k] = inflight[k]
            <4>1. inflight[k] # r
                BY <3>2, <2>4, <2>3 DEF MergedCalls, Starts
            <4> QED BY <4>1, <3>2, <2>4, <2>3 DEF MergedCalls, Starts
        <3> QED BY <3>1, <3>2, <2>3
    <2>5. ASSUME NEW s \in Requests, pc'[s] = "waiting"
          PROVE  /\ from'[s] \in Requests
                 /\ mode'[from'[s]] = "dedupe"
                 /\ call'[from'[s]] = "pending" => pc'[from'[s]] \in UnderWay
        <3>1. s # r /\ pc[s] = "waiting" /\ from'[s] = from[s]
            BY <2>3, <2>5
        <3>2. from[s] \in Requests /\ from[s] # r
            BY <3>1, <2>3 DEF MergedCalls, Starts, Untold, UnderWay
        <3> QED BY <3>1, <3>2, <2>3 DEF MergedCalls, Starts
    <2>6. MergedCalls' BY <2>4, <2>5 DEF MergedCalls
    <2> QED BY <2>1, <2>2, <2>6
<1>4. CASE Join(r)
    <2>1. Untold' BY <1>4 DEF Join, Starts, Goes, Untold
    <2>2. Registered' BY <1>0, <1>4 DEF Join, Starts, Goes, Registered
    <2>3. MergedCalls' BY <1>4 DEF Join, Starts, Goes, MergedCalls, UnderWay, Untold
    <2> QED BY <2>1, <2>2, <2>3
<1> QED BY <1>1, <1>2, <1>3, <1>4

\* A request that waits or replays.
LEMMA FollowerKeeps ==
    ASSUME CallInv, FlightType', NEW r \in Requests, Wake(r) \/ EndReplay(r)
    PROVE  CallInv'
<1>0. \A k : Unmerged(k) => Unmerged(k)'
    BY UnmergedStays DEF Step, CallInv
<1> USE CacheAssumption DEF CallInv, FlightType, Ends, Ended
<1>1. pc[r] \in {"waiting", "replaying", "following"}
    BY DEF Wake, EndReplay
<1>2. /\ UNCHANGED <<inflight, call, from, mode>>
      /\ \E to \in {"following"} \cup Ended : pc' = [pc EXCEPT ![r] = to]
    BY DEF Wake, EndReplay
<1>3. Untold' BY <1>1, <1>2 DEF Untold
<1>4. Registered' BY <1>0, <1>1, <1>2 DEF Registered
<1>5. MergedCalls' BY <1>1, <1>2 DEF MergedCalls, UnderWay
<1> QED BY <1>3, <1>4, <1>5

\* An owner, or the event loop that closes its generator.
LEMMA OwnerKeeps ==
    ASSUME CallInv, FlightType', NEW r \in Requests,
           \/ Computed(r) \/ ComputeFails(r) \/ Store(r) \/ Publish(r)
           \/ Drop(r) \/ PublishError(r) \/ Leave(r)
    PROVE  CallInv'
<1>0. \A k : Unmerged(k) => Unmerged(k)'
    BY UnmergedStays DEF Step, CallInv
<1> USE CacheAssumption DEF CallInv, FlightType, Ends, Ended, Goes
<1>1. CASE Computed(r) \/ ComputeFails(r)
    <2>1. Untold' BY <1>1 DEF Computed, ComputeFails, Untold
    <2>2. Registered' BY <1>0, <1>1 DEF Computed, ComputeFails, Registered
    <2>3. MergedCalls' BY <1>1 DEF Computed, ComputeFails, MergedCalls, UnderWay
    <2> QED BY <2>1, <2>2, <2>3
<1>2. CASE Store(r) \/ Drop(r)
    <2>1. /\ pc[r] \in {"storing", "dropping"}
          /\ \E to \in {"publishing", "alerting"} : pc' = [pc EXCEPT ![r] = to]
          /\ inflight' = [inflight EXCEPT ![KeyOf[r]] = Nobody]
          /\ UNCHANGED <<call, from, mode>>
        BY <1>2 DEF Store, Drop, Unregistered
    <2>2. Untold' BY <2>1 DEF Untold
    <2>3. ASSUME NEW s \in Requests, mode'[s] = "dedupe",
                 pc'[s] \in {"computing", "storing", "dropping"}
          PROVE  inflight'[KeyOf[s]] = s \/ Unmerged(KeyOf[s])'
        <3>1. s # r /\ (inflight[KeyOf[s]] = s \/ Unmerged(KeyOf[s]))
            BY <2>1, <2>3 DEF Registered
        <3>2. CASE Unmerged(KeyOf[s])
            BY <1>0, <3>2
        <3>3. CASE inflight[KeyOf[s]] = s /\ KeyOf[s] # KeyOf[r]
            BY <2>1, <3>3
        <3>4. CASE inflight[KeyOf[s]] = s /\ KeyOf[s] = KeyOf[r] /\ mode[r] = "dedupe"
            BY <1>0, <2>1, <3>1, <3>4 DEF Registered
        <3>5. CASE KeyOf[s] = KeyOf[r] /\ mode[r] = "cache"
            <4>1. /\ mode'[r] = "cache" /\ from'[r] = r /\ KeyOf[r] = KeyOf[s]
                  /\ pc'[r] \in {"publishing", "alerting", "answered", "failed"}
                BY <2>1, <3>5 DEF Untold
            <4> QED BY <4>1 DEF Unmerged
        <3> QED BY <2>1, <3>1, <3>2, <3>3, <3>4, <3>5 DEF Untold
    <2>4. Registered' BY <2>3 DEF Registered
    <2>5. MergedCalls' BY <2>1 DEF MergedCalls, UnderWay
    <2> QED BY <2>2, <2>4, <2>5
<1>3. CASE Publish(r) \/ PublishError(r)
    <2>1. Untold' BY <1>3 DEF Publish, PublishError, Untold
    <2>2. Registered' BY <1>0, <1>3 DEF Publish, PublishError, Registered
    <2>3. MergedCalls' BY <1>3 DEF Publish, PublishError, MergedCalls, UnderWay
    <2> QED BY <2>1, <2>2, <2>3
<1>4. CASE Leave(r)
    <2>1. Untold' BY <1>4 DEF Leave, Untold
    <2>2. Registered' BY <1>0, <1>4 DEF Leave, Registered
    <2>3. MergedCalls' BY <1>4 DEF Leave, MergedCalls, UnderWay
    <2> QED BY <2>1, <2>2, <2>3
<1> QED BY <1>1, <1>2, <1>3, <1>4

LEMMA CallInvariant == Spec => []CallInv
<1>1. CallInv /\ FlightType' /\ [Next]_vars => CallInv'
    <2> SUFFICES ASSUME CallInv, FlightType', [Next]_vars PROVE CallInv'
        OBVIOUS
    <2>1. ASSUME NEW r \in Requests, Step(r) PROVE CallInv'
        BY <2>1, LookupKeeps, FollowerKeeps, OwnerKeeps DEF Step
    <2>2. ASSUME NEW r \in Requests, Leave(r) PROVE CallInv'
        BY <2>2, OwnerKeeps
    <2>3. CASE UNCHANGED <<inflight, call, pc, from, mode>>
        BY <2>3 DEF CallInv, MergedCalls, Registered, Untold, Unmerged
    <2> QED BY <2>1, <2>2, <2>3, NextCases
<1> QED BY <1>1, InitCalls, FlightTypeHolds, PTL DEF Spec

\* Requests that merge calls never compute the same key at once, until one that does not
\* merge them, whatever made its settings differ, ends on that key (every owner
\* pops _inflight[key] when it ends).
THEOREM SingleFlightHolds == Spec => []SingleFlight
<1>1. CallInv => SingleFlight
    BY DEF CallInv, Registered, SingleFlight
<1> QED BY <1>1, CallInvariant, PTL

\* A request that waits is always told in the end by an owner that still runs, and
\* nobody joins a call that is over: that also holds while requests without merging take
\* the registrations of others away.
THEOREM NobodyWaitsInVainHolds == Spec => [](NobodyWaitsInVain /\ RegisteredCallsRun)
<1>1. CallInv => NobodyWaitsInVain /\ RegisteredCallsRun
    BY DEF CallInv, MergedCalls, NobodyWaitsInVain, RegisteredCallsRun, UnderWay, Ended
<1> QED BY <1>1, CallInvariant, PTL

-----------------------------------------------------------------------------
(* Whole answers.                                                          *)

\* The requests whose computation has run to its end: once there, they stay.
Whole == {s \in Requests : pc[s] \in {"publishing", "answered"}}

EntriesOf(S) == Seq([key : Keys, by : S])

\* Entries and published answers are whole, and a request that goes on with an answer has
\* one of these, or its own.
AnswersWhole ==
    /\ entries \in EntriesOf(Whole)
    /\ \A s \in Requests : call[s] = "value" => s \in Whole
    /\ \A r \in Requests :
          /\ pc[r] \in {"replaying", "following", "answered"} => from[r] \in Whole
          /\ pc[r] \in {"computing", "storing", "publishing"} => from[r] = r
          /\ pc[r] = "waiting" => from[r] \in Requests

LEMMA EntriesGrow ==
    ASSUME NEW S, NEW T, NEW s \in EntriesOf(S), S \subseteq T
    PROVE  s \in EntriesOf(T)
<1>1. [key : Keys, by : S] \subseteq [key : Keys, by : T]
    OBVIOUS
<1> QED BY <1>1, SeqMonotonic DEF EntriesOf

LEMMA PartTyped ==
    ASSUME NEW S, NEW s \in EntriesOf(S), NEW m \in Nat, NEW n \in Nat,
           m >= 1, n <= Len(s)
    PROVE  SubSeq(s, m, n) \in EntriesOf(S)
<1> DEFINE E == [key : Keys, by : S]
<1>1. s \in Seq(E)
    BY DEF EntriesOf
<1> HIDE DEF E
<1>2. Len(s) \in Nat
    BY <1>1, LenProperties
<1>3. \A i \in m .. n : s[i] \in E
    BY <1>1, <1>2, ElementOfSeq
<1>4. SubSeq(s, m, n) \in Seq(E)
    BY <1>3, SubSeqProperties
<1> QED BY <1>4 DEF EntriesOf, E

LEMMA EntryFound ==
    ASSUME NEW S, entries \in EntriesOf(S), NEW k, HasEntry(k)
    PROVE  Entry(k) \in 1 .. Len(entries) /\ entries[Entry(k)].by \in S
<1>1. DOMAIN entries = 1 .. Len(entries)
    BY LenProperties DEF EntriesOf
<1>2. Entry(k) \in DOMAIN entries
    BY DEF HasEntry, Entry
<1>3. entries[Entry(k)] \in [key : Keys, by : S]
    BY <1>1, <1>2, ElementOfSeq DEF EntriesOf
<1> QED BY <1>1, <1>2, <1>3

\* What is stored are entries that were there, and the new one.
LEMMA StoredTyped ==
    ASSUME NEW S, entries \in EntriesOf(S), NEW k \in Keys, NEW r \in S
    PROVE  Stored(k, r) \in EntriesOf(S)
<1> DEFINE new == [key |-> k, by |-> r]
           all == Append(Others(k), new)
<1>1. Len(entries) \in Nat
    BY LenProperties DEF EntriesOf
<1>2. Others(k) \in EntriesOf(S)
    <2>1. CASE HasEntry(k)
        <3>1. Entry(k) \in 1 .. Len(entries)
            BY <2>1, EntryFound
        <3>2. /\ Entry(k) - 1 \in Nat /\ Entry(k) + 1 \in Nat
              /\ Entry(k) + 1 >= 1 /\ Entry(k) - 1 <= Len(entries)
            BY <1>1, <3>1
        <3>3. SubSeq(entries, 1, Entry(k) - 1) \in EntriesOf(S)
            BY <3>2, PartTyped
        <3>4. SubSeq(entries, Entry(k) + 1, Len(entries)) \in EntriesOf(S)
            BY <1>1, <3>2, PartTyped
        <3> QED BY <2>1, <3>3, <3>4, ConcatProperties DEF Others, EntriesOf
    <2>2. CASE ~HasEntry(k)
        BY <2>2 DEF Others
    <2> QED BY <2>1, <2>2
<1>3. new \in [key : Keys, by : S]
    OBVIOUS
<1>4. all \in EntriesOf(S)
    BY <1>2, <1>3, AppendProperties DEF EntriesOf
<1>5. Len(all) \in Nat
    BY <1>4, LenProperties DEF EntriesOf
<1> HIDE DEF all
<1>6. CASE Len(all) > MaxEntries
    <2>1. MaxEntries \in Nat
        BY CacheAssumption
    <2>2. Len(all) - MaxEntries + 1 \in Nat /\ Len(all) - MaxEntries + 1 >= 1
        BY <1>5, <1>6, <2>1
    <2>3. SubSeq(all, Len(all) - MaxEntries + 1, Len(all)) \in EntriesOf(S)
        BY <1>4, <1>5, <2>2, PartTyped
    <2> QED BY <1>6, <2>3 DEF Stored, all
<1>7. CASE ~(Len(all) > MaxEntries)
    BY <1>4, <1>7 DEF Stored, all
<1> QED BY <1>6, <1>7

\* A step of one request that keeps what is whole, and the entries.
LEMMA WholeGrows ==
    ASSUME FlightType, [Next]_vars
    PROVE  Whole \subseteq Whole'
<1> SUFFICES ASSUME NEW s \in Requests, pc[s] \in {"publishing", "answered"}
             PROVE  pc'[s] \in {"publishing", "answered"}
    BY DEF Whole
<1> USE DEF FlightType, Ends, Goes, Starts
<1>1. ASSUME NEW r \in Requests, Step(r) PROVE pc'[s] \in {"publishing", "answered"}
    <2>1. CASE Bypass(r) \/ Hit(r) \/ Own(r) \/ Join(r)
        BY <2>1 DEF Bypass, Hit, Own, Join
    <2>2. CASE Wake(r) \/ EndReplay(r)
        BY <2>2 DEF Wake, EndReplay
    <2>3. CASE Computed(r) \/ ComputeFails(r)
        BY <2>3 DEF Computed, ComputeFails
    <2>4. CASE Store(r) \/ Publish(r) \/ Drop(r) \/ PublishError(r)
        BY <2>4 DEF Store, Publish, Drop, PublishError
    <2> QED BY <1>1, <2>1, <2>2, <2>3, <2>4 DEF Step
<1>2. ASSUME NEW r \in Requests, Leave(r) PROVE pc'[s] \in {"publishing", "answered"}
    BY <1>2 DEF Leave
<1>3. CASE UNCHANGED pc
    BY <1>3
<1> QED BY <1>1, <1>2, <1>3, NextCases

\* A request gets its answer from itself, or from one that is whole.
LEMMA AnswersKept ==
    ASSUME FlightType, FlightType', AnswersWhole, Whole \subseteq Whole',
           NEW r \in Requests,
           \A s \in Requests : s # r => pc'[s] = pc[s] /\ from'[s] = from[s],
           entries' \in EntriesOf(Whole'),
           \A s \in Requests : call'[s] = "value" => call[s] = "value" \/ s \in Whole',
           pc'[r] \in {"replaying", "following", "answered"} => from'[r] \in Whole',
           pc'[r] \in {"computing", "storing", "publishing"} => from'[r] = r,
           pc'[r] = "waiting" => from'[r] \in Requests
    PROVE  AnswersWhole'
<1>1. \A s \in Requests : call'[s] = "value" => s \in Whole'
    BY DEF AnswersWhole
<1>2. ASSUME NEW s \in Requests
      PROVE  /\ pc'[s] \in {"replaying", "following", "answered"} => from'[s] \in Whole'
             /\ pc'[s] \in {"computing", "storing", "publishing"} => from'[s] = s
             /\ pc'[s] = "waiting" => from'[s] \in Requests
    <2>1. CASE s = r
        BY <2>1
    <2>2. CASE s # r
        BY <2>2 DEF AnswersWhole
    <2> QED BY <2>1, <2>2
<1> QED BY <1>1, <1>2 DEF AnswersWhole

LEMMA StepAnswers ==
    ASSUME FlightType, FlightType', AnswersWhole, Whole \subseteq Whole',
           NEW r \in Requests, Step(r)
    PROVE  AnswersWhole'
<1> USE DEF Ends, Goes, Starts
<1>1. entries' \in EntriesOf(Whole')
    <2>1. entries \in EntriesOf(Whole')
        BY EntriesGrow DEF AnswersWhole
    <2>2. CASE Store(r)
        <3>1. r \in Whole'
            BY <2>2 DEF Store, Whole, FlightType
        <3>2. KeyOf[r] \in Keys /\ entries' = Stored(KeyOf[r], r)
            BY <2>2, CacheAssumption DEF Store
        <3> QED BY <2>1, <3>1, <3>2, StoredTyped
    <2>3. CASE ~Store(r)
        BY <2>1, <2>3 DEF Step, Bypass, Hit, Own, Join, Wake, EndReplay, Computed, ComputeFails,
           Publish, Drop, PublishError
    <2> QED BY <2>2, <2>3
<1>2. \A s \in Requests : s # r => pc'[s] = pc[s] /\ from'[s] = from[s]
    BY DEF Step, Bypass, Hit, Own, Join, Wake, EndReplay, Computed, ComputeFails, Store,
       Publish, Drop, PublishError, FlightType
<1>3. \A s \in Requests : call'[s] = "value" => call[s] = "value" \/ s \in Whole'
    <2>1. CASE Publish(r)
        BY <2>1 DEF Publish, FlightType, Whole
    <2>2. CASE ~Publish(r)
        BY <2>2 DEF Step, Bypass, Hit, Own, Join, Wake, EndReplay, Computed, ComputeFails,
           Store, Drop, PublishError, FlightType
    <2> QED BY <2>1, <2>2
<1>4. /\ pc'[r] \in {"replaying", "following", "answered"} => from'[r] \in Whole'
      /\ pc'[r] \in {"computing", "storing", "publishing"} => from'[r] = r
      /\ pc'[r] = "waiting" => from'[r] \in Requests
    <2>1. CASE Bypass(r) \/ Own(r)
        <3>1. pc'[r] = "computing" /\ from'[r] = r
            BY <2>1 DEF Bypass, Own, FlightType
        <3> QED BY <3>1
    <2>2. CASE Hit(r)
        <3>1. /\ pc'[r] \in {"replaying", "answered"}
              /\ from'[r] = entries[Entry(KeyOf[r])].by /\ HasEntry(KeyOf[r])
            BY <2>2 DEF Hit, FlightType
        <3>2. from'[r] \in Whole
            BY <3>1, EntryFound DEF AnswersWhole
        <3> QED BY <3>1, <3>2
    <2>3. CASE Join(r)
        <3>1. pc'[r] = "waiting" /\ from'[r] = inflight[KeyOf[r]]
            BY <2>3 DEF Join, FlightType
        <3>2. inflight[KeyOf[r]] \in Requests
            <4>1. KeyOf[r] \in Keys
                BY CacheAssumption
            <4> QED BY <2>3, <4>1 DEF Join, FlightType
        <3> QED BY <3>1, <3>2
    <2>4. CASE Wake(r)
        <3>1. /\ pc[r] = "waiting" /\ from'[r] = from[r]
              /\ \/ pc'[r] = "failed"
                 \/ pc'[r] \in {"following", "answered"} /\ call[from[r]] = "value"
            BY <2>4 DEF Wake, FlightType
        <3>2. from[r] \in Requests
            BY <3>1 DEF AnswersWhole
        <3>3. call[from[r]] = "value" => from[r] \in Whole
            BY <3>2 DEF AnswersWhole
        <3> QED BY <3>1, <3>3
    <2>5. CASE EndReplay(r)
        <3>1. /\ pc[r] \in {"replaying", "following"} /\ from'[r] = from[r]
              /\ pc'[r] \in {"failed", "answered"}
            BY <2>5 DEF EndReplay, FlightType
        <3> QED BY <3>1 DEF AnswersWhole
    <2>6. CASE Computed(r) \/ Store(r) \/ Publish(r)
        <3>1. /\ pc[r] \in {"computing", "storing", "publishing"} /\ from'[r] = from[r]
              /\ pc'[r] \in {"answered", "storing", "publishing"}
            BY <2>6 DEF Computed, Store, Publish, FlightType
        <3>2. from'[r] = r
            BY <3>1 DEF AnswersWhole
        <3>3. pc'[r] = "answered" => r \in Whole'
            BY DEF Whole
        <3> QED BY <3>1, <3>2, <3>3
    <2>7. CASE ComputeFails(r) \/ Drop(r) \/ PublishError(r)
        <3>1. pc'[r] \in {"failed", "dropping", "alerting"}
            BY <2>7 DEF ComputeFails, Drop, PublishError, FlightType
        <3> QED BY <3>1
    <2> QED BY <2>1, <2>2, <2>3, <2>4, <2>5, <2>6, <2>7 DEF Step
<1> QED BY <1>1, <1>2, <1>3, <1>4, AnswersKept

LEMMA OtherAnswers ==
    ASSUME FlightType, FlightType', AnswersWhole, Whole \subseteq Whole', [Next]_vars,
           ~ \E r \in Requests : Step(r)
    PROVE  AnswersWhole'
<1>0. entries \in EntriesOf(Whole')
    BY EntriesGrow DEF AnswersWhole
<1>1. ASSUME NEW r \in Requests, Leave(r) PROVE AnswersWhole'
    <2>1. /\ UNCHANGED <<entries, call, from>>
          /\ \A s \in Requests : s # r => pc'[s] = pc[s]
          /\ pc'[r] \in {"dropping", "left"}
        BY <1>1 DEF Leave, Ends, FlightType
    <2> QED BY <1>0, <2>1, AnswersKept
<1>2. CASE UNCHANGED <<inflight, call, pc, from, mode>>
    <2>1. entries' = entries \/ Expire
        BY <1>2 DEF Next, vars, Step, Yields, Leave, Run
    <2>2. entries' \in EntriesOf(Whole')
        <3>1. CASE Expire
            BY <1>0, <3>1, HeadTailProperties DEF Expire, EntriesOf
        <3> QED BY <1>0, <2>1, <3>1
    <2> QED BY <1>2, <2>2 DEF AnswersWhole, Whole
<1> QED BY <1>1, <1>2, NextCases

\* Nobody is answered with, and the cache never keeps, chunks of a computation that raised
\* or was given up (get_or_compute_stream stores only after the last chunk), with any number
\* of requests, keys, threads and entries, and whatever mode each request reads.
THEOREM WholeAnswersOnlyHolds == Spec => []WholeAnswersOnly
<1>1. Init => AnswersWhole
    <2> SUFFICES ASSUME Init PROVE AnswersWhole
        OBVIOUS
    <2>1. entries \in EntriesOf(Whole)
        BY EmptySeq DEF Init, EntriesOf
    <2> QED BY <2>1 DEF Init, AnswersWhole
<1>2. AnswersWhole /\ FlightType /\ FlightType' /\ [Next]_vars => AnswersWhole'
    BY WholeGrows, StepAnswers, OtherAnswers
<1>3. AnswersWhole => WholeAnswersOnly
    <2> SUFFICES ASSUME AnswersWhole
                 PROVE  /\ \A i \in DOMAIN entries : entries[i].by \in Whole
                        /\ \A r \in Requests : pc[r] = "answered" => from[r] \in Whole
        BY DEF WholeAnswersOnly, Whole
    <2>1. ASSUME NEW i \in DOMAIN entries PROVE entries[i].by \in Whole
        <3>1. entries \in Seq([key : Keys, by : Whole])
            BY DEF AnswersWhole, EntriesOf
        <3>2. DOMAIN entries = 1 .. Len(entries)
            BY <3>1, LenProperties
        <3>3. entries[i] \in [key : Keys, by : Whole]
            BY <3>1, <3>2, ElementOfSeq
        <3> QED BY <3>3
    <2> QED BY <2>1 DEF AnswersWhole
<1> QED BY <1>1, <1>2, <1>3, FlightTypeHolds, PTL DEF Spec
=============================================================================
