-------------------------- MODULE Upstream_proofs ---------------------------
(***************************************************************************)
(* What is proved of the parts that talk to the upstream, each for every   *)
(* value of its constants: image requests, polling of their results,       *)
(* search answers and the clearance of proxies.                            *)
(***************************************************************************)
EXTENDS ImageGeneration, ImagePolling, SearchAnswers, ProxyClearance, TLAPS

-----------------------------------------------------------------------------
(* Image requests: no image that was generated is lost.                    *)

LEMMA LimitsAreNumbers == Limits \in [Retried -> Nat]
BY GenerationAssumption DEF Limits, Retried

\* A failed attempt counts its retry, below the limit, or ends the image.
LEMMA FailsType ==
    ASSUME TypeOK, NEW i \in Images, pc[i] = "streaming", NEW why \in {"text", "tls", "conn", "poll", "other"},
           Fails(i, why)
    PROVE  TypeOK'
<1>1. CASE why \in Retried /\ ~emitted[i] /\ retries[i][why] < Limits[why]
    <2>1. /\ retries' = [retries EXCEPT ![i][why] = @ + 1]
          /\ pc' = [pc EXCEPT ![i] = "acquiring"]
          /\ account' = [account EXCEPT ![i] = NoAccount]
          /\ UNCHANGED <<request, emitted, talked, delivered, verdict, usable, outputs>>
        BY <1>1 DEF Fails, Marked, Again
    <2>2. retries' \in [Images -> [Retried -> Nat]]
        BY <1>1, <2>1 DEF TypeOK
    <2>3. \A j \in Images, k \in Retried : retries'[j][k] <= Limits[k]
        BY <1>1, <2>1, LimitsAreNumbers DEF TypeOK
    <2> QED BY <2>1, <2>2, <2>3, GenerationAssumption DEF TypeOK, Ended, request
<1>2. CASE ~(why \in Retried /\ ~emitted[i] /\ retries[i][why] < Limits[why])
    <2>1. /\ pc' = [pc EXCEPT ![i] = "failed"]
          /\ outputs' = [outputs EXCEPT ![i] = "none"]
          /\ account' = [account EXCEPT ![i] = NoAccount]
          /\ UNCHANGED <<request, emitted, talked, delivered, verdict, usable, retries>>
        BY <1>2 DEF Fails, Marked, Ends
    <2> QED BY <2>1, GenerationAssumption DEF TypeOK, Ended, request
<1> QED BY <1>1, <1>2

\* An image that ends has an output exactly when it is done.
LEMMA EndsType ==
    ASSUME TypeOK, NEW i \in Images, NEW how \in Ended,
           NEW output \in {"none", "image", "message", "empty"},
           (how = "done") <=> (output # "none"),
           Marked(i), Ends(i, how, output), usable' \subseteq Accounts
    PROVE  TypeOK'
<1>1. /\ pc' = [pc EXCEPT ![i] = how] /\ outputs' = [outputs EXCEPT ![i] = output]
      /\ account' = [account EXCEPT ![i] = NoAccount]
      /\ UNCHANGED <<request, emitted, talked, delivered, verdict, retries>>
    BY DEF Marked, Ends
<1>2. /\ \A j \in Images : (pc'[j] = "streaming") <=> (account'[j] # NoAccount)
      /\ \A j \in Images : (pc'[j] = "done") <=> (outputs'[j] # "none")
    BY <1>1 DEF TypeOK, Ended
<1> QED BY <1>1, <1>2, GenerationAssumption DEF TypeOK, request

LEMMA LoopType ==
    ASSUME TypeOK, NEW i \in Images, Loop(i) \/ Event(i)
    PROVE  TypeOK'
<1> USE GenerationAssumption DEF request
<1>1. CASE Start(i)
    BY <1>1 DEF Start, TypeOK, Ended
<1>2. CASE Acquire(i)
    BY <1>2 DEF Acquire, TypeOK, Ended
<1>3. CASE AcquireFails(i)
    BY <1>3 DEF AcquireFails, TypeOK, Ended
<1>4. CASE Event(i)
    BY <1>4 DEF Event, TypeOK
<1>5. CASE Succeeds(i) \/ Replies(i)
    BY <1>5, EndsType DEF Succeeds, Replies, TypeOK, Ended
<1>6. CASE EndsEmpty(i)
    BY <1>6, EndsType DEF EndsEmpty, TypeOK, Ended
<1>7. CASE TimesOut(i) \/ RepliesText(i) \/ Breaks(i) \/ Refused(i)
    BY <1>7, FailsType DEF TimesOut, RepliesText, Breaks, Refused
<1>8. CASE Refreshed(i)
    BY <1>8 DEF Refreshed, Marked, Again, TypeOK, Ended
<1>9. CASE Rejected(i)
    <2>1. CASE emitted[i]
        BY <1>9, <2>1, EndsType DEF Rejected, TypeOK, Ended
    <2>2. CASE ~emitted[i]
        BY <1>9, <2>2 DEF Rejected, Marked, Again, TypeOK, Ended
    <2> QED BY <2>1, <2>2
<1> QED BY <1>1, <1>2, <1>3, <1>4, <1>5, <1>6, <1>7, <1>8, <1>9 DEF Loop, Attempt

\* The places and counters stay what they should be, and an image has an output exactly
\* when its loop returned, for any number of images and any limits of the retries
\* (_generate_single_image).
THEOREM GenerationTypeCorrect == Spec => []TypeOK
<1>1. Init => TypeOK
    BY LimitsAreNumbers, GenerationAssumption DEF Init, TypeOK, Ended
<1>2. TypeOK /\ [Next]_vars => TypeOK'
    <2> SUFFICES ASSUME TypeOK, [Next]_vars PROVE TypeOK'
        OBVIOUS
    <2>1. CASE Yield
        <3>1. /\ delivered' \subseteq Images /\ verdict' \in {"open", "answered", "error"}
              /\ UNCHANGED <<request, usable, pc, account, emitted, talked, retries,
                            outputs>>
            BY <2>1 DEF Yield, Collect, YieldNext, TypeOK
        <3> QED BY <3>1 DEF TypeOK, request
    <2>2. CASE UNCHANGED vars
        BY <2>2 DEF vars, request, TypeOK
    <2> QED BY <2>1, <2>2, LoopType DEF Next
<1> QED BY <1>1, <1>2, PTL DEF Spec

\* A parallel request that is over waited for all its threads, and has delivered
\* what they returned.
Collected ==
    (parallel /\ verdict # "open") =>
        /\ \A i \in Images : pc[i] \in Ended /\ (HasOutput(i) => i \in delivered)
        /\ verdict = "error" => \A i \in Images : ~HasOutput(i)

\* For any number of images and accounts, a parallel request delivers every image that a
\* thread generated, and reports an error only when there was none
\* (stream_image_outputs_with_pool).
THEOREM NoImageLostHolds == Spec => []NoImageLost
<1>1. Init => Collected
    BY DEF Init, Collected
<1>2. TypeOK /\ Collected /\ [Next]_vars => Collected'
    <2> SUFFICES ASSUME TypeOK, Collected, [Next]_vars, (parallel /\ verdict # "open")'
                 PROVE  /\ \A i \in Images : (pc[i] \in Ended)' /\ (HasOutput(i)' => i \in delivered')
                        /\ verdict' = "error" => \A i \in Images : ~HasOutput(i)'
        BY DEF Collected
    <2>1. CASE Collect
        BY <2>1 DEF Collect, HasOutput, Ended
    <2>2. ASSUME NEW i \in Images, Loop(i) \/ Event(i)
          PROVE  verdict # "open" /\ parallel
        BY <2>2 DEF Loop, Attempt, Start, Acquire, AcquireFails, Succeeds, Replies, EndsEmpty,
                    TimesOut, RepliesText, Breaks, Refused, Refreshed, Rejected, Event, Fails, Marked,
                    request
    <2>3. ASSUME NEW i \in Images, Loop(i) \/ Event(i)
          PROVE  FALSE
        <3>1. pc[i] \in Ended
            BY <2>2, <2>3 DEF Collected
        <3> QED BY <2>2, <2>3, <3>1
                DEF Loop, Attempt, Start, Acquire, AcquireFails, Succeeds, Replies, EndsEmpty,
                    TimesOut, RepliesText, Breaks, Refused, Refreshed, Rejected, Event, Ended
    <2>4. CASE \E i \in Images : YieldNext(i)
        BY <2>4 DEF YieldNext, request
    <2>5. CASE UNCHANGED vars
        BY <2>5 DEF vars, request, Collected, HasOutput
    <2> QED BY <2>1, <2>3, <2>4, <2>5 DEF Next, Yield
<1>3. Collected => NoImageLost
    BY DEF Collected, NoImageLost, HasOutput
<1> QED BY <1>1, <1>2, <1>3, GenerationTypeCorrect, PTL DEF Spec

-----------------------------------------------------------------------------
(* Polling: two readings agree only on the whole reply.                    *)

Places == {"start", "polling", "resolving", "refused", "late", "broken", "failed",
           "refused for a task", "done"}

PollingType ==
    /\ confirm \in [check : BOOLEAN, settle : BOOLEAN]
    /\ now \in Nat /\ now <= PollTimeout /\ since \in Nat /\ since <= now
    /\ announced \subseteq document /\ document \subseteq Pictures
    /\ poll \in [pc : Places, wake : Nat, found : SUBSET Pictures, last : SUBSET Pictures]

\* While the poll goes on, what it found is what the last reading was, which upstream had
\* written.
ReadingsKept ==
    poll.pc = "polling" => poll.found = poll.last /\ poll.last \subseteq document

\* The next reading is a settle time after the first image was written, by when all are,
\* or never.
SettleWaited ==
    (confirm.check /\ confirm.settle /\ poll.pc = "polling" /\ poll.last # {}) =>
        poll.wake >= since + Settle \/ poll.wake >= PollTimeout

PollingInv == PollingType /\ WritesInTime /\ ReadingsKept /\ SettleWaited /\ AgreedIsWhole

\* A sleep ends when it should, or at the end of the poll.
LEMMA SleepsForBounds ==
    ASSUME PollingType, NEW d \in Nat
    PROVE  /\ SleepsFor(d) \in Nat
           /\ SleepsFor(d) = now + d \/ SleepsFor(d) = PollTimeout
           /\ SleepsFor(d) >= now
BY PollingAssumption DEF SleepsFor, PollLeft, Least, PollingType

LEMMA UpstreamKeeps ==
    ASSUME PollingInv, PollTick \/ Refuse \/ \E i \in Pictures : WriteImage(i)
    PROVE  PollingInv'
<1> USE PollingAssumption DEF PollingInv
<1>1. CASE Refuse
    BY <1>1 DEF Refuse, PollingType, WritesInTime, ReadingsKept, SettleWaited, AgreedIsWhole,
               PollLeft
<1>2. CASE PollTick
    BY <1>2 DEF PollTick, upstream, PollingType, WritesInTime, ReadingsKept, SettleWaited,
               AgreedIsWhole, PollLeft
<1>3. ASSUME NEW i \in Pictures, WriteImage(i) PROVE PollingInv'
    <2>1. /\ document' = document \cup {i} /\ i \notin document
          /\ since' = IF document = {} THEN now ELSE since
          /\ UNCHANGED <<confirm, now, announced, poll>>
        BY <1>3 DEF WriteImage
    <2>2. PollingType' /\ ReadingsKept'
        BY <2>1 DEF PollingType, ReadingsKept
    <2>3. WritesInTime'
        BY <2>1 DEF WritesInTime, PollingType
    <2>4. SettleWaited'
        BY <2>1 DEF SettleWaited, ReadingsKept, PollingType
    <2>5. AgreedIsWhole'
        BY <2>1 DEF AgreedIsWhole, PollLeft
    <2> QED BY <2>2, <2>3, <2>4, <2>5
<1> QED BY <1>1, <1>2, <1>3

LEMMA StartPollingKeeps ==
    ASSUME PollingInv, StartPolling
    PROVE  PollingInv'
<1> USE PollingAssumption DEF PollingInv
<1>1. UNCHANGED <<confirm, now, document, since, announced>> /\ WritesInTime'
    BY DEF StartPolling, upstream, WritesInTime
<1>2. CASE PollGoes("resolving", now, announced, {})
    BY <1>1, <1>2 DEF PollGoes, PollingType, ReadingsKept, SettleWaited, AgreedIsWhole, Places
<1>3. CASE PollGoes("polling", SleepsFor(FirstWait), announced, announced)
    <2>1. FirstWait \in Nat /\ (announced # {} /\ confirm.settle => FirstWait = Settle)
        BY DEF FirstWait
    <2>2. /\ SleepsFor(FirstWait) \in Nat
          /\ announced # {} /\ confirm.settle =>
                 SleepsFor(FirstWait) = now + Settle \/ SleepsFor(FirstWait) = PollTimeout
        BY <2>1, SleepsForBounds
    <2>3. poll' = [pc |-> "polling", wake |-> SleepsFor(FirstWait),
                   found |-> announced, last |-> announced]
        BY <1>3 DEF PollGoes
    <2> DEFINE wake == SleepsFor(FirstWait)
    <2> HIDE DEF wake
    <2>4. PollingType' /\ ReadingsKept' /\ AgreedIsWhole'
        BY <1>1, <2>2, <2>3 DEF PollingType, ReadingsKept, AgreedIsWhole, Places, wake
    <2>5. SettleWaited'
        BY <1>1, <2>2, <2>3 DEF PollingType, SettleWaited
    <2> QED BY <1>1, <2>4, <2>5
<1> QED BY <1>2, <1>3 DEF StartPolling

\* When two readings agree, the second was a settle time after the first image.
LEMMA AgreementIsWhole ==
    ASSUME PollingInv, PollReads, confirm.check, confirm.settle,
           Found # {}, Agrees(Found)
    PROVE  Found = Pictures
<1> USE PollingAssumption DEF PollingInv
<1>1. poll.last # {} /\ poll.last \subseteq document /\ poll.found = poll.last
    BY DEF Agrees, PollReads, ReadingsKept
<1>2. now >= since + Settle
    BY <1>1 DEF SettleWaited, PollReads, PollingType
<1>3. document = Pictures
    BY <1>1, <1>2 DEF WritesInTime, PollingType
<1> QED BY <1>1, <1>3 DEF Found, PollingType

LEMMA ReadDocumentKeeps ==
    ASSUME PollingInv, ReadDocument
    PROVE  PollingInv'
<1> USE PollingAssumption DEF PollingInv
<1>1. UNCHANGED <<confirm, now, document, since, announced>> /\ WritesInTime' /\ PollReads
    BY DEF ReadDocument, upstream, WritesInTime
<1>2. Found \subseteq Pictures /\ Found = document
    BY <1>1 DEF Found, PollingType, PollReads, ReadingsKept
<1>3. /\ SleepsFor(Interval) \in Nat /\ SleepsFor(Settle) \in Nat
      /\ SleepsFor(Settle) = now + Settle \/ SleepsFor(Settle) = PollTimeout
    BY SleepsForBounds
<1> DEFINE interval == SleepsFor(Interval)
           settle == SleepsFor(Settle)
<1>4. \/ poll' = [pc |-> "refused", wake |-> now, found |-> Found, last |-> {}]
      \/ poll' = [pc |-> "polling", wake |-> interval, found |-> Found, last |-> poll.last]
         /\ Found = {}
      \/ poll' = [pc |-> "resolving", wake |-> now, found |-> Found, last |-> Found]
         /\ Found # {} /\ (~confirm.check \/ Agrees(Found) \/ ~confirm.settle \/ PollLeft = 0)
      \/ poll' = [pc |-> "polling", wake |-> settle, found |-> Found, last |-> Found]
         /\ Found # {}
    BY DEF ReadDocument, PollGoes
<1>5. Found # {} /\ confirm.check /\ confirm.settle /\ Agrees(Found) => Found = Pictures
    BY <1>1, AgreementIsWhole
<1>6. poll.found = poll.last /\ poll.found \subseteq Found
    BY <1>1 DEF ReadingsKept, PollReads, Found
<1> HIDE DEF interval, settle
<1>7. PollingType'
    <2>1. now \in Nat /\ interval \in Nat /\ settle \in Nat
        BY <1>3 DEF PollingType, interval, settle
    <2>2. \E p \in Places, w \in Nat, l \in SUBSET Pictures :
              poll' = [pc |-> p, wake |-> w, found |-> Found, last |-> l]
        BY <1>2, <1>4, <2>1 DEF PollingType, Places
    <2> QED BY <1>1, <1>2, <2>2 DEF PollingType
<1>8. ReadingsKept'
    BY <1>1, <1>2, <1>4, <1>6 DEF ReadingsKept
<1>9. SettleWaited'
    BY <1>1, <1>3, <1>4, <1>6 DEF SettleWaited, PollingType, settle
<1>10. AgreedIsWhole'
    BY <1>1, <1>4, <1>5 DEF AgreedIsWhole, PollLeft, PollingType
<1> QED BY <1>1, <1>7, <1>8, <1>9, <1>10

\* A failed reading, the end of the time and the resolution.
LEMMA EndingKeeps ==
    ASSUME PollingInv, ReadFails \/ TimeIsOver \/ PollFailed \/ ResolveUrls
    PROVE  PollingInv'
<1> USE PollingAssumption DEF PollingInv
<1>1. UNCHANGED <<confirm, now, document, since, announced>> /\ WritesInTime'
    BY DEF ReadFails, TimeIsOver, PollFailed, ResolveUrls, upstream, WritesInTime
<1>2. ASSUME NEW d \in Backoffs, PollReads, poll' = [poll EXCEPT !.wake = SleepsFor(d)]
      PROVE  PollingInv'
    <2>1. SleepsFor(d) \in Nat /\ SleepsFor(d) >= now
        BY SleepsForBounds
    <2> DEFINE wake == SleepsFor(d)
    <2>2. poll' = [poll EXCEPT !.wake = wake] /\ wake \in Nat /\ wake >= now
        BY <1>2, <2>1
    <2> HIDE DEF wake
    <2>3. PollingType' /\ ReadingsKept' /\ AgreedIsWhole'
        BY <1>1, <2>2 DEF PollingType, ReadingsKept, AgreedIsWhole, PollLeft
    <2>4. SettleWaited'
        BY <1>1, <1>2, <2>2 DEF SettleWaited, PollReads, PollingType
    <2> QED BY <1>1, <2>3, <2>4
<1>3. ASSUME NEW how \in {"broken", "late", "done", "failed", "refused for a task"},
             poll' = [poll EXCEPT !.pc = how]
      PROVE  PollingInv'
    BY <1>1, <1>3 DEF PollingType, ReadingsKept, SettleWaited, AgreedIsWhole, PollLeft, Places
<1>4. CASE PollGoes("resolving", now, announced, {})
    BY <1>1, <1>4 DEF PollGoes, PollingType, ReadingsKept, SettleWaited, AgreedIsWhole, Places
<1>5. CASE ReadFails
    BY <1>2, <1>3, <1>5 DEF ReadFails
<1>6. CASE TimeIsOver \/ ResolveUrls
    BY <1>3, <1>6 DEF TimeIsOver, ResolveUrls
<1>7. CASE PollFailed
    <2>1. CASE announced # {}
        BY <1>4, <1>7, <2>1 DEF PollFailed
    <2>2. CASE announced = {}
        <3>1. PICK how \in {"failed", "refused for a task"} : poll' = [poll EXCEPT !.pc = how]
            BY <1>7, <2>2 DEF PollFailed
        <3> QED BY <1>3, <3>1
    <2> QED BY <2>1, <2>2
<1> QED BY <1>5, <1>6, <1>7

\* For any images and times, what is returned in time with both confirmations on is the
\* whole reply, if upstream writes it within the settle time (_poll_image_results).
THEOREM AgreedIsWholeHolds == PollingSpec => []AgreedIsWhole
<1>1. PollingInit => PollingInv
    BY PollingAssumption DEF PollingInit, PollingInv, PollingType, WritesInTime, ReadingsKept,
       SettleWaited, AgreedIsWhole, Places
<1>2. PollingInv /\ [PollingNext]_pollVars => PollingInv'
    <2>1. ASSUME PollingInv, UNCHANGED pollVars PROVE PollingInv'
        BY <2>1 DEF pollVars, PollingInv, PollingType, WritesInTime, ReadingsKept, SettleWaited,
                    AgreedIsWhole, PollLeft
    <2> QED BY <2>1, UpstreamKeeps, StartPollingKeeps, ReadDocumentKeeps, EndingKeeps
            DEF PollingNext
<1>3. PollingInv => AgreedIsWhole
    BY DEF PollingInv
<1> QED BY <1>1, <1>2, <1>3, PTL DEF PollingSpec

-----------------------------------------------------------------------------
(* Search: what is returned is whole.                                      *)

Reading == [answer : Nat, done : BOOLEAN]

SearchTypeOK ==
    /\ {written, paused, readings, lastAnswer, stable} \subseteq Nat
    /\ finished \in BOOLEAN /\ blind \in BOOLEAN
    /\ result \in Reading

\* What was read is in the document, finished only when it is whole; and a piece that was
\* read stable + 1 times was not followed by another one for as long.
ReadAsWritten ==
    /\ lastAnswer = result.answer /\ lastAnswer <= written /\ written <= Length
    /\ finished => written = Length
    /\ result.done => result.answer = Length

PausedSince ==
    (~blind /\ lastAnswer = written /\ written \in 1 .. Length - 1) => paused >= stable + 1

SearchInv == SearchTypeOK /\ ReadAsWritten /\ PausedSince /\ ReturnedIsWhole

LEMMA SearchInitInv == SearchInit => SearchInv
<1> SUFFICES ASSUME SearchInit PROVE SearchInv
    OBVIOUS
<1>1. result \in Reading /\ result.answer = 0 /\ result.done = FALSE
    BY DEF SearchInit, Reading, NoResult
<1>2. SearchTypeOK
    <2>1. written = 0 /\ paused = 0 /\ readings = 0 /\ lastAnswer = 0 /\ stable = 0
          /\ finished = FALSE /\ blind = FALSE
        BY DEF SearchInit
    <2>2. finished \in BOOLEAN
        BY <2>1
    <2>3. blind \in BOOLEAN
        BY <2>1
    <2>4. {written, paused, readings, lastAnswer, stable} \subseteq Nat
        BY <2>1
    <2> QED BY <1>1, <2>2, <2>3, <2>4 DEF SearchTypeOK
<1>3. ReadAsWritten
    BY <1>1, SearchAssumption DEF SearchInit, ReadAsWritten
<1>4. PausedSince /\ ReturnedIsWhole
    BY <1>1, SearchAssumption DEF SearchInit, PausedSince, ReturnedIsWhole
<1> QED BY <1>2, <1>3, <1>4 DEF SearchInv

\* A reading of the document as it is.
LEMMA ReadAnswerStep ==
    ASSUME Pause <= 2, SearchInv, ReadAnswer
    PROVE  SearchInv'
<1> USE DEF SearchInv
<1> DEFINE latest == [answer |-> written, done |-> finished]
<1>1. /\ stage = "reading" /\ Judge(latest, FALSE)
      /\ paused' = paused + 1 /\ UNCHANGED <<written, finished>>
      /\ written \in 1 .. Length - 1 => paused < Pause
    BY DEF ReadAnswer, SearchGoesOn
<1>2. /\ latest \in Reading /\ latest.answer = written /\ latest.done = finished
      /\ {Length, Pause, Readings} \subseteq Nat
    BY SearchAssumption DEF SearchTypeOK, Reading
<1> HIDE DEF latest
<1>3. CASE written = 0
    <2>1. /\ result' = latest /\ readings' = readings + 1
          /\ UNCHANGED <<stage, lastAnswer, stable, blind>>
        BY <1>1, <1>2, <1>3 DEF Judge
    <2>2. lastAnswer = 0
        BY <1>3 DEF ReadAsWritten, SearchTypeOK
    <2> QED BY <1>1, <1>2, <1>3, <2>1, <2>2
            DEF SearchTypeOK, ReadAsWritten, PausedSince, ReturnedIsWhole
<1>4. CASE written # 0
    <2>1. /\ result' = latest /\ readings' = readings + 1 /\ lastAnswer' = written
          /\ stable' = IF written = lastAnswer THEN stable + 1 ELSE 0
          /\ blind' = (blind /\ written = lastAnswer)
          /\ stage' = IF finished \/ stable' >= 2 THEN "returned" ELSE stage
        BY <1>1, <1>2, <1>4 DEF Judge, SearchTypeOK
    <2>2. SearchTypeOK' /\ ReadAsWritten'
        BY <1>1, <1>2, <2>1 DEF SearchTypeOK, ReadAsWritten
    <2>3. PausedSince'
        BY <1>1, <1>2, <2>1 DEF SearchTypeOK, ReadAsWritten, PausedSince
    <2>4. ReturnedIsWhole'
        <3>1. CASE finished
            BY <1>1, <1>2, <2>1, <3>1 DEF ReadAsWritten, ReturnedIsWhole
        <3>2. CASE ~finished /\ stable' >= 2 /\ ~blind'
            BY <1>1, <1>2, <1>4, <2>1, <3>2 
               DEF SearchTypeOK, ReadAsWritten, PausedSince, ReturnedIsWhole
        <3>3. CASE ~finished /\ ~(stable' >= 2)
            BY <1>1, <2>1, <3>3 DEF ReturnedIsWhole
        <3>4. CASE blind'
            BY <3>4 DEF ReturnedIsWhole
        <3> QED BY <3>1, <3>2, <3>3, <3>4
    <2> QED BY <2>2, <2>3, <2>4
<1> QED BY <1>3, <1>4

\* A reading that fails, after which the last one is judged again, blindly.
LEMMA ReadingFailsStep ==
    ASSUME SearchInv, ReadingFails
    PROVE  SearchInv'
<1> USE DEF SearchInv
<1>1. /\ stage = "reading" /\ Judge(result, TRUE)
      /\ paused' = paused + 1 /\ UNCHANGED <<written, finished>>
    BY DEF ReadingFails, SearchGoesOn
<1>2. CASE result.answer = 0
    <2>1. readings' = readings + 1 /\ UNCHANGED <<result, stage, lastAnswer, stable, blind>>
        BY <1>1, <1>2 DEF Judge
    <2> QED BY <1>1, <2>1 DEF SearchTypeOK, ReadAsWritten, PausedSince, ReturnedIsWhole
<1>3. CASE result.answer # 0
    <2>1. /\ readings' = readings + 1 /\ UNCHANGED <<result, lastAnswer>>
          /\ stable' = stable + 1 /\ blind' = TRUE
        BY <1>1, <1>3 DEF Judge, ReadAsWritten
    <2> QED BY <1>1, <2>1 DEF SearchTypeOK, ReadAsWritten, PausedSince, ReturnedIsWhole
<1> QED BY <1>2, <1>3

LEMMA SearchStep ==
    ASSUME Pause <= 2, SearchInv, [SearchNext]_searchVars
    PROVE  SearchInv'
<1> USE SearchAssumption DEF SearchInv
<1>1. CASE ReadAnswer
    BY <1>1, ReadAnswerStep
<1>2. CASE ReadingFails
    BY <1>2, ReadingFailsStep
<1>3. CASE WritePiece
    BY <1>3 DEF WritePiece, SearchTypeOK, ReadAsWritten, PausedSince, ReturnedIsWhole
<1>4. CASE FinishAnswer
    BY <1>4 DEF FinishAnswer, SearchTypeOK, ReadAsWritten, PausedSince, ReturnedIsWhole
<1>5. CASE \/ StartSearch \/ StreamEnds \/ ReadingRaises \/ SearchTimesOut
           \/ UNCHANGED searchVars
    BY <1>5 DEF StartSearch, StreamEnds, ReadingRaises, SearchTimesOut, SearchGoesOn,
       searchVars, SearchTypeOK, ReadAsWritten, PausedSince, ReturnedIsWhole
<1> QED BY <1>1, <1>2, <1>3, <1>4, <1>5 DEF SearchNext

\* What _wait_search_result returns before its time is over is the whole answer, however
\* long the answer is and however the readings fall between its pieces, when upstream
\* pauses for less than the three readings that have to agree and none of them failed.
THEOREM ReturnedIsWholeHolds ==
    ASSUME Pause <= 2
    PROVE  SearchSpec => []ReturnedIsWhole
<1>1. SearchInv /\ [SearchNext]_searchVars => SearchInv'
    BY SearchStep
<1>2. SearchInv => ReturnedIsWhole
    BY DEF SearchInv
<1> QED BY <1>1, <1>2, SearchInitInv, PTL DEF SearchSpec

-----------------------------------------------------------------------------
(* Clearance: refreshes return the newest bundle.                          *)

Latest(e) == IF solved[e] = 0 THEN NoBundle ELSE solved[e]

ClearancePlaces == {"idle", "locking", "waiting", "solving"}
Calls == [egress : Egresses, before : Bundles, now : Bundles]

ClearanceTypeOK ==
    /\ settings \in Settings
    /\ solved \in [Egresses -> 0 .. MaxSolved]
    /\ bundles \in [Egresses -> Bundles]
    /\ callPc \in [ClearanceCallers -> ClearancePlaces]
    /\ call \in [ClearanceCallers -> Calls]
    /\ answer \in [ClearanceCallers -> Bundles]

BundlesAreLatest == \A e \in Egresses : bundles[e] \in {Manual, Latest(e)}

\* A bundle that a call found is followed by others only.
NothingBefore ==
    \A c \in ClearanceCallers :
        bundles[call[c].egress] = NoBundle => call[c].before = NoBundle

ClearanceInv == ClearanceTypeOK /\ BundlesAreLatest /\ NothingBefore

LEMMA EgressTyped == ASSUME ClearanceTypeOK PROVE Egress \in Egresses
BY DEF Egress, Egresses

LEMMA ClearanceInitInv == ClearanceInit => ClearanceInv
<1> SUFFICES ASSUME ClearanceInit PROVE ClearanceInv
    OBVIOUS
<1>1. NoCall \in Calls /\ NoCall.egress = GlobalProxy /\ NoCall.before = NoBundle
    BY DEF NoCall, Calls, Egresses, Bundles
<1>2. settings \in Settings
    BY DEF ClearanceInit, Settings
<1>3. ClearanceTypeOK
    BY <1>1, <1>2, ClearanceAssumption
       DEF ClearanceInit, ClearanceTypeOK, ClearancePlaces, Bundles
<1>4. BundlesAreLatest /\ NothingBefore
    BY <1>1 DEF ClearanceInit, BundlesAreLatest, Latest, NothingBefore
<1> QED BY <1>3, <1>4 DEF ClearanceInv

\* What a step may do to the cache: nothing, the cookies of the operator, or the next
\* bundle that is solved.
CacheStep ==
    \/ UNCHANGED <<bundles, solved>>
    \/ \E e \in Egresses : bundles' = [bundles EXCEPT ![e] = Manual] /\ UNCHANGED solved
    \/ \E e \in Egresses :
          /\ solved[e] < MaxSolved
          /\ solved' = [solved EXCEPT ![e] = @ + 1]
          /\ bundles' = [bundles EXCEPT ![e] = solved[e] + 1]

LEMMA CacheKept ==
    ASSUME ClearanceInv, CacheStep
    PROVE  /\ solved' \in [Egresses -> 0 .. MaxSolved] /\ bundles' \in [Egresses -> Bundles]
           /\ BundlesAreLatest'
           /\ \A e \in Egresses : bundles'[e] = NoBundle => bundles[e] = NoBundle
<1> USE ClearanceAssumption DEF ClearanceInv, ClearanceTypeOK
<1>1. CASE UNCHANGED <<bundles, solved>>
    BY <1>1 DEF BundlesAreLatest, Latest
<1>2. CASE \E e \in Egresses : bundles' = [bundles EXCEPT ![e] = Manual] /\ UNCHANGED solved
    BY <1>2 DEF BundlesAreLatest, Latest, Bundles
<1>3. ASSUME NEW e \in Egresses, solved[e] < MaxSolved,
             solved' = [solved EXCEPT ![e] = @ + 1],
             bundles' = [bundles EXCEPT ![e] = solved[e] + 1]
      PROVE  /\ solved' \in [Egresses -> 0 .. MaxSolved] /\ bundles' \in [Egresses -> Bundles]
             /\ BundlesAreLatest'
             /\ \A d \in Egresses : bundles'[d] = NoBundle => bundles[d] = NoBundle
    <2>1. solved[e] + 1 \in 1 .. MaxSolved /\ NoBundle \notin 0 .. MaxSolved
        BY <1>3
    <2>2. solved' \in [Egresses -> 0 .. MaxSolved] /\ bundles' \in [Egresses -> Bundles]
        BY <1>3, <2>1 DEF Bundles
    <2>3. \A d \in Egresses : /\ solved'[d] = IF d = e THEN solved[e] + 1 ELSE solved[d]
                              /\ bundles'[d] = IF d = e THEN solved[e] + 1 ELSE bundles[d]
        BY <1>3
    <2>4. ASSUME NEW d \in Egresses
          PROVE  /\ bundles'[d] \in {Manual, IF solved'[d] = 0 THEN NoBundle ELSE solved'[d]}
                 /\ bundles'[d] = NoBundle => bundles[d] = NoBundle
        <3>1. CASE d = e
            <4>1. bundles'[d] = solved[e] + 1 /\ solved'[d] = solved[e] + 1
                BY <2>3, <3>1
            <4>2. solved[e] + 1 # 0 /\ solved[e] + 1 # NoBundle
                BY <2>1
            <4> QED BY <4>1, <4>2
        <3>2. CASE d # e
            <4>1. bundles'[d] = bundles[d] /\ solved'[d] = solved[d]
                BY <2>3, <3>2
            <4> QED BY <4>1 DEF BundlesAreLatest, Latest
        <3> QED BY <3>1, <3>2
    <2>5. BundlesAreLatest'
        BY <2>4 DEF BundlesAreLatest, Latest
    <2> QED BY <2>2, <2>4, <2>5
<1> QED BY <1>1, <1>2, <1>3 DEF CacheStep

\* And to the calls: a call stays, is over, looks at the cache, or goes on with the egress
\* and the bundle it has.
CallStep ==
    \/ UNCHANGED call
    \/ \E c \in ClearanceCallers :
          \/ call' = [call EXCEPT ![c] = NoCall]
          \/ /\ call' = [call EXCEPT ![c] = [egress |-> Egress, before |-> bundles[Egress],
                                            now |-> NoBundle]]
             /\ UNCHANGED bundles
          \/ call' = [call EXCEPT ![c].now = bundles[call[c].egress]]

LEMMA CallsKept ==
    ASSUME ClearanceInv, CacheStep, CallStep
    PROVE  call' \in [ClearanceCallers -> Calls] /\ NothingBefore'
<1> USE DEF ClearanceInv, ClearanceTypeOK
<1>1. \A e \in Egresses : bundles'[e] = NoBundle => bundles[e] = NoBundle
    BY CacheKept
<1>2. /\ Egress \in Egresses /\ GlobalProxy \in Egresses /\ NoBundle \in Bundles
      /\ bundles[Egress] \in Bundles
    BY EgressTyped DEF Egresses, Bundles
<1>3. NoCall \in Calls /\ NoCall.before = NoBundle
    BY <1>2 DEF NoCall, Calls
<1> DEFINE Fresh == [egress |-> Egress, before |-> bundles[Egress], now |-> NoBundle]
<1>4. Fresh \in Calls /\ Fresh.egress = Egress /\ Fresh.before = bundles[Egress]
    BY <1>2 DEF Calls
<1> HIDE DEF Fresh
<1>5. CASE UNCHANGED call
    BY <1>1, <1>5 DEF NothingBefore, Calls
<1>6. ASSUME NEW c \in ClearanceCallers, call' = [call EXCEPT ![c] = NoCall]
      PROVE  call' \in [ClearanceCallers -> Calls] /\ NothingBefore'
    BY <1>1, <1>3, <1>6 DEF NothingBefore, Calls
<1>7. ASSUME NEW c \in ClearanceCallers, call' = [call EXCEPT ![c] = Fresh], UNCHANGED bundles
      PROVE  call' \in [ClearanceCallers -> Calls] /\ NothingBefore'
    BY <1>4, <1>7 DEF NothingBefore
<1>8. ASSUME NEW c \in ClearanceCallers, NEW b \in Bundles, call' = [call EXCEPT ![c].now = b]
      PROVE  call' \in [ClearanceCallers -> Calls] /\ NothingBefore'
    <2>1. call' \in [ClearanceCallers -> Calls]
        BY <1>8 DEF Calls
    <2>2. \A d \in ClearanceCallers : /\ call'[d].egress = call[d].egress
                                      /\ call'[d].before = call[d].before
                                      /\ call[d].egress \in Egresses
        BY <1>8 DEF Calls
    <2> QED BY <1>1, <2>1, <2>2 DEF NothingBefore
<1>9. \A c \in ClearanceCallers : bundles[call[c].egress] \in Bundles
    BY DEF Calls
<1> QED BY <1>5, <1>6, <1>7, <1>8, <1>9 DEF CallStep, Fresh

\* Every step is one of these, and a call leaves its wait with the newest bundle.
StepNewest ==
    \A c \in ClearanceCallers :
        (callPc[c] = "waiting" /\ callPc'[c] = "idle") => answer'[c] \in {Manual, Latest(call[c].egress)}

LocalStep ==
    /\ settings' \in Settings
    /\ callPc' \in [ClearanceCallers -> ClearancePlaces]
    /\ answer' \in [ClearanceCallers -> Bundles]

LEMMA StepParts ==
    ASSUME ClearanceInv, [ClearanceNext]_clearanceVars
    PROVE  CacheStep /\ CallStep /\ LocalStep /\ StepNewest
<1> USE DEF ClearanceInv, ClearanceTypeOK
<1>0. Egress \in Egresses
    BY EgressTyped
<1>a. ASSUME NEW c \in ClearanceCallers, NEW b \in Bundles, Returns(c, b),
             settings' = settings, callPc[c] = "waiting" => b \in {Manual, Latest(call[c].egress)}
      PROVE  CallStep /\ LocalStep /\ StepNewest
    <2>1. CallStep
        BY <1>a DEF Returns, CallStep
    <2>2. LocalStep
        BY <1>a DEF Returns, LocalStep, ClearancePlaces
    <2>3. StepNewest
        BY <1>a DEF Returns, StepNewest
    <2> QED BY <2>1, <2>2, <2>3
<1>b. NoBundle \in Bundles /\ Manual \in Bundles
    BY DEF Bundles
<1>c. \A c \in ClearanceCallers :
          /\ call[c].egress \in Egresses /\ bundles[call[c].egress] \in Bundles
          /\ call[c].before \in Bundles /\ call[c].now \in Bundles
    BY DEF Calls
<1>1. CASE UNCHANGED clearanceVars \/ Configure
    BY <1>1 DEF clearanceVars, Configure, CacheStep, CallStep, LocalStep, StepNewest
<1>2. CASE BuildManual
    <2>1. CacheStep
        BY <1>0, <1>2 DEF BuildManual, CacheStep
    <2> QED BY <1>2, <2>1 DEF BuildManual, CallStep, LocalStep, StepNewest
<1>3. ASSUME NEW c \in ClearanceCallers, RefreshOff(c) \/ RefreshManual(c)
      PROVE  CacheStep /\ CallStep /\ LocalStep /\ StepNewest
    <2>1. CacheStep
        BY <1>0, <1>3 DEF RefreshOff, RefreshManual, CacheStep
    <2>2. /\ callPc[c] = "idle" /\ settings' = settings
          /\ Returns(c, NoBundle) \/ Returns(c, Manual)
        BY <1>3 DEF RefreshOff, RefreshManual
    <2> QED BY <1>a, <1>b, <2>1, <2>2
<1>4. ASSUME NEW c \in ClearanceCallers, Refresh(c)
      PROVE  CacheStep /\ CallStep /\ LocalStep /\ StepNewest
    <2>1. CacheStep /\ CallStep
        BY <1>4 DEF Refresh, CacheStep, CallStep
    <2>2. LocalStep
        BY <1>4, <1>b DEF Refresh, LocalStep, ClearancePlaces
    <2>3. StepNewest
        BY <1>4 DEF Refresh, StepNewest
    <2> QED BY <2>1, <2>2, <2>3
<1>5. ASSUME NEW c \in ClearanceCallers, Lead(c) \/ Follow(c)
      PROVE  CacheStep /\ CallStep /\ LocalStep /\ StepNewest
    <2>1. CacheStep /\ CallStep
        BY <1>5 DEF Lead, Follow, CacheStep, CallStep
    <2>2. LocalStep /\ StepNewest
        <3>1. /\ callPc' = [callPc EXCEPT ![c] = "solving"] \/ callPc' = [callPc EXCEPT ![c] = "waiting"]
              /\ UNCHANGED <<settings, answer>>
            BY <1>5 DEF Lead, Follow
        <3> QED BY <3>1 DEF LocalStep, StepNewest, ClearancePlaces
    <2> QED BY <2>1, <2>2
<1>6. ASSUME NEW c \in ClearanceCallers, FollowerReturns(c)
      PROVE  CacheStep /\ CallStep /\ LocalStep /\ StepNewest
    <2> DEFINE e == call[c].egress
    <2> DEFINE b == Or(bundles[e], call[c].before)
    <2>1. b \in {Manual, Latest(e)} /\ b \in Bundles
        BY <1>c DEF Or, BundlesAreLatest, NothingBefore
    <2>2. Returns(c, b) /\ UNCHANGED <<settings, bundles, solved>>
        BY <1>6 DEF FollowerReturns
    <2>3. CacheStep
        BY <2>2 DEF CacheStep
    <2> HIDE DEF b
    <2> QED BY <1>a, <2>1, <2>2, <2>3
<1>7. ASSUME NEW c \in ClearanceCallers, Solves(c)
      PROVE  CacheStep /\ CallStep /\ LocalStep /\ StepNewest
    <2> DEFINE e == call[c].egress
    <2>1. /\ solved[e] < MaxSolved /\ solved' = [solved EXCEPT ![e] = @ + 1]
          /\ bundles' = [bundles EXCEPT ![e] = solved'[e]]
          /\ settings' = settings /\ callPc[c] = "solving" /\ Returns(c, solved'[e])
        BY <1>7 DEF Solves
    <2>2. e \in Egresses
        BY <1>c
    <2>3. solved'[e] = solved[e] + 1 /\ solved'[e] \in Bundles
        BY <2>1, <2>2, ClearanceAssumption DEF Bundles
    <2>4. CacheStep
        BY <2>1, <2>2, <2>3 DEF CacheStep
    <2> QED BY <1>a, <2>1, <2>3, <2>4
<1>8. ASSUME NEW c \in ClearanceCallers, SolveFails(c)
      PROVE  CacheStep /\ CallStep /\ LocalStep /\ StepNewest
    <2> DEFINE b == Or(call[c].now, call[c].before)
    <2>1. /\ Returns(c, b) /\ callPc[c] = "solving" /\ UNCHANGED <<settings, bundles, solved>>
        BY <1>8 DEF SolveFails
    <2>2. b \in Bundles
        BY <1>c DEF Or
    <2> HIDE DEF b
    <2> QED BY <1>a, <2>1, <2>2 DEF CacheStep
<1> QED BY <1>1, <1>2, <1>3, <1>4, <1>5, <1>6, <1>7, <1>8 DEF ClearanceNext, ClearanceProceeds

LEMMA ClearanceStepInv ==
    ASSUME ClearanceInv, [ClearanceNext]_clearanceVars
    PROVE  ClearanceInv'
<1>1. CacheStep /\ CallStep /\ LocalStep
    BY StepParts
<1>2. /\ solved' \in [Egresses -> 0 .. MaxSolved] /\ bundles' \in [Egresses -> Bundles]
      /\ BundlesAreLatest'
    BY <1>1, CacheKept
<1>3. call' \in [ClearanceCallers -> Calls] /\ NothingBefore'
    BY <1>1, CallsKept
<1> QED BY <1>1, <1>2, <1>3 DEF ClearanceInv, ClearanceTypeOK, LocalStep

\* A follower of refresh_clearance gets the last bundle solved for its egress, the cookies
\* of the operator, or nothing when there was never any: no flight that begins or ends
\* while it waits makes it return what it saw before.
THEOREM AnswersAreNewestHolds == ClearanceSpec => AnswersAreNewest
<1>1. ClearanceInv /\ [ClearanceNext]_clearanceVars => ClearanceInv'
    BY ClearanceStepInv
<1>2. ClearanceInv /\ [ClearanceNext]_clearanceVars =>
          [\A c \in ClearanceCallers :
              (callPc[c] = "waiting" /\ callPc'[c] = "idle")
                  => answer'[c] \in {Manual, IF solved[call[c].egress] = 0 THEN NoBundle
                                             ELSE solved[call[c].egress]}]_clearanceVars
    BY StepParts DEF StepNewest, Latest
<1> QED BY <1>1, <1>2, ClearanceInitInv, PTL DEF ClearanceSpec, AnswersAreNewest
=============================================================================
