---------------------------- MODULE SearchAnswers ----------------------------
(***************************************************************************)
(* One /v1/search request (services/openai_backend_api.py, search): the    *)
(* conversation is prepared and started, and its document is read until    *)
(* the answer is finished or does not seem to change any more.             *)
(***************************************************************************)
EXTENDS Naturals

CONSTANTS
    Length,        \* pieces of the answer
    Pause,         \* bound: readings for which upstream stops writing in the middle
    Readings       \* SEARCH_TIMEOUT_SECS, in readings

ASSUME SearchAssumption == {Length, Pause, Readings} \subseteq Nat

VARIABLES
    stage,       \* "preparing", "streaming", "reading", "returned", "failed"
    written,     \* pieces of the answer in the document
    finished,    \* its message has a status of SEARCH_DONE_STATUS
    paused,      \* readings since upstream wrote last
    readings,    \* how often the document was read
    result,      \* last_result: the pieces it has and whether it was finished; 0: no answer
    lastAnswer,  \* last_answer
    stable,      \* stable_hits
    blind        \* a reading failed since last_answer changed

searchVars == <<stage, written, finished, paused, readings, result, lastAnswer, stable, blind>>

NoResult == [answer |-> 0, done |-> FALSE]

-----------------------------------------------------------------------------
\* Upstream writes the answer in pieces, and then finishes it.
WritePiece ==
    /\ stage \in {"streaming", "reading"} /\ written < Length
    /\ written' = written + 1 /\ paused' = 0
    /\ UNCHANGED <<stage, finished, readings, result, lastAnswer, stable, blind>>

FinishAnswer ==
    /\ stage \in {"streaming", "reading"} /\ written = Length /\ ~finished
    /\ finished' = TRUE
    /\ UNCHANGED <<stage, written, paused, readings, result, lastAnswer, stable, blind>>

\* _prepare_search_conversation, _bootstrap and _run_search_conversation: each request
\* may fail, and so does a stream that names no conversation.
StartSearch ==
    /\ stage = "preparing"
    /\ stage' \in {"streaming", "failed"}
    /\ UNCHANGED <<written, finished, paused, readings, result, lastAnswer, stable, blind>>

StreamEnds ==
    /\ stage = "streaming"
    /\ stage' \in {"reading", "failed"}
    /\ UNCHANGED <<written, finished, paused, readings, result, lastAnswer, stable, blind>>

-----------------------------------------------------------------------------
(* _wait_search_result.                                                    *)

SearchGoesOn == stage = "reading" /\ readings < Readings

\* Mutant: an answer that grew counts as stable, too.
JudgeGrown(latest, failed) ==
    /\ result' = latest
    /\ readings' = readings + 1
    /\ IF latest.answer = 0
       THEN UNCHANGED <<stage, lastAnswer, stable, blind>>
       ELSE /\ lastAnswer' = latest.answer
            /\ stable' = IF lastAnswer > 0 THEN stable + 1 ELSE 0
            /\ blind' = ((blind /\ latest.answer = lastAnswer) \/ failed)
            /\ stage' = IF latest.done \/ stable' >= 2 THEN "returned" ELSE stage

\* What follows a reading, good or not: the last result is looked at once more.
Judge(latest, failed) ==
    /\ result' = latest
    /\ readings' = readings + 1
    /\ IF latest.answer = 0
       THEN UNCHANGED <<stage, lastAnswer, stable, blind>>
       ELSE /\ lastAnswer' = latest.answer
            /\ stable' = IF latest.answer = lastAnswer THEN stable + 1 ELSE 0
            /\ blind' = ((blind /\ latest.answer = lastAnswer) \/ failed)
            /\ stage' = IF latest.done \/ stable' >= 2 THEN "returned" ELSE stage

ReadAnswer ==
    /\ SearchGoesOn
    /\ written \in 1 .. Length - 1 => paused < Pause
    /\ paused' = paused + 1
    /\ Judge([answer |-> written, done |-> finished], FALSE)
    /\ UNCHANGED <<written, finished>>

\* A status that may pass: the result of the reading before is judged again.
ReadingFails ==
    /\ SearchGoesOn
    /\ written \in 1 .. Length - 1 => paused < Pause
    /\ paused' = paused + 1
    /\ Judge(result, TRUE)
    /\ UNCHANGED <<written, finished>>

\* Any other error.
ReadingRaises ==
    /\ SearchGoesOn
    /\ stage' = "failed"
    /\ UNCHANGED <<written, finished, paused, readings, result, lastAnswer, stable, blind>>

\* The time is over: whatever was read last is the result, even without an answer.
SearchTimesOut ==
    /\ stage = "reading" /\ readings = Readings
    /\ stage' \in {"returned", "failed"}
    /\ UNCHANGED <<written, finished, paused, readings, result, lastAnswer, stable, blind>>

-----------------------------------------------------------------------------
SearchInit ==
    /\ stage = "preparing" /\ written = 0 /\ finished = FALSE
    /\ paused = 0 /\ readings = 0
    /\ result = NoResult /\ lastAnswer = 0 /\ stable = 0 /\ blind = FALSE

SearchNext ==
    \/ WritePiece \/ FinishAnswer \/ StartSearch \/ StreamEnds
    \/ ReadAnswer \/ ReadingFails \/ ReadingRaises \/ SearchTimesOut

SearchSpec == SearchInit /\ [][SearchNext]_searchVars

-----------------------------------------------------------------------------
\* An answer that is returned in time is the whole answer when upstream never pauses for
\* as long as three readings take, unless readings failed since it changed last: those
\* count as if the answer had been read unchanged.
ReturnedIsWhole ==
    (stage = "returned" /\ readings < Readings /\ ~blind) => result.answer = Length
=============================================================================
