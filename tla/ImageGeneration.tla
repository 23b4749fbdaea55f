--------------------------- MODULE ImageGeneration ---------------------------
(***************************************************************************)
(* One image request (services/protocol/conversation.py): each image is    *)
(* generated by a loop that takes an account, streams the conversation and *)
(* decides from what went wrong whether another attempt is made            *)
(* (_generate_single_image); the request collects the images of its        *)
(* threads or of its sequence (stream_image_outputs_with_pool).            *)
(*                                                                         *)
(* The accounts are those of AccountPool, of which this module keeps only  *)
(* which are usable; slots and their return are checked there.             *)
(***************************************************************************)
EXTENDS Naturals, FiniteSets

CONSTANTS
    N,             \* request.n
    Accounts,
    NoAccount,
    MaxTextReply, MaxTls, MaxConnTimeout, MaxPollTimeout   \* MAX_..._RETRIES

ASSUME GenerationAssumption ==
    /\ N \in Nat \ {0}
    /\ NoAccount \notin Accounts
    /\ {MaxTextReply, MaxTls, MaxConnTimeout, MaxPollTimeout} \subseteq Nat

VARIABLES
    parallel,  \* the setting image_parallel_generation, which only several images obey
    codex,     \* the model is a Codex one: the answer is read whole, and has no texts
    textFails, \* request.message_as_error: a text is an error (the /v1/images endpoints)
    usable,    \* accounts that get_available_access_token may return
    pc,        \* where the loop of each image is
    account,   \* the account of its attempt
    emitted,   \* emitted_for_token: the attempt had some output
    talked,    \* the attempt knows its conversation_id
    retries,   \* text_reply_, tls_, conn_timeout_ and poll_timeout_retry_count
    outputs,   \* what the loop returned: nothing yet, an image, a message, no output
    delivered, \* images whose output the request has yielded
    verdict    \* whether the request is open, answered or raised an error

request == <<parallel, codex, textFails>>
vars == <<request, usable, pc, account, emitted, talked, retries, outputs, delivered, verdict>>

Images  == 1 .. N
Limits  == [text |-> MaxTextReply, tls |-> MaxTls, conn |-> MaxConnTimeout,
            poll |-> MaxPollTimeout]
Retried == DOMAIN Limits
Ended   == {"done", "failed"}

-----------------------------------------------------------------------------
(* The attempt.                                                            *)

\* The threads start at once; a sequence starts an image when the one before it
\* has been yielded.
Start(i) ==
    /\ pc[i] = "idle" /\ verdict = "open"
    /\ ~parallel => \A j \in 1 .. i - 1 : j \in delivered
    /\ pc' = [pc EXCEPT ![i] = "acquiring"]
    /\ UNCHANGED <<request, usable, account, emitted, talked, retries, outputs,
                   delivered, verdict>>

\* get_available_access_token takes accounts in turn, whatever they were before.
Acquire(i) ==
    /\ pc[i] = "acquiring"
    /\ \E a \in usable : account' = [account EXCEPT ![i] = a]
    /\ pc' = [pc EXCEPT ![i] = "streaming"]
    /\ emitted' = [emitted EXCEPT ![i] = FALSE]
    /\ talked' = [talked EXCEPT ![i] = FALSE]
    /\ UNCHANGED <<request, usable, retries, outputs, delivered, verdict>>

AcquireFails(i) ==
    /\ pc[i] = "acquiring" /\ usable = {}
    /\ pc' = [pc EXCEPT ![i] = "failed"]
    /\ UNCHANGED <<request, usable, account, emitted, talked, retries, outputs,
                   delivered, verdict>>

\* An event of the conversation.  One in JSON is a progress output, any other is
\* only searched for the conversation_id.  Codex answers have none on the way
\* (stream_codex_image_outputs).
Event(i) ==
    /\ pc[i] = "streaming" /\ ~codex
    /\ talked' = [talked EXCEPT ![i] = TRUE]
    /\ \E json \in BOOLEAN : emitted' = [emitted EXCEPT ![i] = @ \/ json]
    /\ UNCHANGED <<request, usable, pc, account, retries, outputs, delivered, verdict>>

\* The attempt is over for good.
Ends(i, how, output) ==
    /\ pc' = [pc EXCEPT ![i] = how]
    /\ outputs' = [outputs EXCEPT ![i] = output]
    /\ UNCHANGED retries

\* mark_image_result: the account of a success may have used up its quota.
Marked(i) ==
    /\ account' = [account EXCEPT ![i] = NoAccount]
    /\ UNCHANGED <<request, emitted, talked, delivered, verdict>>

\* The stream ended with an image; with a text, which some endpoints return and
\* others report as an error; or with progress only, or nothing at all.
Succeeds(i) ==
    /\ pc[i] = "streaming"
    /\ usable' \in {usable, usable \ {account[i]}}
    /\ Marked(i)
    /\ Ends(i, "done", "image")

Replies(i) ==
    /\ pc[i] = "streaming" /\ ~codex /\ ~textFails
    /\ Marked(i)
    /\ Ends(i, "done", "message")
    /\ UNCHANGED usable

EndsEmpty(i) ==
    /\ pc[i] = "streaming" /\ ~codex
    /\ Marked(i)
    /\ IF emitted[i] THEN Ends(i, "failed", "none") ELSE Ends(i, "done", "empty")
    /\ UNCHANGED usable

Again(i) == pc' = [pc EXCEPT ![i] = "acquiring"] /\ UNCHANGED outputs

\* Mutant: a retry sets the counters of the other kinds to zero.
FailsResetting(i, why) ==
    /\ Marked(i)
    /\ IF why \in Retried /\ ~emitted[i] /\ retries[i][why] < Limits[why]
       THEN /\ Again(i)
            /\ retries' = [retries EXCEPT ![i] = [w \in Retried |->
                                                     IF w = why THEN @[w] + 1 ELSE 0]]
       ELSE Ends(i, "failed", "none")
    /\ UNCHANGED usable
\* An error of a kind that is retried as long as nothing was emitted, or of another.
Fails(i, why) ==
    /\ Marked(i)
    /\ IF why \in Retried /\ ~emitted[i] /\ retries[i][why] < Limits[why]
       THEN Again(i) /\ retries' = [retries EXCEPT ![i][why] = @ + 1]
       ELSE Ends(i, "failed", "none")
    /\ UNCHANGED usable

\* A poll needs the conversation, and so does a text to be taken for an error.
TimesOut(i)     == pc[i] = "streaming" /\ talked[i] /\ Fails(i, "poll")
RepliesText(i)  == pc[i] = "streaming" /\ talked[i] /\ textFails /\ Fails(i, "text")
Breaks(i)       == pc[i] = "streaming" /\ \E why \in {"tls", "conn"} : Fails(i, why)
Refused(i)      == pc[i] = "streaming" /\ Fails(i, "other")

\* The token is rejected: it is refreshed, and the next attempt has a new token, how
\* often ever that was; or there is none, and the account is removed or disabled.
\* Neither counts as a retry.
Refreshed(i) ==
    /\ pc[i] = "streaming" /\ ~emitted[i]
    /\ Marked(i)
    /\ Again(i)
    /\ UNCHANGED <<usable, retries>>
Rejected(i) ==
    /\ pc[i] = "streaming"
    /\ Marked(i)
    /\ IF emitted[i]
       THEN Ends(i, "failed", "none") /\ UNCHANGED usable
       ELSE Again(i) /\ usable' = usable \ {account[i]} /\ UNCHANGED retries

-----------------------------------------------------------------------------
(* The request.                                                            *)

HasOutput(i) == outputs[i] \in {"image", "message"}

\* Mutant: the first image that failed ends the request.
CollectInOrder ==
    /\ parallel /\ verdict = "open"
    /\ \A i \in Images : pc[i] \in Ended
    /\ delivered' = {i \in Images : \A j \in 1 .. i : HasOutput(j)}
    /\ verdict' = IF delivered' # {} THEN "answered" ELSE "error"
    /\ UNCHANGED <<request, usable, pc, account, emitted, talked, retries, outputs>>

\* All threads have ended: what succeeded is yielded, whatever failed; the error is
\* raised when there is nothing to yield.
Collect ==
    /\ parallel /\ verdict = "open"
    /\ \A i \in Images : pc[i] \in Ended
    /\ delivered' = {i \in Images : HasOutput(i)}
    /\ verdict' = IF delivered' # {} THEN "answered" ELSE "error"
    /\ UNCHANGED <<request, usable, pc, account, emitted, talked, retries, outputs>>

\* In sequence an image is yielded when it is done and an error ends the request.
YieldNext(i) ==
    /\ ~parallel /\ verdict = "open" /\ pc[i] \in Ended /\ i \notin delivered
    /\ IF pc[i] = "failed"
       THEN verdict' = "error" /\ UNCHANGED delivered
       ELSE /\ delivered' = delivered \cup {i}
            /\ verdict' = IF i = N THEN "answered" ELSE "open"
    /\ UNCHANGED <<request, usable, pc, account, emitted, talked, retries, outputs>>

-----------------------------------------------------------------------------
Init ==
    /\ parallel \in {p \in BOOLEAN : p => N > 1}
    /\ codex \in BOOLEAN /\ textFails \in BOOLEAN
    /\ usable \in SUBSET Accounts
    /\ pc = [i \in Images |-> "idle"]
    /\ account = [i \in Images |-> NoAccount]
    /\ emitted = [i \in Images |-> FALSE]
    /\ talked = [i \in Images |-> FALSE]
    /\ retries = [i \in Images |-> [why \in Retried |-> 0]]
    /\ outputs = [i \in Images |-> "none"]
    /\ delivered = {}
    /\ verdict = "open"

Attempt(i) ==
    \/ Succeeds(i) \/ Replies(i) \/ EndsEmpty(i)
    \/ TimesOut(i) \/ RepliesText(i) \/ Breaks(i) \/ Refused(i) \/ Refreshed(i) \/ Rejected(i)

Loop(i) == Start(i) \/ Acquire(i) \/ AcquireFails(i) \/ Attempt(i)
Yield   == Collect \/ \E i \in Images : YieldNext(i)
Next    == (\E i \in Images : Loop(i) \/ Event(i)) \/ Yield

Spec == Init /\ [][Next]_vars

\* Streams and polls have timeouts, and the request waits for its threads.
FairSpec == Spec /\ WF_vars(Yield) /\ \A i \in Images : WF_vars(Loop(i))

-----------------------------------------------------------------------------
\* An attempt under way has an account; an image that failed has no output.
TypeOK ==
    /\ {parallel, codex, textFails} \subseteq BOOLEAN
    /\ usable \subseteq Accounts
    /\ pc \in [Images -> {"idle", "acquiring", "streaming"} \cup Ended]
    /\ account \in [Images -> Accounts \cup {NoAccount}]
    /\ emitted \in [Images -> BOOLEAN] /\ talked \in [Images -> BOOLEAN]
    /\ retries \in [Images -> [Retried -> Nat]]
    /\ \A i \in Images, why \in Retried : retries[i][why] <= Limits[why]
    /\ outputs \in [Images -> {"none", "image", "message", "empty"}]
    /\ delivered \subseteq Images
    /\ verdict \in {"open", "answered", "error"}
    /\ \A i \in Images : (pc[i] = "streaming") <=> (account[i] # NoAccount)
    /\ \A i \in Images : (pc[i] = "done") <=> (outputs[i] # "none")

\* In parallel no image is lost: what some thread generated is in the answer, whatever
\* the others ran into, and an error means there was nothing.
NoImageLost ==
    (parallel /\ verdict # "open") =>
        /\ \A i \in Images : outputs[i] = "image" => i \in delivered
        /\ verdict = "error" => \A i \in Images : ~HasOutput(i)

\* Every request that was begun is answered or refused: the retries end. No limit
\* counts the refreshes of rejected tokens, which are assumed to end.
RefreshesEnd     == \A i \in Images : <>[][~Refreshed(i)]_vars
EveryRequestEnds == RefreshesEnd => ((\E i \in Images : pc[i] # "idle") ~> (verdict # "open"))

\* A poll that timed out, or a text reply, is retried (with another account if there
\* is one) until its retries are used up.
PollsAndTextsRetried ==
    [][\A i \in Images :
           /\ TimesOut(i)    => pc'[i] = "acquiring" \/ retries[i].poll = MaxPollTimeout
           /\ RepliesText(i) => pc'[i] = "acquiring" \/ retries[i].text = MaxTextReply]_vars
=============================================================================
