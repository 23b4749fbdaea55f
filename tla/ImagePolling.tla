----------------------------- MODULE ImagePolling -----------------------------
(***************************************************************************)
(* How the images of a conversation are found (services/                   *)
(* openai_backend_api.py): the stream announces some of them, then the     *)
(* document of the conversation is read again and again, until two         *)
(* readings agree or the time is over, and what was found is resolved to   *)
(* addresses.  Upstream, the images of one reply are written to the        *)
(* document one by one.                                                    *)
(***************************************************************************)
EXTENDS Naturals, FiniteSets

CONSTANTS
    Pictures,      \* the images of the reply
    Settle,        \* image_settle_secs
    Interval,      \* image_poll_interval_secs
    InitialWait,   \* image_poll_initial_wait_secs
    Backoffs,      \* waits after a failed reading
    PollTimeout    \* image_poll_timeout_secs

ASSUME PollingAssumption ==
    /\ {Settle, Interval, InitialWait, PollTimeout} \subseteq Nat \ {0}
    /\ Backoffs \subseteq Nat

VARIABLES
    confirm,     \* the settings image_check_before_hit_enabled and image_settle_enabled
    now,         \* seconds since the poll began
    document,    \* the images that upstream has written
    since,       \* when it wrote the first of them
    refusal,     \* the document says that the content is against the policy
    announced,   \* the ids that the stream gave
    poll,        \* where the poll is, when it wakes up, what it found, last_hit_key ({} for None)
    taskError,   \* last_task_error: the tasks of the account report an error
    resolved     \* the images whose address was found, when all is over

pollVars == <<confirm, now, document, since, refusal, announced, poll, taskError, resolved>>

upstream == <<document, since, refusal>>
PollLeft == PollTimeout - now
Least(a, b) == IF a < b THEN a ELSE b

\* time.sleep, never past the end
SleepsFor(d) == now + Least(d, PollLeft)

-----------------------------------------------------------------------------
(* Upstream and time.                                                      *)

\* The images of a reply are written within the settle time of the first: this is what
\* the settings are chosen for.
WritesInTime == (document \notin {{}, Pictures}) => now < since + Settle

WriteImage(i) ==
    /\ ~refusal /\ i \notin document
    /\ document' = document \cup {i}
    /\ since' = IF document = {} THEN now ELSE since
    /\ UNCHANGED <<confirm, now, refusal, announced, poll, taskError, resolved>>

Refuse ==
    /\ document = {} /\ ~refusal /\ refusal' = TRUE
    /\ UNCHANGED <<confirm, now, document, since, announced, poll, taskError, resolved>>

\* A request or a sleep may take longer than it should.
PollTick ==
    /\ poll.pc = "polling" /\ now < PollTimeout
    /\ now' = now + 1
    /\ UNCHANGED <<confirm, upstream, announced, poll, taskError, resolved>>
    /\ WritesInTime'

-----------------------------------------------------------------------------
(* resolve_conversation_image_urls and _poll_image_results.                *)

PollGoes(pc, wake, found, last) ==
    poll' = [pc |-> pc, wake |-> wake, found |-> found, last |-> last]

\* The wait before the first reading.
FirstWait == IF announced # {} /\ confirm.settle THEN Settle ELSE InitialWait

\* Mutant: what the stream gave is taken for a reading without waiting.
StartPollingAtOnce ==
    /\ poll.pc = "start"
    /\ IF announced = {}
       THEN PollGoes("polling", SleepsFor(FirstWait), {}, {})
       ELSE PollGoes("polling", now, announced, announced)
    /\ UNCHANGED <<confirm, now, upstream, announced, taskError, resolved>>

\* With both confirmations off, what the stream gave is good enough.
StartPolling ==
    /\ poll.pc = "start"
    /\ IF announced # {} /\ ~confirm.check /\ ~confirm.settle
       THEN PollGoes("resolving", now, announced, {})
       ELSE PollGoes("polling", SleepsFor(FirstWait), announced, announced)
    /\ UNCHANGED <<confirm, now, upstream, announced, taskError, resolved>>

\* A reading that began in time may be answered when the time is over.
PollReads == /\ poll.pc = "polling" /\ poll.wake <= now /\ poll.wake < PollTimeout
         /\ taskError' \in BOOLEAN

\* What the tool records of the document hold is added to what was found before.
Found == poll.found \cup document

\* Two readings agree.
Agrees(found) == poll.last = found

\* A reading of the document.
ReadDocument ==
    /\ PollReads
    /\ LET found == Found IN
       CASE found = {} /\ refusal -> PollGoes("refused", now, found, {})
         [] found = {} /\ ~refusal -> PollGoes("polling", SleepsFor(Interval), found, poll.last)
         [] /\ found # {}
            /\ ~confirm.check \/ Agrees(found) \/ ~confirm.settle \/ PollLeft = 0 ->
                PollGoes("resolving", now, found, found)
         [] OTHER -> PollGoes("polling", SleepsFor(Settle), found, found)
    /\ UNCHANGED <<confirm, now, upstream, announced, resolved>>

\* The reading fails in a way that may pass, or in another.
ReadFails ==
    /\ PollReads
    /\ \/ \E d \in Backoffs : poll' = [poll EXCEPT !.wake = SleepsFor(d)]
       \/ poll' = [poll EXCEPT !.pc = "broken"]
    /\ UNCHANGED <<confirm, now, upstream, announced, resolved>>

TimeIsOver ==
    /\ poll.pc = "polling" /\ PollLeft = 0
    /\ poll' = [poll EXCEPT !.pc = "late"]
    /\ UNCHANGED <<confirm, now, upstream, announced, taskError, resolved>>

\* What the stream gave is kept when the poll fails; what the poll found is not.  A
\* timeout with an error of a task is a refusal by the content policy.
PollFailed ==
    /\ poll.pc \in {"late", "broken", "refused"}
    /\ IF announced # {}
       THEN PollGoes("resolving", now, announced, {})
       ELSE poll' = [poll EXCEPT !.pc = IF @ = "late" /\ taskError THEN "refused for a task"
                                        ELSE "failed"]
    /\ UNCHANGED <<confirm, now, upstream, announced, taskError, resolved>>

\* _resolve_image_urls: an address that cannot be had is left out.
ResolveUrls ==
    /\ poll.pc = "resolving"
    /\ resolved' \in SUBSET poll.found
    /\ poll' = [poll EXCEPT !.pc = "done"]
    /\ UNCHANGED <<confirm, now, upstream, announced, taskError>>

-----------------------------------------------------------------------------
PollingInit ==
    /\ confirm \in [check : BOOLEAN, settle : BOOLEAN]
    /\ now = 0 /\ since = 0 /\ refusal = FALSE
    /\ announced \in SUBSET Pictures /\ document = announced
    /\ poll = [pc |-> "start", wake |-> 0, found |-> {}, last |-> {}]
    /\ taskError = FALSE /\ resolved = {}

PollingNext ==
    \/ \E i \in Pictures : WriteImage(i)
    \/ Refuse \/ PollTick
    \/ StartPolling \/ ReadDocument \/ ReadFails \/ TimeIsOver \/ PollFailed \/ ResolveUrls

PollingSpec == PollingInit /\ [][PollingNext]_pollVars

-----------------------------------------------------------------------------
\* With both confirmations on, what is returned in time is the whole reply, even if the
\* stream announced some of its images and readings failed meanwhile: several images are
\* not cut to the first one written.
AgreedIsWhole ==
    (confirm.check /\ confirm.settle /\ poll.pc = "resolving" /\ poll.last # {} /\ PollLeft > 0) =>
        poll.found = Pictures
=============================================================================
