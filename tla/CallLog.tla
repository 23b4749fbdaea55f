------------------------------- MODULE CallLog -------------------------------
(***************************************************************************)
(* The log of calls (services/log_service.py).  Every call of the API runs *)
(* its handler in a thread and is logged when it ends: on the event loop   *)
(* when the answer is whole or an error, in the thread that produces the   *)
(* stream when the answer is streamed.  The operator deletes records on    *)
(* the event loop, by reading the file and writing what is kept.           *)
(***************************************************************************)
EXTENDS Naturals

CONSTANT Calls

VARIABLES
    call,         \* where each call is
    logFile,      \* logs.jsonl: how many lines record each call with each status
    rewriting,    \* the deletion on the event loop: what it read and is to write back
    deletedCalls, \* calls whose record the operator chose to delete
    overlapped    \* calls that were logged while the file was being rewritten

logVars == <<call, logFile, rewriting, deletedCalls, overlapped>>

Statuses     == {"success", "failed"}
NoRecords    == [status \in Statuses |-> 0]
EmptyLog     == [c \in Calls |-> NoRecords]
NotRewriting == [busy |-> FALSE, kept |-> EmptyLog]
LoopIsFree   == ~rewriting.busy

Lines(c)     == logFile[c]["success"] + logFile[c]["failed"]
Recorded(c)  == Lines(c) > 0

\* LogService.add appends one line.
Add(c, status) ==
    /\ logFile' = [logFile EXCEPT ![c][status] = @ + 1]
    /\ overlapped' = IF rewriting.busy THEN overlapped \cup {c} ELSE overlapped

CallAt(c, pc)   == call[c] = pc
CallGoes(c, pc) == call' = [call EXCEPT ![c] = pc]

-----------------------------------------------------------------------------
(* LoggedCall.run, on the event loop.                                      *)

\* filter_or_log: the content filter refuses the request.
Filtered(c) ==
    /\ CallAt(c, "received") /\ LoopIsFree
    /\ \/ CallGoes(c, "handling") /\ UNCHANGED <<logFile, overlapped>>
       \/ CallGoes(c, "refused") /\ Add(c, "failed")
    /\ UNCHANGED <<rewriting, deletedCalls>>

\* The handler returned the whole answer, raised, or returned a generator.
Handled(c) ==
    /\ CallAt(c, "handling") /\ LoopIsFree
    /\ \/ CallGoes(c, "answered") /\ Add(c, "success")
       \/ CallGoes(c, "refused")  /\ Add(c, "failed")
       \/ CallGoes(c, "awaiting the first") /\ UNCHANGED <<logFile, overlapped>>
    /\ UNCHANGED <<rewriting, deletedCalls>>

\* The first item decides on the status of the response: an error before it is answered
\* as an error, a stream without items is over.
FirstItem(c) ==
    /\ CallAt(c, "awaiting the first") /\ LoopIsFree
    /\ \/ CallGoes(c, "answered") /\ Add(c, "success")
       \/ CallGoes(c, "refused")  /\ Add(c, "failed")
       \/ CallGoes(c, "opened")   /\ UNCHANGED <<logFile, overlapped>>
    /\ UNCHANGED <<rewriting, deletedCalls>>

-----------------------------------------------------------------------------
(* LoggedCall.stream, in the threads that iterate the response.            *)

StreamBegins(c) ==
    /\ CallAt(c, "opened")
    /\ CallGoes(c, "streaming")
    /\ UNCHANGED <<logFile, rewriting, deletedCalls, overlapped>>

\* Whoever leaves before the response is iterated leaves a generator that never began,
\* whose end is not logged.
LeavesBeforeStream(c) ==
    /\ CallAt(c, "opened") /\ LoopIsFree
    /\ CallGoes(c, "never streamed")
    /\ UNCHANGED <<logFile, rewriting, deletedCalls, overlapped>>

\* The last item is sent; or the client leaves, and closing the generator runs its
\* finally: neither is an Exception.
StreamEnds(c) ==
    /\ CallAt(c, "streaming")
    /\ CallGoes(c, "answered")
    /\ Add(c, "success")
    /\ UNCHANGED <<rewriting, deletedCalls>>

\* Mutant: the finally does not look at what was logged before.
StreamFailsTwice(c) ==
    /\ CallAt(c, "streaming")
    /\ CallGoes(c, "broken")
    /\ logFile' = [logFile EXCEPT ![c] = [status \in Statuses |-> @[status] + 1]]
    /\ overlapped' = IF rewriting.busy THEN overlapped \cup {c} ELSE overlapped
    /\ UNCHANGED <<rewriting, deletedCalls>>

\* The stream breaks off with an error event.
StreamFails(c) ==
    /\ CallAt(c, "streaming")
    /\ CallGoes(c, "broken")
    /\ Add(c, "failed")
    /\ UNCHANGED <<rewriting, deletedCalls>>

-----------------------------------------------------------------------------
(* LogService.delete, on the event loop: other threads go on.              *)

ReadToDelete(calls) ==
    /\ LoopIsFree
    /\ calls # {} /\ \A c \in calls : Recorded(c)
    /\ deletedCalls' = deletedCalls \cup calls
    /\ rewriting' = [busy |-> TRUE,
                     kept |-> [c \in Calls |-> IF c \in calls THEN NoRecords ELSE logFile[c]]]
    /\ UNCHANGED <<call, logFile, overlapped>>

WriteKept ==
    /\ rewriting.busy
    /\ logFile' = rewriting.kept
    /\ rewriting' = NotRewriting
    /\ UNCHANGED <<call, deletedCalls, overlapped>>

-----------------------------------------------------------------------------
LogInit ==
    /\ call = [c \in Calls |-> "received"]
    /\ logFile = EmptyLog /\ rewriting = NotRewriting
    /\ deletedCalls = {} /\ overlapped = {}

LogNext ==
    \/ WriteKept
    \/ \E calls \in SUBSET Calls : ReadToDelete(calls)
    \/ \E c \in Calls :
          \/ Filtered(c) \/ Handled(c) \/ FirstItem(c)
          \/ StreamBegins(c) \/ LeavesBeforeStream(c) \/ StreamEnds(c) \/ StreamFails(c)

LogSpec == LogInit /\ [][LogNext]_logVars

-----------------------------------------------------------------------------
Success == {"answered"}
Failure == {"refused", "broken"}
StatusOf(c) == IF call[c] \in Success THEN "success" ELSE "failed"

\* A call that ended is in the log once, with the status its caller saw, until the
\* operator deletes it; only a stream that ended while the file was rewritten may be lost.
LoggedAsEnded ==
    \A c \in Calls :
        /\ Lines(c) <= 1
        /\ Recorded(c) => call[c] \in Success \cup Failure /\ logFile[c][StatusOf(c)] = 1
        /\ (call[c] \in Success \cup Failure /\ c \notin deletedCalls \cup overlapped) =>
               Recorded(c)
=============================================================================
