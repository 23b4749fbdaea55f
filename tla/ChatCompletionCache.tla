------------------------- MODULE ChatCompletionCache -------------------------
(***************************************************************************)
(* The cache of text completions (services/protocol/                       *)
(* chat_completion_cache.py): answers are kept for a while, and a request  *)
(* equal to one under way waits for its answer (single flight).            *)
(*                                                                         *)
(* Requests run on the threads of the server's pool.  A streamed request   *)
(* is a generator: LoggedCall.run takes its first item on one thread and   *)
(* the response the others, each on whichever thread is free, so the       *)
(* generator is suspended in between, with the locks it is inside of.  A   *)
(* suspended generator whose client is gone is closed on the event loop.   *)
(***************************************************************************)
EXTENDS Naturals, Sequences

CONSTANTS
    Requests,     \* bound: the requests of a behaviour
    Keys,         \* the values of cache_key
    KeyOf,        \* the key of each request
    StreamKeys,   \* keys of requests with stream = true: the flag is part of the key
    Workers,      \* the threads of the pool
    Loop,         \* the thread of the event loop
    Nobody,
    Modes,        \* settings a request may read: "off", "cache", "dedupe"
    MaxEntries,   \* the setting max_entries
    ClientsLeave  \* whether clients give up on a stream

ASSUME CacheAssumption ==
    /\ KeyOf \in [Requests -> Keys]
    /\ StreamKeys \subseteq Keys
    /\ Loop \notin Workers
    /\ Nobody \notin Requests \cup Workers \cup {Loop}
    /\ Modes \subseteq {"off", "cache", "dedupe"}
    /\ MaxEntries \in Nat \ {0}
    /\ ClientsLeave \in BOOLEAN

VARIABLES
    entries,   \* _entries, oldest first: a key and the request that computed it
    inflight,  \* _inflight: the request that computes each key, or Nobody
    call,      \* the InflightCall of each request: pending, value or error
    lock,      \* _lock: a reentrant lock, its owner and depth
    cond,      \* the reentrant lock of each InflightCall's condition
    pc,        \* where each request is
    at,        \* the thread that runs it, Nobody while it is suspended
    from,      \* the request whose answer it gets or waits for
    mode       \* the setting it read

vars == <<entries, inflight, call, lock, cond, pc, at, from, mode>>

Streamed(r) == KeyOf[r] \in StreamKeys
Ended       == {"answered", "failed", "left"}
Threads     == Workers \cup {Loop}
Running(r)  == at[r] # Nobody
Busy(w)     == \E r \in Requests : at[r] = w

-----------------------------------------------------------------------------
(* Reentrant locks.                                                        *)

Free         == [owner |-> Nobody, depth |-> 0]
Open(l, w)   == l.owner \in {Nobody, w}

Entered(l, w) == [owner |-> w, depth |-> l.depth + 1]
Released(l)   == IF l.depth = 1 THEN Free ELSE [l EXCEPT !.depth = l.depth - 1]

-----------------------------------------------------------------------------
(* The entries.                                                            *)

HasEntry(k) == \E i \in DOMAIN entries : entries[i].key = k
Entry(k)    == CHOOSE i \in DOMAIN entries : entries[i].key = k

\* A key has one entry: the new one takes its place.
Others(k) ==
    IF HasEntry(k)
    THEN SubSeq(entries, 1, Entry(k) - 1) \o SubSeq(entries, Entry(k) + 1, Len(entries))
    ELSE entries

\* _prune_locked keeps the entries that expire last; the new one does.
Stored(k, r) ==
    LET all == Append(Others(k), [key |-> k, by |-> r])
    IN IF Len(all) > MaxEntries
       THEN SubSeq(all, Len(all) - MaxEntries + 1, Len(all)) ELSE all

\* The time to live of the oldest entry is over.
Expire ==
    /\ entries # <<>>
    /\ entries' = Tail(entries)
    /\ UNCHANGED <<inflight, call, lock, cond, pc, at, from, mode>>

-----------------------------------------------------------------------------
(* Threads.  The event loop hands work to them; it cannot while it is busy. *)

\* A request, or the next item of a streamed one, is given to a thread.
Run(r, w) ==
    /\ pc[r] \in {"new", "computing", "replaying", "following"}
    /\ ~Running(r) /\ ~Busy(w) /\ ~Busy(Loop)
    /\ at' = [at EXCEPT ![r] = w]
    /\ UNCHANGED <<entries, inflight, call, lock, cond, pc, from, mode>>

\* An item is sent.  Every stream has one at least, and the step that ends it is
\* another call of next.
Yields(r) ==
    /\ Streamed(r) /\ Running(r) /\ pc[r] = "computing"
    /\ at' = [at EXCEPT ![r] = Nobody]
    /\ UNCHANGED <<entries, inflight, call, lock, cond, pc, from, mode>>

\* The request is over, with an answer or an exception, and its thread free.
Ends(r, how) ==
    /\ pc' = [pc EXCEPT ![r] = how]
    /\ at' = [at EXCEPT ![r] = Nobody]

Goes(r, where) == pc' = [pc EXCEPT ![r] = where] /\ UNCHANGED at

-----------------------------------------------------------------------------
(* get_or_compute_response and get_or_compute_stream.                      *)

Starts(r, m) == Running(r) /\ pc[r] = "new" /\ mode' = [mode EXCEPT ![r] = m]

\* The cache is disabled: the request computes for itself alone.
Bypass(r) ==
    /\ "off" \in Modes /\ Starts(r, "off")
    /\ from' = [from EXCEPT ![r] = r]
    /\ Goes(r, "computing")
    /\ UNCHANGED <<entries, inflight, call, lock, cond>>

\* The answer is known.  A stream sends it from inside `with self._lock`.
Hit(r) ==
    /\ \E m \in Modes \ {"off"} : Starts(r, m)
    /\ Open(lock, at[r])
    /\ HasEntry(KeyOf[r])
    /\ from' = [from EXCEPT ![r] = entries[Entry(KeyOf[r])].by]
    /\ IF Streamed(r)
       THEN Ends(r, "replaying") /\ lock' = Entered(lock, at[r])
       ELSE Ends(r, "answered") /\ UNCHANGED lock
    /\ UNCHANGED <<entries, inflight, call, cond>>

\* Mutant of Own: the call is not registered under the lock that looked it up.
OwnUnregistered(r) ==
    /\ \E m \in Modes \ {"off"} : Starts(r, m) /\ (m = "dedupe" => inflight[KeyOf[r]] = Nobody)
    /\ Open(lock, at[r])
    /\ ~HasEntry(KeyOf[r])
    /\ from' = [from EXCEPT ![r] = r]
    /\ Goes(r, "computing")
    /\ UNCHANGED <<entries, inflight, call, lock, cond>>

\* Nobody computes the key, or calls are not merged: this request does.
Own(r) ==
    /\ Open(lock, at[r])
    /\ ~HasEntry(KeyOf[r])
    /\ \/ /\ "dedupe" \in Modes /\ Starts(r, "dedupe")
          /\ inflight[KeyOf[r]] = Nobody
          /\ inflight' = [inflight EXCEPT ![KeyOf[r]] = r]
       \/ /\ "cache" \in Modes /\ Starts(r, "cache")
          /\ UNCHANGED inflight
    /\ from' = [from EXCEPT ![r] = r]
    /\ Goes(r, "computing")
    /\ UNCHANGED <<entries, call, lock, cond>>

\* Another request computes it: wait on its condition, on this thread.
Join(r) ==
    /\ "dedupe" \in Modes /\ Starts(r, "dedupe")
    /\ Open(lock, at[r])
    /\ ~HasEntry(KeyOf[r])
    /\ inflight[KeyOf[r]] # Nobody
    /\ from' = [from EXCEPT ![r] = inflight[KeyOf[r]]]
    /\ Goes(r, "waiting")
    /\ UNCHANGED <<entries, inflight, call, lock, cond>>

\* The owner is done.  A stream sends the answer from inside the condition.
Wake(r) ==
    /\ Running(r) /\ pc[r] = "waiting"
    /\ Open(cond[from[r]], at[r])
    /\ \/ call[from[r]] = "error" /\ Ends(r, "failed") /\ UNCHANGED cond
       \/ /\ call[from[r]] = "value"
          /\ IF Streamed(r)
             THEN /\ Ends(r, "following")
                  /\ cond' = [cond EXCEPT ![from[r]] = Entered(@, at[r])]
             ELSE Ends(r, "answered") /\ UNCHANGED cond
    /\ UNCHANGED <<entries, inflight, call, lock, from, mode>>

\* The last next of a replay leaves the `with`.  A lock another thread owns cannot
\* be released: RuntimeError, and the lock stays as it is.
EndReplay(r) ==
    /\ Running(r)
    /\ \/ /\ pc[r] = "replaying" /\ UNCHANGED cond
          /\ IF lock.owner = at[r]
             THEN lock' = Released(lock) /\ Ends(r, "answered")
             ELSE UNCHANGED lock /\ Ends(r, "failed")
       \/ /\ pc[r] = "following" /\ UNCHANGED lock
          /\ IF cond[from[r]].owner = at[r]
             THEN cond' = [cond EXCEPT ![from[r]] = Released(@)] /\ Ends(r, "answered")
             ELSE UNCHANGED cond /\ Ends(r, "failed")
    /\ UNCHANGED <<entries, inflight, call, from, mode>>

-----------------------------------------------------------------------------
(* The owner.                                                              *)

\* compute() returned, or the last chunk was sent.
Computed(r) ==
    /\ Running(r) /\ pc[r] = "computing"
    /\ IF mode[r] = "off" THEN Ends(r, "answered") ELSE Goes(r, "storing")
    /\ UNCHANGED <<entries, inflight, call, lock, cond, from, mode>>

\* It raised.
ComputeFails(r) ==
    /\ Running(r) /\ pc[r] = "computing"
    /\ IF mode[r] = "off" THEN Ends(r, "failed") ELSE Goes(r, "dropping")
    /\ UNCHANGED <<entries, inflight, call, lock, cond, from, mode>>

Unregistered(r) == [inflight EXCEPT ![KeyOf[r]] = Nobody]

\* Under _lock: the entry replaces the call.
Store(r) ==
    /\ Running(r) /\ pc[r] = "storing" /\ Open(lock, at[r])
    /\ entries'  = Stored(KeyOf[r], r)
    /\ inflight' = Unregistered(r)
    /\ Goes(r, "publishing")
    /\ UNCHANGED <<call, lock, cond, from, mode>>

\* Under the condition: the followers are told.
Publish(r) ==
    /\ Running(r) /\ pc[r] = "publishing" /\ Open(cond[r], at[r])
    /\ call' = [call EXCEPT ![r] = "value"]
    /\ Ends(r, "answered")
    /\ UNCHANGED <<entries, inflight, lock, cond, from, mode>>

\* Mutants of Drop: the chunks sent so far are stored; the call stays registered.
DropStoring(r) ==
    /\ Running(r) /\ pc[r] = "dropping" /\ Open(lock, at[r])
    /\ entries'  = Stored(KeyOf[r], r)
    /\ inflight' = Unregistered(r)
    /\ Goes(r, "alerting")
    /\ UNCHANGED <<call, lock, cond, from, mode>>
Drop(r) ==
    /\ Running(r) /\ pc[r] = "dropping" /\ Open(lock, at[r])
    /\ inflight' = Unregistered(r)
    /\ Goes(r, "alerting")
    /\ UNCHANGED <<entries, call, lock, cond, from, mode>>

\* Mutant of PublishError: the followers are not told.
PublishErrorSilently(r) ==
    /\ Running(r) /\ pc[r] = "alerting"
    /\ Ends(r, "failed")
    /\ UNCHANGED <<entries, inflight, call, lock, cond, from, mode>>

PublishError(r) ==
    /\ Running(r) /\ pc[r] = "alerting" /\ Open(cond[r], at[r])
    /\ call' = [call EXCEPT ![r] = "error"]
    /\ Ends(r, "failed")
    /\ UNCHANGED <<entries, inflight, lock, cond, from, mode>>

-----------------------------------------------------------------------------
(* Clients.                                                                *)

\* The client of a suspended stream is gone: the generator is closed on the event
\* loop.  An owner unwinds as from an error; a replay cannot release its lock.
Leave(r) ==
    /\ ClientsLeave /\ Streamed(r) /\ ~Running(r) /\ ~Busy(Loop)
    /\ \/ /\ pc[r] = "computing" /\ mode[r] # "off"
          /\ at' = [at EXCEPT ![r] = Loop]
          /\ pc' = [pc EXCEPT ![r] = "dropping"]
       \/ /\ \/ pc[r] \in {"replaying", "following"}
             \/ pc[r] = "computing" /\ mode[r] = "off"
          /\ Ends(r, "left")
    /\ UNCHANGED <<entries, inflight, call, lock, cond, from, mode>>

-----------------------------------------------------------------------------
Init ==
    /\ entries = <<>>
    /\ inflight = [k \in Keys |-> Nobody]
    /\ call = [r \in Requests |-> "pending"]
    /\ lock = Free
    /\ cond = [r \in Requests |-> Free]
    /\ pc = [r \in Requests |-> "new"]
    /\ at = [r \in Requests |-> Nobody]
    /\ from = [r \in Requests |-> Nobody]
    /\ mode = [r \in Requests |-> "off"]

Step(r) ==
    \/ Bypass(r) \/ Hit(r) \/ Own(r) \/ Join(r)
    \/ Wake(r) \/ EndReplay(r)
    \/ Computed(r) \/ ComputeFails(r)
    \/ Store(r) \/ Publish(r) \/ Drop(r) \/ PublishError(r)

Next ==
    \/ \E r \in Requests : Step(r) \/ Yields(r) \/ Leave(r)
    \/ \E r \in Requests, w \in Workers : Run(r, w)
    \/ Expire

Spec == Init /\ [][Next]_vars

\* A thread runs what it is given, and what is computed upstream ends: every call
\* has a timeout.
FairSpec == Spec /\ \A r \in Requests : WF_vars(Step(r))

-----------------------------------------------------------------------------
\* A request that does not merge calls has ended its computation of the key.  It pops
\* _inflight[key] all the same, whoever is registered there.
Unmerged(k) ==
    \E c \in Requests :
        /\ mode[c] = "cache" /\ KeyOf[c] = k /\ from[c] = c
        /\ pc[c] \in {"publishing", "alerting", "answered", "failed"}

\* Single flight: requests that merge calls never compute the same key at once, unless
\* one that does not merge them (dedupe_inflight was off when it came) has ended on that
\* key: computing it at the same time is not enough.
SingleFlight ==
    \A r, s \in Requests :
        (/\ pc[r] = "computing" /\ pc[s] = "computing"
         /\ mode[r] = "dedupe" /\ mode[s] = "dedupe"
         /\ KeyOf[r] = KeyOf[s]) => r = s \/ Unmerged(KeyOf[r])

\* Whatever fails or is given up halfway, nobody is answered with, and the cache
\* never keeps, the output of a computation that did not run to its end.
WholeAnswersOnly ==
    LET whole == {s \in Requests : pc[s] \in {"publishing", "answered"}} IN
    /\ \A i \in DOMAIN entries : entries[i].by \in whole
    /\ \A r \in Requests : pc[r] = "answered" => from[r] \in whole

\* A registered call is one that is still going to be stored or dropped: no request
\* joins a call that is over.
RegisteredCallsRun ==
    \A k \in Keys :
        inflight[k] # Nobody =>
            /\ pc[inflight[k]] \in {"computing", "storing", "dropping"}
            /\ KeyOf[inflight[k]] = k

\* A request that waits will be told: its owner is still under way or has told.
NobodyWaitsInVain ==
    \A r \in Requests :
        (pc[r] = "waiting" /\ call[from[r]] = "pending") => pc[from[r]] \notin Ended

\* A request given to a thread ends, whoever it waits for.
EveryRequestEnds == \A r \in Requests : Running(r) ~> pc[r] \in Ended

\* A stream the cache replays is answered: the replay itself never fails.
ReplaysAreAnswered ==
    \A r \in Requests : (pc[r] = "failed" /\ from[r] # r) => call[from[r]] = "error"
=============================================================================
