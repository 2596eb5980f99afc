---------------------------- MODULE SingleFlight ----------------------------
(***************************************************************************)
(* Cache.get_or_fetch of src/backend/src/candlestack/data/cache.py for one *)
(* name: the callers of several API processes, the three Redis keys of the *)
(* name (value, kept failure, lock) and the data source behind `fetch'.    *)
(*                                                                         *)
(* One step is one await of the code: a Redis command and what the         *)
(* coroutine does with its reply up to the next await, the end of a fetch, *)
(* or a sleep; so _is_down is read when a command is sent.  A              *)
(* request is one call of get_or_fetch; its random token is the request    *)
(* itself.  Time is abstract: a key with a TTL may disappear at any step   *)
(* (its TTL ran out, Redis evicted it, or Redis was restarted), so a fetch *)
(* may outlast the lock it runs under.                                     *)
(***************************************************************************)
EXTENDS Naturals, FiniteSets

CONSTANTS
    Requests,   \* calls of get_or_fetch, each with its own lock token
    Procs,      \* API processes, each with a Cache of its own
    ProcOf,     \* the process that serves a request
    None,       \* a key that is not set
    MaxExcuses  \* bound: the count of excuses stops here

ASSUME RequestsAssumption ==
    /\ ProcOf \in [Requests -> Procs]
    /\ None \notin Requests
    /\ MaxExcuses \in Nat \ {0}

VARIABLES
    value,      \* Redis: key(name), as the request that fetched it
    failure,    \* Redis: fail_key(name), as the request whose fetch failed
    lock,       \* Redis: lock_key(name), the token of its holder
    down,       \* _down_until lies ahead, per process
    pc,         \* where each request is
    outcome,    \* what each request returns or raises
    \* history, read by no action
    called,     \* requests that called the source under the lock
    lost,       \* requests whose lock disappeared without their release
    excuses     \* expiries, Redis errors, cancellations, crashes, odd errors

redis   == <<value, failure, lock>>
history == <<called, lost, excuses>>
vars    == <<value, failure, lock, down, pc, outcome, called, lost, excuses>>

Pcs == {"idle", "lookup", "take", "recheck", "fetch", "store", "keep",
        "release", "sleep", "direct", "done"}

\* Between taking the lock and giving it back.
Holding == {"recheck", "fetch", "store", "keep", "release"}

Kinds == {"value", "failure", "error", "cancelled"}

\* What a request ends with, and the request whose fetch produced it.
Result(k, r) == [kind |-> k, by |-> r]

Nothing == [kind |-> "nothing", by |-> None]

TypeOK ==
    /\ value \in Requests \cup {None}
    /\ failure \in Requests \cup {None}
    /\ lock \in Requests \cup {None}
    /\ down \in [Procs -> BOOLEAN]
    /\ pc \in [Requests -> Pcs]
    /\ outcome \in [Requests -> [kind : Kinds, by : Requests] \cup {Nothing}]
    /\ called \subseteq Requests
    /\ lost \subseteq Requests
    /\ excuses \in 0..MaxExcuses

Init ==
    /\ value = None
    /\ failure = None
    /\ lock = None
    /\ down = [p \in Procs |-> FALSE]
    /\ pc = [r \in Requests |-> "idle"]
    /\ outcome = [r \in Requests |-> Nothing]
    /\ called = {}
    /\ lost = {}
    /\ excuses = 0

-----------------------------------------------------------------------------
(***************************************************************************)
(* Helpers.                                                                *)
(***************************************************************************)

IsDown(r) == down[ProcOf[r]]

\* Where a request goes that is about to send a command, or skips it.
Unless(r, place, otherwise) == IF IsDown(r) THEN otherwise ELSE place

Goto(r, place) == pc' = [pc EXCEPT ![r] = place]

Ends(r, result) == outcome' = [outcome EXCEPT ![r] = result]

Excuse == excuses' = IF excuses < MaxExcuses THEN excuses + 1 ELSE excuses

\* _lookup: one MGET of the value and the kept failure; the value wins.
Found ==
    IF value # None THEN Result("value", value)
    ELSE IF failure # None THEN Result("failure", failure)
    ELSE Nothing

\* Wrong variant of Deleted: a plain DEL, whoever holds the lock.
DeletedUnchecked(r) == None

\* The _RELEASE script: the lock goes only if the token still holds it.
Deleted(r) == IF lock = r THEN None ELSE lock

\* Wrong variant of AfterTake: the second look is forgotten.
FetchAtOnce(r) ==
    IF lock = None
    THEN lock' = r /\ Goto(r, "fetch") /\ called' = called \cup {r}
    ELSE Goto(r, "sleep") /\ UNCHANGED <<lock, called>>

\* SET lock token NX PX: taken, or somebody else has it.
AfterTake(r) ==
    IF lock = None
    THEN lock' = r /\ Goto(r, "recheck") /\ UNCHANGED called
    ELSE Goto(r, "sleep") /\ UNCHANGED <<lock, called>>

\* Wrong variant of AfterFailedFetch: the error is raised and not kept.
NotKept(r) == Goto(r, Unless(r, "release", "done"))

\* The fetch raised SourceUnavailable or DataIntegrityError: keep it.
AfterFailedFetch(r) == Goto(r, Unless(r, "keep", "done"))

\* _recheck found a value or a failure: give the lock back first.
WhatIsThere(r) == Goto(r, Unless(r, "release", "done"))

-----------------------------------------------------------------------------
(***************************************************************************)
(* The steps of a request.                                                 *)
(***************************************************************************)

\* Into the loop, or past it while the process skips the cache.
Call(r) ==
    /\ pc[r] = "idle"
    /\ Goto(r, Unless(r, "lookup", "direct"))
    /\ UNCHANGED <<redis, down, outcome, history>>

\* The head of the loop: return or raise what Redis has, or go for the lock.
Lookup(r) ==
    /\ pc[r] = "lookup"
    /\ \/ Found # Nothing /\ Ends(r, Found) /\ Goto(r, "done")
       \/ Found = Nothing /\ Goto(r, "take") /\ UNCHANGED outcome
    /\ UNCHANGED <<redis, down, history>>

Take(r) ==
    /\ pc[r] = "take"
    /\ AfterTake(r)
    /\ UNCHANGED <<value, failure, down, outcome, lost, excuses>>

Recheck(r) ==
    /\ pc[r] = "recheck"
    /\ \/ /\ Found # Nothing
          /\ Ends(r, Found)
          /\ WhatIsThere(r)
          /\ UNCHANGED called
       \/ /\ Found = Nothing
          /\ Goto(r, "fetch")
          /\ called' = called \cup {r}
          /\ UNCHANGED outcome
    /\ UNCHANGED <<redis, down, lost, excuses>>

Sleep(r) ==
    /\ pc[r] = "sleep"
    /\ Goto(r, Unless(r, "lookup", "direct"))
    /\ UNCHANGED <<redis, down, outcome, history>>

FetchSucceeds(r) ==
    /\ pc[r] = "fetch"
    /\ Ends(r, Result("value", r))
    /\ Goto(r, Unless(r, "store", "done"))
    /\ UNCHANGED <<redis, down, history>>

FetchFails(r) ==
    /\ pc[r] = "fetch"
    /\ Ends(r, Result("failure", r))
    /\ AfterFailedFetch(r)
    /\ UNCHANGED <<redis, down, history>>

\* Any other exception propagates and nothing is kept; `finally' releases.
FetchBreaks(r) ==
    /\ pc[r] = "fetch"
    /\ Ends(r, Result("error", r))
    /\ Goto(r, Unless(r, "release", "done"))
    /\ Excuse
    /\ UNCHANGED <<redis, down, called, lost>>

Store(r) ==
    /\ pc[r] = "store"
    /\ value' = r
    /\ Goto(r, Unless(r, "release", "done"))
    /\ UNCHANGED <<failure, lock, down, outcome, history>>

Keep(r) ==
    /\ pc[r] = "keep"
    /\ failure' = r
    /\ Goto(r, Unless(r, "release", "done"))
    /\ UNCHANGED <<value, lock, down, outcome, history>>

Release(r) ==
    /\ pc[r] = "release"
    /\ lock' = Deleted(r)
    /\ Goto(r, "done")
    /\ UNCHANGED <<value, failure, down, outcome, history>>

\* The fetch of a request that works without the cache: nothing is stored.
DirectEnds(r) ==
    /\ pc[r] = "direct"
    /\ \E k \in {"value", "failure", "error"} : Ends(r, Result(k, r))
    /\ Goto(r, "done")
    /\ UNCHANGED <<redis, down, history>>

-----------------------------------------------------------------------------
(***************************************************************************)
(* What goes wrong around them.                                            *)
(***************************************************************************)

\* The command of a failed call reached Redis all the same.
Applied(r) ==
    \/ pc[r] = "take" /\ lock = None /\ lock' = r /\ UNCHANGED <<value, failure>>
    \/ pc[r] = "store" /\ value' = r /\ UNCHANGED <<failure, lock>>
    \/ pc[r] = "keep" /\ failure' = r /\ UNCHANGED <<value, lock>>
    \/ pc[r] = "release" /\ lock' = Deleted(r) /\ UNCHANGED <<value, failure>>

\* RedisError or OSError: the process skips the cache for DOWN_SECONDS.  The
\* loop goes on without the cache (a lock just taken is not given back); a
\* failed store only logs, and so does the release, which is skipped then.
RedisFails(r) ==
    /\ \/ pc[r] \in {"lookup", "take", "recheck"} /\ Goto(r, "direct")
       \/ pc[r] \in {"store", "keep", "release"} /\ Goto(r, "done")
    /\ Applied(r) \/ UNCHANGED redis
    /\ down' = [down EXCEPT ![ProcOf[r]] = TRUE]
    /\ Excuse
    /\ UNCHANGED <<outcome, called, lost>>

\* A cancelled task: `finally' still releases after a fetch, but nothing
\* gives the lock back when the second lookup is what was cancelled.
Cancel(r) ==
    /\ pc[r] \notin {"idle", "done"}
    /\ Ends(r, Result("cancelled", r))
    /\ Goto(r, IF pc[r] \in {"fetch", "store", "keep"}
               THEN Unless(r, "release", "done") ELSE "done")
    /\ Excuse
    /\ UNCHANGED <<redis, down, called, lost>>

Running(p) == {r \in Requests : ProcOf[r] = p /\ pc[r] \notin {"idle", "done"}}

\* A process dies with everything it was doing and is started again.
Crash(p) ==
    /\ Running(p) # {}
    /\ pc' = [r \in Requests |-> IF r \in Running(p) THEN "done" ELSE pc[r]]
    /\ outcome' = [r \in Requests |->
                     IF r \in Running(p) THEN Result("cancelled", r) ELSE outcome[r]]
    /\ down' = [down EXCEPT ![p] = FALSE]
    /\ Excuse
    /\ UNCHANGED <<redis, called, lost>>

DownIsOver(p) ==
    /\ down[p]
    /\ down' = [down EXCEPT ![p] = FALSE]
    /\ UNCHANGED <<redis, pc, outcome, history>>

\* Wrong variant of LockExpires: the lock is set without PX.
LockStays == FALSE /\ UNCHANGED vars

LockExpires ==
    /\ lock # None
    /\ lock' = None
    /\ lost' = lost \cup {lock}
    /\ Excuse
    /\ UNCHANGED <<value, failure, down, pc, outcome, called>>

ValueExpires ==
    /\ value # None
    /\ value' = None
    /\ Excuse
    /\ UNCHANGED <<failure, lock, down, pc, outcome, called, lost>>

FailureExpires ==
    /\ failure # None
    /\ failure' = None
    /\ Excuse
    /\ UNCHANGED <<value, lock, down, pc, outcome, called, lost>>

-----------------------------------------------------------------------------
Step(r) ==
    \/ Lookup(r) \/ Take(r) \/ Recheck(r) \/ Sleep(r)
    \/ FetchSucceeds(r) \/ FetchFails(r) \/ FetchBreaks(r)
    \/ Store(r) \/ Keep(r) \/ Release(r)
    \/ DirectEnds(r)

Next ==
    \/ \E r \in Requests : Call(r) \/ Step(r) \/ RedisFails(r) \/ Cancel(r)
    \/ \E p \in Procs : Crash(p) \/ DownIsOver(p)
    \/ LockExpires \/ ValueExpires \/ FailureExpires

Spec == Init /\ [][Next]_vars

\* Coroutines are scheduled, fetches end (the sources have timeouts and a
\* bounded number of attempts), and Redis expires the lock.
Fairness ==
    /\ \A r \in Requests : WF_vars(Step(r))
    /\ WF_vars(LockExpires)

FairSpec == Spec /\ Fairness

-----------------------------------------------------------------------------
(***************************************************************************)
(* Properties.                                                             *)
(***************************************************************************)

\* Calling the source under the lock or about to write what it answered.
Fetching == {r \in Requests : pc[r] \in {"fetch", "store", "keep"}}

\* Two callers fetch under the lock at once only after the lock of one of
\* them ran out: get_or_fetch is single-flight while its lock lives, and a
\* late release never lets a third caller in beside the second.
SingleFlightHolds ==
    \A r, s \in Fetching : r # s => r \in lost \/ s \in lost

\* A caller whose lock has not run out still holds it until it gives it back
\* itself: the release compares the token.
HoldersKeepTheirLock ==
    \A r \in Requests : pc[r] \in Holding /\ r \notin lost => lock = r

\* While the lock lives nobody fetches what is already there: the second
\* look closes the gap between the first look and the lock.  Only a caller
\* whose own lock ran out can have stored it meanwhile.
FetchesWhatIsMissing ==
    \A r \in Requests :
        pc[r] = "fetch" /\ r \notin lost =>
            /\ value # None => value \in lost
            /\ failure # None => failure \in lost

\* Every call of the source under the lock beyond the first is excused by an
\* expiry, a Redis error, a cancellation, a crash or an unexpected error: the
\* other callers live on the stored value or the kept failure.
SourceCallsExcused ==
    excuses < MaxExcuses => Cardinality(called) <= 1 + excuses

\* When nothing goes wrong, all callers get the outcome of one fetch.
OneOutcome ==
    excuses = 0 =>
        \A r, s \in Requests :
            pc[r] = "done" /\ pc[s] = "done" => outcome[r] = outcome[s]

\* A lock that nobody is going to give back was left by a cancellation, a
\* crash or a Redis error, never by a request that ran to its end.
NoLockLeftBehind ==
    lock # None /\ excuses = 0 => pc[lock] \in Holding

\* Every caller gets an answer: a lock left behind delays the others, and
\* its expiry lets them go on.
EveryCallEnds == \A r \in Requests : pc[r] # "idle" ~> pc[r] = "done"

\* The lock is one: it is held by who took it until it is given back or runs out, no
\* two fetch under it while it lives, and none is forgotten (cache.py, get_or_fetch).
LocksAreKept == SingleFlightHolds /\ HoldersKeepTheirLock /\ NoLockLeftBehind
=============================================================================
