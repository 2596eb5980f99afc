---------------------------- MODULE MarketFrames ----------------------------
(***************************************************************************)
(* The statistics of a market: MarketFrames and StatsStore of              *)
(* data/stats_store.py.  Each process keeps a frame in memory and adopts   *)
(* newer ones from Redis, one process at a time fetches a new frame under  *)
(* a lock, and searches read a table built from the frame in a thread.     *)
(*                                                                         *)
(* There is one market: markets share the table only, which is dropped     *)
(* when the frame of any of them changes.  A frame has the time of its     *)
(* fetch and, for each instrument, the time its row was fetched at.  One   *)
(* step is what a task does up to its next await.  A Redis command fails   *)
(* at any time: a read is then a miss, a lock is granted.                  *)
(***************************************************************************)
EXTENDS Naturals, FiniteSets

CONSTANTS
    Procs,         \* processes; each refreshes the market in its own job
    Readers,       \* searches
    ProcOf,        \* the process that serves a search
    Symbols,       \* the instruments of the market
    RefreshAfter,  \* REFRESH_SECONDS
    Keep,          \* KEEP_SECONDS
    MaxNow,        \* bound on the clock
    MaxFaults,     \* bound on the failures of Redis, lost locks and crashes
    Dead,          \* the lock of a refresh that is over, or whose process died
    None

Tasks == Procs \cup Readers

\* The process a task runs in; the job of a process is named by it.
Home(t) == IF t \in Procs THEN t ELSE ProcOf[t]

Times == 0 .. MaxNow

Frames == [at : Times, rows : [Symbols -> Times \cup {None}]]

ASSUME MarketFramesAssumption ==
    /\ Procs \cap Readers = {}
    /\ ProcOf \in [Readers -> Procs]
    /\ RefreshAfter \in Nat \ {0} /\ Keep \in Nat \ {0} /\ MaxNow \in Nat
    /\ MaxFaults \in Nat
    /\ {Dead, None} \cap (Tasks \cup Nat) = {} /\ Dead # None
    /\ None \notin Frames

VARIABLES
    now,      \* time.time, in whole steps
    stored,   \* Redis: the frame, None without one
    lock,     \* Redis: the lock of the refresh
    entry,    \* _entries: the frame of each process
    table,    \* _table and _table_until: the table of each process
    pc,       \* where each task is
    after,    \* where a task goes after its look into Redis
    got,      \* the frame a task read from Redis, or builds the table from
    began,    \* the time a refresh started, or a table
    frame,    \* the frame a refresh is going to store
    alone,    \* history, read by no action: the refreshes nobody came between
    faults    \* the failures so far, for the bound

redis == <<stored, lock>>
memory == <<entry, table>>
local == <<after, got, frame>>
vars == <<now, stored, lock, entry, table, pc, after, got, began, frame, alone, faults>>

Tables == [at : Times \cup {None}, rows : [Symbols -> Times \cup {None}],
           until : 0 .. MaxNow + Keep]

Pcs == {"idle", "head", "get", "decode", "lock", "fetch", "store", "unlock", "adopt",
        "table", "build"}

\* The jobs that run under the lock, as far as they know.
Refreshing == {j \in Procs : \/ pc[j] \in {"fetch", "store", "unlock"}
                             \/ pc[j] \in {"head", "get", "decode"} /\ after[j] = "fetch"}

\* Every variable has its type, and the lock is that of a refresh that runs, or
\* one that could not give it back.
TypeOK ==
    /\ now \in Times
    /\ stored \in Frames \cup {None}
    /\ lock \in Refreshing \cup {Dead, None}
    /\ entry \in [Procs -> Frames \cup {None}]
    /\ table \in [Procs -> Tables \cup {None}]
    /\ pc \in [Tasks -> Pcs]
    /\ after \in [Tasks -> {"lock", "fetch", "table"}]
    /\ got \in [Tasks -> Frames \cup {None}]
    /\ began \in [Tasks -> Times]
    /\ frame \in [Procs -> Frames \cup {None}]
    /\ alone \subseteq Procs
    /\ faults \in 0 .. MaxFaults

Init ==
    /\ now = 0
    /\ stored = None /\ lock = None
    /\ entry = [p \in Procs |-> None]
    /\ table = [p \in Procs |-> None]
    /\ pc = [t \in Tasks |-> "idle"]
    /\ after = [t \in Tasks |-> IF t \in Procs THEN "lock" ELSE "table"]
    /\ got = [t \in Tasks |-> None]
    /\ began = [t \in Tasks |-> 0]
    /\ frame = [p \in Procs |-> None]
    /\ alone = {}
    /\ faults = 0

-----------------------------------------------------------------------------
(***************************************************************************)
(* Helpers.                                                                *)
(***************************************************************************)

\* A task that ends forgets when it started.
Goto(t, place) ==
    /\ pc' = [pc EXCEPT ![t] = place]
    /\ began' = [began EXCEPT ![t] = IF place = "idle" THEN 0 ELSE @]

\* A refresh starts, or the building of a table, now.
StartAt(t, place) ==
    /\ pc' = [pc EXCEPT ![t] = place]
    /\ began' = [began EXCEPT ![t] = now]

\* Redis fails a task, a lock is lost or a process dies.
Fault ==
    /\ faults < MaxFaults
    /\ faults' = faults + 1

\* Nothing fails, and no refresh comes between another.
Smooth == UNCHANGED <<alone, faults>>

Old(time) == now >= time + Keep

\* _adopt: the frame of a process and what is derived from it.
Adopt(p, f) ==
    /\ entry' = [entry EXCEPT ![p] = f]
    /\ table' = [table EXCEPT ![p] = None]

\* The frame of a process without rows that are too old.
Young(f) == [s \in Symbols |-> IF f = None \/ f.rows[s] = None \/ Old(f.rows[s])
                               THEN None ELSE f.rows[s]]

\* Wrong variant of Merged: the source's answer replaces the frame.
Replaced(p, failed) ==
    [at |-> began[p], rows |-> [s \in Symbols |-> IF s \in failed THEN None ELSE began[p]]]

\* _merged: the rows of the instruments the source could not be asked for are
\* carried over.
Merged(p, failed) ==
    [at   |-> began[p],
     rows |-> [s \in Symbols |-> IF s \in failed THEN Young(entry[p])[s] ELSE began[p]]]

\* When the oldest row of a table expires; without rows it never does.
Until(rows) ==
    LET times == {rows[s] : s \in Symbols} \ {None}
    IN  IF times = {} THEN MaxNow + Keep
        ELSE (CHOOSE t \in times : \A u \in times : t <= u) + Keep

\* _RELEASE: the lock goes if its token is that of the job.
Unlocked(j) == IF lock = j THEN None ELSE lock

\* A lock nobody gives back any more; it ends by itself.
Orphaned(j) == IF lock = j THEN Dead ELSE lock

\* Wrong variant of Onwards: the frame is not looked at again under the lock.
NotAgain(t, due) ==
    IF after[t] = "fetch" THEN "fetch" ELSE IF due THEN "lock" ELSE "idle"

\* Where a refresh goes once _due is answered; one that is not due is over, after
\* it gave its lock back.
Onwards(t, due) ==
    IF due THEN after[t] ELSE IF after[t] = "fetch" THEN "unlock" ELSE "idle"

-----------------------------------------------------------------------------
(***************************************************************************)
(* _reload: the frame in Redis, when it is newer.                          *)
(***************************************************************************)

\* After the look of a task: f is the frame its process has then.
Looked(t, f) ==
    Goto(t, IF t \in Readers THEN "table"
            ELSE Onwards(t, f # None => began[t] >= f.at + RefreshAfter))

\* GETRANGE of the fetch time; a miss, a failure, an older or an old frame ends
\* the look.
Head(t) ==
    LET p     == Home(t)
        newer == /\ stored # None
                 /\ entry[p] # None => stored.at > entry[p].at
                 /\ ~Old(stored.at)
    IN
    /\ pc[t] = "head"
    /\ \/ newer /\ Goto(t, "get") /\ Smooth
       \/ ~newer /\ Looked(t, entry[p]) /\ Smooth
       \/ Looked(t, entry[p]) /\ Fault /\ alone' = alone \ {t}
    /\ UNCHANGED <<now, redis, memory, local>>

\* GET of the frame, which is decoded in a thread.
Get(t) ==
    /\ pc[t] = "get"
    /\ \/ /\ stored # None
          /\ got' = [got EXCEPT ![t] = stored]
          /\ Goto(t, "decode")
          /\ Smooth
       \/ /\ Looked(t, entry[Home(t)])
          /\ IF stored = None THEN Smooth ELSE Fault /\ alone' = alone \ {t}
          /\ UNCHANGED got
    /\ UNCHANGED <<now, redis, memory, after, frame>>

\* The frame is adopted, whatever the process adopted meanwhile: it may be
\* older, which comes between a refresh of the process.
Decode(t) ==
    LET p == Home(t) IN
    /\ pc[t] = "decode"
    /\ Adopt(p, got[t])
    /\ Looked(t, got[t])
    /\ got' = [got EXCEPT ![t] = None]
    /\ alone' = IF entry[p] # None /\ entry[p].at > got[t].at THEN alone \ {p} ELSE alone
    /\ UNCHANGED <<now, redis, after, frame, faults>>

-----------------------------------------------------------------------------
(***************************************************************************)
(* _refresh.                                                               *)
(***************************************************************************)

StartRefresh(j) ==
    /\ pc[j] = "idle"
    /\ StartAt(j, "head")
    /\ after' = [after EXCEPT ![j] = "lock"]
    /\ Smooth
    /\ UNCHANGED <<now, redis, memory, got, frame>>

\* Cache.lock: SET NX; without Redis it is granted, also when the SET was
\* applied and its answer lost.
Lock(j) ==
    LET granted == Goto(j, "head") /\ after' = [after EXCEPT ![j] = "fetch"] IN
    /\ pc[j] = "lock"
    /\ \/ /\ lock = None
          /\ lock' = j
          /\ alone' = alone \cup {j}
          /\ granted
          /\ UNCHANGED faults
       \/ /\ lock # None
          /\ Goto(j, "idle")
          /\ Smooth
          /\ UNCHANGED <<lock, after>>
       \/ /\ Fault
          /\ lock' \in {lock, IF lock = None THEN j ELSE lock}
          /\ alone' = alone \ {j}
          /\ granted
    /\ UNCHANGED <<now, stored, memory, got, frame>>

\* fetch: the rows of the instruments that could be asked for, or none at all.
\* They are merged with the frame the process has now.
Fetch(j) ==
    /\ pc[j] = "fetch"
    /\ \/ /\ \E failed \in SUBSET Symbols :
                frame' = [frame EXCEPT ![j] = Merged(j, failed)]
          /\ Goto(j, "store")
       \/ Goto(j, "unlock") /\ UNCHANGED frame
    /\ Smooth
    /\ UNCHANGED <<now, redis, memory, after, got>>

\* SET of the frame; a failure is only logged.  A refresh that is not alone
\* comes between those that are.
Store(j) ==
    /\ pc[j] = "store"
    /\ \/ stored' = frame[j] /\ UNCHANGED faults
       \/ Fault /\ UNCHANGED stored
    /\ Goto(j, "unlock")
    /\ alone' = IF j \in alone THEN alone ELSE alone \ Refreshing
    /\ UNCHANGED <<now, lock, memory, local>>

\* The lock is given back, then the frame adopted, if there is one.
Unlock(j) ==
    /\ pc[j] = "unlock"
    /\ \/ lock' = Unlocked(j) /\ UNCHANGED faults
       \/ Fault /\ lock' = Orphaned(j)
    /\ alone' = alone \ {j}
    /\ Goto(j, IF frame[j] = None THEN "idle" ELSE "adopt")
    /\ after' = [after EXCEPT ![j] = "lock"]
    /\ UNCHANGED <<now, stored, memory, got, frame>>

AdoptFetched(j) ==
    /\ pc[j] = "adopt"
    /\ Adopt(j, frame[j])
    /\ frame' = [frame EXCEPT ![j] = None]
    /\ Goto(j, "idle")
    /\ Smooth
    /\ UNCHANGED <<now, redis, after, got>>

-----------------------------------------------------------------------------
(***************************************************************************)
(* table, for a search.                                                    *)
(***************************************************************************)

\* Whether a minute has passed since the last look into Redis is left open; a
\* search does not wait for the look of another.
StartSearch(r) ==
    /\ pc[r] = "idle"
    /\ \E place \in {"head", "table"} : Goto(r, place)
    /\ Smooth
    /\ UNCHANGED <<now, redis, memory, local>>

\* _forget_old, then the table is returned, or a build of it begins.
ReadTable(r) ==
    LET p    == ProcOf[r]
        gone == entry[p] # None /\ Old(entry[p].at)
        kept == IF gone THEN None ELSE table[p]
        good == kept # None /\ now < kept.until
    IN
    /\ pc[r] = "table"
    /\ entry' = [entry EXCEPT ![p] = IF gone THEN None ELSE @]
    /\ table' = [table EXCEPT ![p] = kept]
    /\ \/ good /\ Goto(r, "idle") /\ UNCHANGED got
       \/ ~good /\ StartAt(r, "build") /\ got' = [got EXCEPT ![r] = entry'[p]]
    /\ Smooth
    /\ UNCHANGED <<now, redis, after, frame>>

\* _table in its thread ended: the table of the frame it began with is kept.
BuildTable(r) ==
    LET f    == got[r]
        rows == [s \in Symbols |-> IF f = None \/ f.rows[s] = None
                                      \/ began[r] >= f.rows[s] + Keep
                                   THEN None ELSE f.rows[s]]
    IN
    /\ pc[r] = "build"
    /\ table' = [table EXCEPT ![ProcOf[r]] =
                    [at |-> IF f = None THEN None ELSE f.at, rows |-> rows,
                     until |-> Until(rows)]]
    /\ got' = [got EXCEPT ![r] = None]
    /\ Goto(r, "idle")
    /\ Smooth
    /\ UNCHANGED <<now, redis, entry, after, frame>>

-----------------------------------------------------------------------------
(***************************************************************************)
(* What surrounds the processes.                                           *)
(***************************************************************************)

Tick ==
    /\ now < MaxNow
    /\ now' = now + 1
    /\ Smooth
    /\ UNCHANGED <<redis, memory, pc, began, local>>

\* Redis drops the frame when it is too old.
StoredExpires ==
    /\ stored # None /\ Old(stored.at)
    /\ stored' = None
    /\ Smooth
    /\ UNCHANGED <<now, lock, memory, pc, began, local>>

\* The lock ends while its job runs, whose renewals fail or come too late, or
\* when nobody renews it any more.
LockExpires ==
    /\ lock # None
    /\ lock' = None
    /\ alone' = alone \ {lock}
    /\ IF lock = Dead THEN UNCHANGED faults ELSE Fault
    /\ UNCHANGED <<now, stored, memory, pc, began, local>>

\* A process dies, its memory and tasks with it, and starts again.
Crash(p) ==
    LET dead == {t \in Tasks : Home(t) = p} IN
    /\ Fault
    /\ pc' = [t \in Tasks |-> IF t \in dead THEN "idle" ELSE pc[t]]
    /\ after' = [t \in Tasks |-> IF t = p THEN "lock" ELSE after[t]]
    /\ got' = [t \in Tasks |-> IF t \in dead THEN None ELSE got[t]]
    /\ began' = [t \in Tasks |-> IF t \in dead THEN 0 ELSE began[t]]
    /\ frame' = [frame EXCEPT ![p] = None]
    /\ entry' = [entry EXCEPT ![p] = None]
    /\ table' = [table EXCEPT ![p] = None]
    /\ lock' = Orphaned(p)
    /\ alone' = alone \ {p}
    /\ UNCHANGED <<now, stored>>

Next ==
    \/ \E t \in Tasks : Head(t) \/ Get(t) \/ Decode(t)
    \/ \E j \in Procs : \/ StartRefresh(j) \/ Lock(j) \/ Fetch(j) \/ Store(j)
                        \/ Unlock(j) \/ AdoptFetched(j)
    \/ \E r \in Readers : StartSearch(r) \/ ReadTable(r) \/ BuildTable(r)
    \/ \E p \in Procs : Crash(p)
    \/ Tick \/ StoredExpires \/ LockExpires

Spec == Init /\ [][Next]_vars

-----------------------------------------------------------------------------
(***************************************************************************)
(* Properties.                                                             *)
(***************************************************************************)

\* "One process refreshes a market at a time": two refreshes run at once only
\* when Redis failed one of them or the lock of one of them ended.
OneRefreshAtATime ==
    \A i, j \in Refreshing : i # j => ~({i, j} \subseteq alone)

\* A refresh under the lock never puts an older frame over a newer one, even if
\* it began first and waited for the lock, nor fetches one that is still fresh.
StoredNeverGoesBack ==
    [][\A j \in Procs :
         pc[j] = "store" /\ pc'[j] = "unlock" /\ j \in alone
           /\ stored # None /\ stored' # stored /\ ~Old(stored.at)
         => stored'.at >= stored.at + RefreshAfter]_vars

\* An instrument the source could not be asked for keeps its last row until it
\* is too old: as long as nothing fails, a refresh loses no row of the frame it
\* replaces, nor puts an older one there.
RowsStayUntilTooOld ==
    [][\A j \in Procs :
         pc[j] = "store" /\ pc'[j] = "unlock" /\ j \in alone /\ faults' = 0
         => \A s \in Symbols : Young(stored)[s] # None
                               => /\ stored'.rows[s] # None
                                  /\ stored'.rows[s] >= stored.rows[s]]_vars

\* A search returns the table its process kept; a crash ends it without.
Serves(r) == pc[r] = "table" /\ pc'[r] = "idle" /\ table'[ProcOf[r]] # None

\* A table served again has no row that is too old by now, those of instruments
\* that were carried over included.
ServedRowsAreYoung ==
    [][\A r \in Readers : Serves(r)
         => \A s \in Symbols : LET row == table'[ProcOf[r]].rows[s]
                               IN  row # None => ~Old(row)]_vars

\* Rows have their time: those of instruments that were not answered stay until they
\* are too old, and a table is served with none that is (stats_store.py, _merged, _table).
RowsKeepTheirTime == RowsStayUntilTooOld /\ ServedRowsAreYoung
=============================================================================
