---------------------------- MODULE CatalogStore ----------------------------
(***************************************************************************)
(* The instrument catalogs of a process: CatalogStore of                   *)
(* data/catalog_store.py.  Each market has a list, loaded from Redis or    *)
(* from its source when a search needs it and refreshed in the background  *)
(* when it is old; searches read one catalog that a thread builds from the *)
(* lists of all markets.                                                   *)
(*                                                                         *)
(* A list is the time it was fetched at.  One step is what a task does up  *)
(* to its next await.  The calls of the cache are what SingleFlight says   *)
(* of them: get_or_fetch answers with the value in Redis, a fetched one or *)
(* an error, and a lock is granted or not.  Other processes share Redis.   *)
(***************************************************************************)
EXTENDS Naturals, FiniteSets

CONSTANTS
    Markets,
    Searches,      \* calls of catalog
    Slots,         \* bound: the refreshes of a market that run at once
    RefreshAfter,  \* REFRESH_AFTER
    MaxNow,        \* bound on the clock
    Background,    \* the load of a market that no search waits for
    Unreadable,    \* a list in Redis that cannot be decoded
    None

Times == 0 .. MaxNow

ASSUME CatalogStoreAssumption ==
    /\ RefreshAfter \in Nat \ {0} /\ MaxNow \in Nat
    /\ Background \notin Searches
    /\ {Unreadable, None} \cap Nat = {} /\ Unreadable # None
    /\ None \notin [Markets -> Times \cup {None}]

\* Loads are tasks of a search, or of nobody.
Loads == (Searches \cup {Background}) \X Markets

Refreshes == Slots \X Markets

MarketOf(task) == task[2]

VARIABLES
    now,      \* time.time, in whole steps
    stored,   \* Redis: the list of each market
    entries,  \* _entries, as the fetch time of each list
    catalog,  \* _catalog, as the entries it was built from
    version,  \* _version
    failed,   \* _failed: "resting" for LOAD_RETRY_SECONDS, then "over"
    resting,  \* the markets whose _next_refresh lies ahead
    loading,  \* _loading
    asked,    \* the markets a search is over
    pc,       \* where each search is
    seen,     \* the version a search builds from, and its entries
    at,       \* where each load is
    got,      \* the list a load got
    doing,    \* where each refresh is
    list      \* the list a refresh got

process  == <<entries, catalog, version, failed, resting, loading>>
searches == <<asked, pc, seen>>
loads    == <<at, got>>
refreshes == <<doing, list>>
vars     == <<now, stored, entries, catalog, version, failed, resting, loading, asked, pc,
              seen, at, got, doing, list>>

Lists == Times \cup {Unreadable, None}

Snapshots == [Markets -> Times \cup {None}]

\* Every variable has its type.
TypeOK ==
    /\ now \in Times
    /\ stored \in [Markets -> Lists]
    /\ entries \in Snapshots
    /\ catalog \in Snapshots \cup {None}
    /\ version \in Nat
    /\ failed \in [Markets -> {"never", "resting", "over"}]
    /\ resting \subseteq Markets
    /\ loading \subseteq Markets
    /\ asked \in [Searches -> SUBSET Markets]
    /\ pc \in [Searches -> {"idle", "gather", "build", "ok", "error"}]
    /\ seen \in [Searches -> [version : Nat, entries : Snapshots] \cup {None}]
    /\ at \in [Loads -> {"idle", "entry", "load", "decode", "drop", "load again",
                         "decode again", "loaded", "failed", "broken"}]
    /\ got \in [Loads -> Lists]
    /\ doing \in [Refreshes -> {"idle", "get", "decode", "lock", "fetch", "store", "adopt"}]
    /\ list \in [Refreshes -> Lists]

Init ==
    /\ now = 0
    /\ stored \in [Markets -> {0, Unreadable, None}]
    /\ entries = [m \in Markets |-> None]
    /\ catalog = None
    /\ version = 0
    /\ failed = [m \in Markets |-> "never"]
    /\ resting = {} /\ loading = {}
    /\ asked = [r \in Searches |-> {}]
    /\ pc = [r \in Searches |-> "idle"]
    /\ seen = [r \in Searches |-> None]
    /\ at = [l \in Loads |-> "idle"]
    /\ got = [l \in Loads |-> None]
    /\ doing = [f \in Refreshes |-> "idle"]
    /\ list = [f \in Refreshes |-> None]

-----------------------------------------------------------------------------
(***************************************************************************)
(* Helpers.                                                                *)
(***************************************************************************)

\* _decode gets a list, rather than an error.
Readable(value) == value # Unreadable

Fresh(value) == value \in Times /\ now < value + RefreshAfter

Goto(r, place) == pc' = [pc EXCEPT ![r] = place]

LoadGoes(l, place) == at' = [at EXCEPT ![l] = place]

RefreshGoes(f, place) == doing' = [doing EXCEPT ![f] = place]

\* Wrong variant of Newer: the last list wins.
Last(m, time) == TRUE

Newer(m, time) == entries[m] = None \/ time > entries[m]

\* _adopt.
Adopt(m, time) ==
    IF Newer(m, time)
    THEN /\ entries' = [entries EXCEPT ![m] = time]
         /\ catalog' = None
         /\ version' = version + 1
    ELSE UNCHANGED <<entries, catalog, version>>

\* _refresh_in_background, when the list is old.
RefreshIfOld(m, time) ==
    IF ~Fresh(time) /\ m \notin resting
    THEN /\ resting' = resting \cup {m}
         /\ \E f \in Refreshes : /\ MarketOf(f) = m /\ doing[f] = "idle"
                                 /\ RefreshGoes(f, "get")
    ELSE UNCHANGED <<resting, doing>>

\* A load is over: nobody asks how the background one ended.
AfterLoad(l, how) ==
    IF l[1] = Background
    THEN LoadGoes(l, "idle") /\ loading' = loading \ {MarketOf(l)}
    ELSE LoadGoes(l, how) /\ UNCHANGED loading

\* A DataError ends a load, and is kept.
LoadFails(l) ==
    /\ AfterLoad(l, "failed")
    /\ failed' = [failed EXCEPT ![MarketOf(l)] = "resting"]

-----------------------------------------------------------------------------
(***************************************************************************)
(* catalog.                                                                *)
(***************************************************************************)

\* The markets a search over some waits for.
Waited(some) ==
    LET hopeful == {m \in some : entries[m] # None \/ failed[m] = "never"}
    IN  IF hopeful = {} THEN some ELSE hopeful

\* A search over one market or over all: the markets it does not wait for are
\* loaded in the background unless they are, or failed just now.
Search(r) ==
    /\ pc[r] = "idle"
    /\ \E some \in {{m} : m \in Markets} \cup {Markets} :
          LET started == {m \in some \ Waited(some) : m \notin loading /\ failed[m] # "resting"}
          IN  /\ asked' = [asked EXCEPT ![r] = some]
              /\ loading' = loading \cup started
              /\ at' = [l \in Loads |->
                          IF l[1] = r /\ l[2] \in Waited(some) THEN "entry"
                          ELSE IF l[1] = Background /\ l[2] \in started THEN "entry"
                          ELSE at[l]]
    /\ Goto(r, "gather")
    /\ UNCHANGED <<now, stored, entries, catalog, version, failed, resting, seen, got,
                   refreshes>>

\* Wrong variant of Built: a catalog is kept without a look at the version.
BuiltOf(r) == seen[r].entries

\* What _catalog is when the thread of a search has built one.
Built(r) == IF seen[r].version = version THEN seen[r].entries ELSE catalog

\* The loop head: a catalog that is there is the answer, else one is built from
\* the entries of now.
AnswerOrBuild(r, there) ==
    IF there # None
    THEN Goto(r, "ok") /\ seen' = [seen EXCEPT ![r] = None]
    ELSE /\ Goto(r, "build")
         /\ seen' = [seen EXCEPT ![r] = [version |-> version, entries |-> entries]]

\* gather has ended.  An error other than a DataError is raised; so is a
\* DataError when there are as many as markets asked for.
Gather(r) ==
    LET mine   == {l \in Loads : l[1] = r}
        errors == {l \in mine : at[l] = "failed"}
        broken == {l \in mine : at[l] = "broken"}
    IN
    /\ pc[r] = "gather"
    /\ \A l \in mine : at[l] \in {"idle", "loaded", "failed", "broken"}
    /\ IF broken # {} \/ Cardinality(errors) = Cardinality(asked[r])
       THEN Goto(r, "error") /\ UNCHANGED seen
       ELSE AnswerOrBuild(r, catalog)
    /\ at' = [l \in Loads |-> IF l \in mine THEN "idle" ELSE at[l]]
    /\ UNCHANGED <<now, stored, process, asked, got, refreshes>>

Build(r) ==
    /\ pc[r] = "build"
    /\ catalog' = Built(r)
    /\ AnswerOrBuild(r, catalog')
    /\ UNCHANGED <<now, stored, entries, version, failed, resting, loading, asked, loads,
                   refreshes>>

-----------------------------------------------------------------------------
(***************************************************************************)
(* _entry and _load.                                                       *)
(***************************************************************************)

\* _entry up to the first await of _load: a list that is there is the answer.
\* The background load begins with _load, which begins with the failures.
Entry(l) ==
    LET m == MarketOf(l) IN
    /\ at[l] = "entry"
    /\ \/ /\ l[1] # Background /\ entries[m] # None
          /\ LoadGoes(l, "loaded") /\ RefreshIfOld(m, entries[m])
          /\ UNCHANGED loading
       \/ /\ l[1] = Background \/ entries[m] = None
          /\ IF failed[m] = "resting"
             THEN AfterLoad(l, "failed")
             ELSE LoadGoes(l, "load") /\ UNCHANGED loading
          /\ UNCHANGED <<resting, doing>>
    /\ UNCHANGED <<now, stored, entries, catalog, version, failed, searches, got, list>>

\* get_or_fetch: the list in Redis, or one that this call or another one that
\* it joins has fetched, which Redis may or may not keep.
Load(l) ==
    LET m == MarketOf(l)
        Gets(value) == /\ got' = [got EXCEPT ![l] = value]
                       /\ LoadGoes(l, IF at[l] = "load" THEN "decode" ELSE "decode again")
                       /\ UNCHANGED <<failed, loading>>
    IN
    /\ at[l] \in {"load", "load again"}
    /\ \/ stored[m] # None /\ Gets(stored[m]) /\ UNCHANGED stored
       \/ \E time \in 0 .. now :
             Gets(time) /\ stored' \in {stored, [stored EXCEPT ![m] = time]}
       \/ LoadFails(l) /\ UNCHANGED <<stored, got>>
    /\ UNCHANGED <<now, entries, catalog, version, resting, searches, refreshes>>

\* The list is decoded in a thread, then adopted; an unreadable one is dropped,
\* but not twice.
Decode(l) ==
    LET m == MarketOf(l) IN
    /\ at[l] \in {"decode", "decode again"}
    /\ got' = [got EXCEPT ![l] = None]
    /\ \/ /\ Readable(got[l])
          /\ Adopt(m, got[l])
          /\ AfterLoad(l, "loaded")
          /\ IF l[1] = Background THEN UNCHANGED <<resting, doing>> ELSE RefreshIfOld(m, got[l])
          /\ UNCHANGED failed
       \/ /\ ~Readable(got[l]) /\ at[l] = "decode"
          /\ LoadGoes(l, "drop")
          /\ UNCHANGED <<entries, catalog, version, failed, resting, loading, doing>>
       \/ /\ ~Readable(got[l]) /\ at[l] = "decode again"
          /\ LoadFails(l)
          /\ UNCHANGED <<entries, catalog, version, resting, doing>>
    /\ UNCHANGED <<now, stored, searches, list>>

\* DEL of whatever is in Redis by now.
Drop(l) ==
    /\ at[l] = "drop"
    /\ stored' \in {stored, [stored EXCEPT ![MarketOf(l)] = None]}
    /\ LoadGoes(l, "load again")
    /\ UNCHANGED <<now, process, searches, got, refreshes>>

\* Something else than a DataError is raised while the source is asked.
LoadBreaks(l) ==
    /\ at[l] \in {"load", "load again"}
    /\ AfterLoad(l, "broken")
    /\ UNCHANGED <<now, stored, entries, catalog, version, failed, resting, searches, got,
                   refreshes>>

-----------------------------------------------------------------------------
(***************************************************************************)
(* _refresh.                                                               *)
(***************************************************************************)

\* The list in Redis; a failing Redis has none.
Get(f) ==
    /\ doing[f] = "get"
    /\ \E value \in {stored[MarketOf(f)], None} :
          IF value = None
          THEN RefreshGoes(f, "lock") /\ UNCHANGED list
          ELSE RefreshGoes(f, "decode") /\ list' = [list EXCEPT ![f] = value]
    /\ UNCHANGED <<now, stored, process, searches, loads>>

\* A list that another process refreshed is adopted.
DecodeStored(f) ==
    /\ doing[f] = "decode"
    /\ IF Fresh(list[f])
       THEN Adopt(MarketOf(f), list[f]) /\ RefreshGoes(f, "idle")
       ELSE UNCHANGED <<entries, catalog, version>> /\ RefreshGoes(f, "lock")
    /\ list' = [list EXCEPT ![f] = None]
    /\ UNCHANGED <<now, stored, failed, resting, loading, searches, loads>>

\* The lock is granted, or another process has it.
Lock(f) ==
    /\ doing[f] = "lock"
    /\ \E place \in {"fetch", "idle"} : RefreshGoes(f, place)
    /\ UNCHANGED <<now, stored, process, searches, loads, list>>

\* The source answers with its list, or fails.
Fetch(f) ==
    /\ doing[f] = "fetch"
    /\ \/ RefreshGoes(f, "store") /\ list' = [list EXCEPT ![f] = now]
       \/ RefreshGoes(f, "idle") /\ UNCHANGED list
    /\ UNCHANGED <<now, stored, process, searches, loads>>

\* SET, if Redis can, and the lock is given back.
Store(f) ==
    /\ doing[f] = "store"
    /\ stored' \in {stored, [stored EXCEPT ![MarketOf(f)] = list[f]]}
    /\ RefreshGoes(f, "adopt")
    /\ UNCHANGED <<now, process, searches, loads, list>>

AdoptFetched(f) ==
    /\ doing[f] = "adopt"
    /\ Adopt(MarketOf(f), list[f])
    /\ list' = [list EXCEPT ![f] = None]
    /\ RefreshGoes(f, "idle")
    /\ UNCHANGED <<now, stored, failed, resting, loading, searches, loads>>

-----------------------------------------------------------------------------
(***************************************************************************)
(* The environment.                                                        *)
(***************************************************************************)

Tick ==
    /\ now < MaxNow
    /\ now' = now + 1
    /\ UNCHANGED <<stored, process, searches, loads, refreshes>>

\* LOAD_RETRY_SECONDS, and RETRY_SECONDS, are over.
FailureIsOver(m) ==
    /\ failed[m] = "resting"
    /\ failed' = [failed EXCEPT ![m] = "over"]
    /\ UNCHANGED <<now, stored, entries, catalog, version, resting, loading, searches, loads,
                   refreshes>>

RestIsOver(m) ==
    /\ m \in resting
    /\ \E f \in Refreshes : MarketOf(f) = m /\ doing[f] = "idle"
    /\ resting' = resting \ {m}
    /\ UNCHANGED <<now, stored, entries, catalog, version, failed, loading, searches, loads,
                   refreshes>>

\* Another process stores a list it fetched a while ago, or Redis drops it.
OthersStore(m) ==
    /\ \E value \in (0 .. now) \cup {None} : stored' = [stored EXCEPT ![m] = value]
    /\ UNCHANGED <<now, process, searches, loads, refreshes>>

-----------------------------------------------------------------------------
LoadStep(l) == Entry(l) \/ Load(l) \/ Decode(l) \/ Drop(l) \/ LoadBreaks(l)

RefreshStep(f) ==
    Get(f) \/ DecodeStored(f) \/ Lock(f) \/ Fetch(f) \/ Store(f) \/ AdoptFetched(f)

Next ==
    \/ \E r \in Searches : Search(r) \/ Gather(r) \/ Build(r)
    \/ \E l \in Loads : LoadStep(l)
    \/ \E f \in Refreshes : RefreshStep(f)
    \/ \E m \in Markets : FailureIsOver(m) \/ RestIsOver(m) \/ OthersStore(m)
    \/ Tick

Spec == Init /\ [][Next]_vars

-----------------------------------------------------------------------------
(***************************************************************************)
(* Properties.                                                             *)
(***************************************************************************)

\* The catalog holds the list of every market that is loaded, and the newest:
\* so it holds exactly the markets that `missing' leaves out.
CatalogIsCurrent == catalog # None => catalog = entries

\* A market's list stays once it is loaded, and is replaced by newer ones only,
\* in whatever order loads and refreshes end.
ListsNeverGoBack ==
    [][\A m \in Markets :
         entries[m] # None => entries'[m] # None /\ entries'[m] >= entries[m]]_vars

\* A market counts as loading while its background load runs, and never longer:
\* else it would not be tried again.
LoadingIsRunning ==
    \A m \in Markets : m \in loading <=> at[<<Background, m>>] # "idle"
=============================================================================
