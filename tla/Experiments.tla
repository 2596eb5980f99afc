----------------------------- MODULE Experiments -----------------------------
(***************************************************************************)
(* The backtests of one user (experiments/): the seed command, starring,    *)
(* and what the list shows, with the changes of the ml and accounts modules *)
(* that reach the table: a model renamed or removed, the account deleted.   *)
(*                                                                          *)
(* Every request is a Postgres transaction at READ COMMITTED.  A statement  *)
(* reads what is committed, then takes its locks one by one and waits for   *)
(* those that others hold; COMMIT shows what the transaction wrote at once. *)
(* Postgres ends a transaction of a circle of waiting ones.                 *)
(***************************************************************************)
EXTENDS Integers, FiniteSets, FiniteSetsExt, Sequences

CONSTANTS
    Seeds, Stars, Removals, Renames, Closings,      \* requests of each kind
    Runs,           \* what the command makes: [model, failed, starred, result, made]
    Others,         \* the backtests the command did not make
    Earlier,        \* those of an earlier run of the command
    Models,         \* the user's models at first: names by id
    Renamed,        \* the names a model may be given
    PageSize,       \* backtests of a page
    None

Requests == Seeds \cup Stars \cup Removals \cup Renames \cup Closings

Fields == {"id", "number", "seeded", "by", "starred", "failed", "result", "made",
           "model", "name"}

\* A name is a word and how it is spelled; words are numbers, in their order.
Lower(name) == name[1]
IsName(name) == name # None /\ Lower(name) \in Int

\* The last number of the backtests the command did not make.
LastOther == IF Others = {} THEN 0 ELSE Max({b.number : b \in Others})

\* The backtests have ids and numbers of their own and name models that are there;
\* an earlier run of the command numbered its own on from the others.
ASSUME ExperimentsAssumption ==
    /\ PageSize \in Nat \ {0}
    /\ Seeds \cap (Stars \cup Removals \cup Renames \cup Closings) = {}
    /\ Stars \cap (Removals \cup Renames \cup Closings) = {}
    /\ Removals \cap (Renames \cup Closings) = {} /\ Renames \cap Closings = {}
    /\ None \notin DOMAIN Models \cup {"number taken"} \cup Int
    /\ IsFiniteSet(DOMAIN Models) /\ \A m \in DOMAIN Models : IsName(Models[m])
    /\ \A name \in Renamed : IsName(name)
    /\ \A i \in DOMAIN Runs : /\ IsName(Runs[i].model) /\ Runs[i].made \in Int
                             /\ Runs[i].result \in Int \cup {None}
    /\ DOMAIN Runs = 1..Len(Runs) /\ Len(Runs) \in Nat
    /\ IsFiniteSet(Others) /\ IsFiniteSet(Earlier)
    /\ \A b \in Others \cup Earlier :
           /\ DOMAIN b = Fields
           /\ b.id \notin Seeds \X DOMAIN Runs
           /\ b.number \in Nat \ {0}
           /\ b.seeded \in BOOLEAN /\ (b.seeded <=> b \in Earlier)
           /\ IsName(b.name) /\ b.made \in Int /\ b.result \in Int \cup {None}
           /\ b.model = None \/ b.model \in DOMAIN Models
    /\ \A a, b \in Others \cup Earlier : a.id = b.id \/ a.number = b.number => a = b
    /\ \A a, b \in Earlier : a.by = b.by
    /\ {b.number : b \in Earlier} = (LastOther + 1)..(LastOther + Cardinality(Earlier))

VARIABLES
    user,           \* the user's row is there
    models,         \* the user's models: names by id
    rows,           \* the user's backtests
    pc, result,     \* where a request is, and how it ended
    want, got,      \* the locks its statement needs yet, and those it has
    first, new,     \* the first number it gives, and the backtests it adds
    star            \* the backtest it stars, and whether it does or undoes it

vars == <<user, models, rows, pc, result, want, got, first, new, star>>

\* An id is seed-given or old.
RowWith(id) == CHOOSE b \in rows : b.id = id
Shown(b) == IF b.model \in DOMAIN models THEN models[b.model] ELSE b.name

-----------------------------------------------------------------------------
(***************************************************************************)
(* The list and the Dashboard: what they read of the committed rows.        *)
(***************************************************************************)

Sorts == {"default", "number", "model", "result"}
Shows == {"all", "starred", "failed"}

SortKey(b, sort) ==
    CASE sort = "default" -> b.made
      [] sort = "number"  -> b.number
      [] sort = "model"   -> Lower(Shown(b))
      [] sort = "result"  -> b.result

\* A wrong form: backtests of one value in no order.
BeforeWithTies(a, b, sort, order) ==
    LET x == SortKey(a, sort)
        y == SortKey(b, sort)
    IN  \/ x # None /\ y = None
        \/ x # None /\ y # None /\ (IF sort # "default" /\ order = "asc" THEN x < y ELSE x > y)

\* Those without the value come last in both directions, ties newest first;
\* the default is newest first whatever the direction.
Before(a, b, sort, order) ==
    LET x == SortKey(a, sort)
        y == SortKey(b, sort)
    IN  \/ x # None /\ y = None
        \/ x # None /\ y # None /\ (IF sort # "default" /\ order = "asc" THEN x < y ELSE x > y)
        \/ x = y /\ a.number > b.number

\* The conditions of the filters; no model is None.
Matches(show, model) ==
    {b \in rows : /\ show = "starred" => b.starred
                  /\ show = "failed" => b.failed
                  /\ model # None => Lower(Shown(b)) = Lower(model)}

Pages(total) == IF total = 0 THEN 1 ELSE (total + PageSize - 1) \div PageSize

\* The backtests of each page: OFFSET and LIMIT of the ordered matches.
Paged(found, sort, order) ==
    LET rank == [b \in found |-> Cardinality({a \in found : Before(a, b, sort, order)})]
    IN  [page \in 1..Pages(Cardinality(found)) |->
            {b \in found : (page - 1) * PageSize <= rank[b] /\ rank[b] < page * PageSize}]

Counts == [all |-> Cardinality(rows),
           starred |-> Cardinality({b \in rows : b.starred}),
           failed |-> Cardinality({b \in rows : b.failed})]

\* One entry per name that is shown, spelled as the newest backtest of it.
ModelCounts ==
    LET groups == {{a \in rows : Lower(Shown(a)) = Lower(Shown(b))} : b \in rows}
        newest(group) == CHOOSE a \in group :
                            \A c \in group \ {a} : Before(a, c, "default", "desc")
    IN  {[name |-> Shown(newest(group)), count |-> Cardinality(group)] : group \in groups}

\* The finished backtests with the highest results.
Best(limit) ==
    LET finished == {b \in rows : ~b.failed /\ b.result # None}
    IN  {b \in finished :
            Cardinality({a \in finished : Before(a, b, "result", "desc")}) < limit}

\* What the ml module is told of each model: how many backtests, the best result.
ModelUsage ==
    [m \in DOMAIN models |->
        LET used == {b \in rows : b.model = m}
            results == {b.result : b \in {c \in used : ~c.failed}} \ {None}
        IN  [count |-> Cardinality(used), best |-> IF results = {} THEN None ELSE Max(results)]]

-----------------------------------------------------------------------------
(***************************************************************************)
(* Locks: on a row, on the user's row, on a model's row, on a number of the *)
(* unique index, and the advisory lock of the user's backtests.  A foreign  *)
(* key shares the row it names.                                             *)
(***************************************************************************)

Row(id) == <<"row", id>>
Model(m) == <<"model", m>>
Number(n) == <<"number", n>>
Exclusive(on) == [on |-> on, shared |-> FALSE]
Shared(on) == [on |-> on, shared |-> TRUE]
UserRow == <<"user", "id">>

\* A wrong form: a lock that two writers can have.
SharedAdvisory == Shared(<<"advisory", "experiments:backtests">>)

Advisory == Exclusive(<<"advisory", "experiments:backtests">>)

Clash(a, b) == a.on = b.on /\ ~(a.shared /\ b.shared)
Holders(lock, r) == {q \in Requests \ {r} : \E l \in got[q] : Clash(l, lock)}
Waits(r) == UNION {Holders(l, r) : l \in want[r]}

Holds(r, on) == \E l \in got[r] : l.on = on
HeldRows(r) == {b \in rows : Holds(r, Row(b.id))}

\* What a lock is on when it is free: there yet, gone, or a number that is taken.
Found(l, r) ==
    CASE l.on[1] = "row"    -> \E b \in rows : b.id = l.on[2]
      [] l.on[1] = "model"  -> l.on[2] \in DOMAIN models
      [] l.on[1] = "user"   -> user
      [] l.on[1] = "number" -> \A b \in rows \ HeldRows(r) : b.number # l.on[2]
      [] OTHER              -> TRUE

Over(r) == pc[r] \in {"idle", "done"}
Ready(r, place) == pc[r] = place /\ want[r] = {}
Goto(r, place, locks) ==
    /\ pc' = [pc EXCEPT ![r] = place]
    /\ want' = [want EXCEPT ![r] = locks]
    /\ UNCHANGED <<result, got>>
Ends(r, how) ==
    /\ pc' = [pc EXCEPT ![r] = "done"]
    /\ result' = [result EXCEPT ![r] = how]
    /\ want' = [want EXCEPT ![r] = {}]
    /\ got' = [got EXCEPT ![r] = {}]
Committed == UNCHANGED <<user, models, rows>>
Scratch == UNCHANGED <<first, new, star>>

\* A row that went meanwhile is passed over, except by an UPDATE of the ORM,
\* which must find it; a reference to it and a number that is taken fail.
Acquire(r) ==
    /\ \E l \in want[r] :
           /\ Holders(l, r) = {}
           /\ IF Found(l, r)
                THEN /\ want' = [want EXCEPT ![r] = @ \ {l}]
                     /\ got' = [got EXCEPT ![r] = @ \cup {l}]
                     /\ UNCHANGED <<pc, result>>
                ELSE CASE l.on[1] = "number" -> Ends(r, "number taken")
                       [] l.shared           -> Ends(r, "reference gone")
                       [] r \in Stars        -> Ends(r, "stale")
                       [] OTHER -> /\ want' = [want EXCEPT ![r] = @ \ {l}]
                                   /\ UNCHANGED <<pc, result, got>>
    /\ Committed /\ Scratch

\* A wrong form: nobody looks for circles.
NoCircle(r) == FALSE

\* Postgres ends one of the transactions that wait in a circle.
Circle(r) ==
    LET Reach[n \in Nat] == IF n = 0 THEN Waits(r)
                            ELSE LET near == Reach[n - 1]
                                 IN  near \cup UNION {Waits(q) : q \in near}
    IN  Waits(r) # {} /\ r \in Reach[Cardinality(Requests) - 1]

Deadlock(r) ==
    /\ Circle(r)
    /\ Ends(r, "deadlock")
    /\ Committed /\ Scratch

\* The process or its connection is gone: what it wrote is rolled back.
Crash(r) ==
    /\ ~Over(r)
    /\ Ends(r, "crashed")
    /\ Committed /\ Scratch

-----------------------------------------------------------------------------
(***************************************************************************)
(* The seed command                                                        *)
(***************************************************************************)

FindUser(s) ==
    /\ pc[s] = "idle"
    /\ IF user THEN Goto(s, "delete", {Advisory}) ELSE Ends(s, "unknown user")
    /\ Committed /\ Scratch

SeededOnes == {Exclusive(Row(b.id)) : b \in {c \in rows : c.seeded}}

DeleteSeeded(s) ==
    /\ Ready(s, "delete")
    /\ Goto(s, "number", SeededOnes)
    /\ Committed /\ Scratch

LastNumber(s) ==
    LET left == rows \ HeldRows(s)
    IN  /\ Ready(s, "number")
        /\ first' = [first EXCEPT ![s] = 1 + (IF left = {} THEN 0 ELSE Max({b.number : b \in left}))]
        /\ Goto(s, "models", {})
        /\ Committed /\ UNCHANGED <<new, star>>

\* The user's model of the run's model name, in any case.
ModelOf(run) ==
    LET named == {m \in DOMAIN models : Lower(models[m]) = Lower(run.model)}
    IN  IF named = {} THEN None ELSE CHOOSE m \in named : TRUE

Backtest(s, i) ==
    LET run == Runs[i]
        m == ModelOf(run)
    IN  [id |-> <<s, i>>, number |-> first[s] + i - 1, seeded |-> TRUE, by |-> s,
         starred |-> run.starred, failed |-> run.failed, result |-> run.result,
         made |-> run.made, model |-> m, name |-> IF m = None THEN run.model ELSE models[m]]

References(backtests) ==
    {Shared(UserRow)} \cup {Shared(Model(b.model)) : b \in {c \in backtests : c.model # None}}

\* The models are read and the backtests added; their INSERT needs their
\* numbers, their user and their models.
AddAll(s) ==
    /\ Ready(s, "models")
    /\ new' = [new EXCEPT ![s] = {Backtest(s, i) : i \in DOMAIN Runs}]
    /\ Goto(s, "insert", {})
    /\ Committed /\ UNCHANGED <<first, star>>

Insert(s) ==
    /\ Ready(s, "insert")
    /\ Goto(s, "commit", References(new[s]) \cup {Exclusive(Number(b.number)) : b \in new[s]})
    /\ Committed /\ Scratch

CommitSeed(s) ==
    /\ Ready(s, "commit")
    /\ rows' = (rows \ HeldRows(s)) \cup new[s]
    /\ Ends(s, "ok")
    /\ UNCHANGED <<user, models>> /\ Scratch

SeedStep(s) ==
    \/ FindUser(s) \/ DeleteSeeded(s) \/ LastNumber(s) \/ AddAll(s) \/ Insert(s)
    \/ CommitSeed(s)

-----------------------------------------------------------------------------
(***************************************************************************)
(* Starring a backtest: read, changed at COMMIT when that changes anything  *)
(***************************************************************************)

SelectBacktest(t, id, starred) ==
    /\ pc[t] = "idle"
    /\ IF \E b \in rows : b.id = id
         THEN /\ star' = [star EXCEPT ![t] = [before |-> RowWith(id), starred |-> starred]]
              /\ Goto(t, "update", IF RowWith(id).starred = starred THEN {} ELSE {Exclusive(Row(id))})
         ELSE /\ star' = star
              /\ Ends(t, "not found")
    /\ Committed /\ UNCHANGED <<first, new>>

\* A wrong form: every column is written back as it was read.
WrittenBack(t, b) == [star[t].before EXCEPT !.starred = star[t].starred]

Written(t, b) == [b EXCEPT !.starred = star[t].starred]

CommitStar(t) ==
    /\ Ready(t, "update")
    /\ rows' = {IF Holds(t, Row(b.id)) THEN Written(t, b) ELSE b : b \in rows}
    /\ Ends(t, "ok")
    /\ UNCHANGED <<user, models>> /\ Scratch

-----------------------------------------------------------------------------
(***************************************************************************)
(* Changes of the other modules: a model renamed or removed (its backtests  *)
(* stay, without it), the account deleted with all of them                  *)
(***************************************************************************)

Rename(r, m, name) ==
    /\ pc[r] = "idle"
    /\ IF /\ m \in DOMAIN models
          /\ \A other \in DOMAIN models \ {m} : Lower(models[other]) # Lower(name)
         THEN /\ Holders(Exclusive(Model(m)), r) \subseteq Seeds
              /\ models' = [models EXCEPT ![m] = name]
              /\ Ends(r, "ok")
         ELSE models' = models /\ Ends(r, "refused")
    /\ UNCHANGED <<user, rows>> /\ Scratch

RowsOf(m) == {Exclusive(Row(b.id)) : b \in {c \in rows : c.model = m}}
Without(b) == [b EXCEPT !.model = None]

DeleteModel(d, m) ==
    /\ pc[d] = "idle"
    /\ IF m \in DOMAIN models THEN Goto(d, "unset", {Exclusive(Model(m))})
       ELSE Ends(d, "not found")
    /\ Committed /\ Scratch

HeldModels(r) == {m \in DOMAIN models : Holds(r, Model(m))}
UnsetModel(d) ==
    /\ Ready(d, "unset")
    /\ IF HeldModels(d) = {} THEN Ends(d, "not found")
       ELSE Goto(d, "commit", UNION {RowsOf(m) : m \in HeldModels(d)})
    /\ Committed /\ Scratch
CommitRemoval(d) ==
    /\ Ready(d, "commit")
    /\ models' = [m \in DOMAIN models \ HeldModels(d) |-> models[m]]
    /\ rows' = {IF Holds(d, Row(b.id)) THEN Without(b) ELSE b : b \in rows}
    /\ Ends(d, "ok")
    /\ UNCHANGED user /\ Scratch

\* The models first (the hook of the ml module), then the user with the rest.
DeleteModels(k) ==
    /\ pc[k] = "idle" /\ user
    /\ Goto(k, "unset", {Exclusive(Model(m)) : m \in DOMAIN models})
    /\ Committed /\ Scratch
UnsetModels(k) ==
    /\ Ready(k, "unset")
    /\ Goto(k, "user", UNION {RowsOf(m) : m \in HeldModels(k)})
    /\ Committed /\ Scratch
DeleteUser(k) ==
    /\ Ready(k, "user")
    /\ Goto(k, "cascade", {Exclusive(UserRow)})
    /\ Committed /\ Scratch
Cascade(k) ==
    /\ Ready(k, "cascade")
    /\ Goto(k, "commit", {Exclusive(Row(b.id)) : b \in rows \ HeldRows(k)})
    /\ Committed /\ Scratch
CommitClosing(k) ==
    /\ Ready(k, "commit")
    /\ user' = FALSE
    /\ models' = [m \in DOMAIN models \ HeldModels(k) |-> models[m]]
    /\ rows' = rows \ HeldRows(k)
    /\ Ends(k, "ok")
    /\ Scratch

-----------------------------------------------------------------------------
Ids == {b.id : b \in Others \cup Earlier} \cup (Seeds \X DOMAIN Runs)

Init ==
    /\ user = TRUE
    /\ models = Models
    /\ rows = Others \cup Earlier
    /\ pc = [r \in Requests |-> "idle"]
    /\ result = [r \in Requests |-> None]
    /\ want = [r \in Requests |-> {}]
    /\ got = [r \in Requests |-> {}]
    /\ first = [s \in Seeds |-> 0]
    /\ new = [s \in Seeds |-> {}]
    /\ star = [t \in Stars |-> None]

\* What a request that came does next.
Step(r) ==
    \/ Acquire(r)
    \/ r \in Seeds /\ pc[r] # "idle" /\ SeedStep(r)
    \/ r \in Stars /\ CommitStar(r)
    \/ r \in Removals /\ (UnsetModel(r) \/ CommitRemoval(r))
    \/ r \in Closings /\ (UnsetModels(r) \/ DeleteUser(r) \/ Cascade(r) \/ CommitClosing(r))

Next ==
    \/ \E r \in Requests : Step(r) \/ Deadlock(r) \/ Crash(r)
    \/ \E s \in Seeds : FindUser(s)
    \/ \E t \in Stars, id \in Ids, starred \in BOOLEAN : SelectBacktest(t, id, starred)
    \/ \E r \in Renames, m \in DOMAIN Models, name \in Renamed : Rename(r, m, name)
    \/ \E d \in Removals, m \in DOMAIN Models : DeleteModel(d, m)
    \/ \E k \in Closings : DeleteModels(k)

Spec == Init /\ [][Next]_vars

\* A statement whose locks are free goes on, and Postgres looks for circles.
FairSpec == Spec /\ \A r \in Requests : WF_vars(Step(r)) /\ WF_vars(Deadlock(r))

-----------------------------------------------------------------------------
(***************************************************************************)
(* Properties.                                                             *)
(***************************************************************************)

\* Whoever else runs, the seeded backtests are those of one run of the command,
\* numbered on from the user's other ones, which stay; and no run ever meets a
\* number that is taken (seed.py: "a second run replaces only that, never the
\* user's other backtests, whose numbers it continues after"; store.py,
\* lock_user: "two writers cannot give two backtests one number").
SeedReplacesItself ==
    LET seeded == {b \in rows : b.seeded}
        others == rows \ seeded
    IN  /\ user => {b.id : b \in others} = {b.id : b \in Others}
        /\ user => {b.number : b \in seeded}
                      = (LastOther + 1)..(LastOther + Cardinality(seeded))
        /\ \A a, b \in seeded : a.by = b.by
        /\ \A s \in Seeds : result[s] # "number taken"

\* What stays of a removed model is its name: a backtest names no model that is
\* gone, nor one that was removed while it was made or starred, and nothing is
\* left of a closed account (models.py, Backtest.model_id).
ModelsAreThere ==
    /\ \A b \in rows : b.model # None => b.model \in DOMAIN models
    /\ ~user => rows = {} /\ models = <<>>

\* Whatever the sort, the pages show every backtest once, each page full but
\* the last; choosing a model of the filter gives as many as it says; and its
\* counts are those of all (store.py, ordering, model_counts).  The lists read
\* what is committed, so they are looked at while no transaction is open.
ListsAddUp ==
    (\A r \in Requests : Over(r)) =>
        /\ \A sort \in Sorts, order \in {"asc", "desc"} :
               LET total == Cardinality(rows)
                   shown == Paged(rows, sort, order)
               IN  /\ UNION {shown[page] : page \in DOMAIN shown} = rows
                   /\ \A page \in DOMAIN shown :
                          Cardinality(shown[page]) = Min({PageSize, total - PageSize * (page - 1)})
        /\ \A entry \in ModelCounts : Cardinality(Matches("all", entry.name)) = entry.count
        /\ MapThenSumSet(LAMBDA entry : entry.count, ModelCounts) = Counts.all
        /\ \A show \in Shows : Counts[show] = Cardinality(Matches(show, None))
        /\ MapThenSumSet(LAMBDA m : ModelUsage[m].count, DOMAIN models)
               = Cardinality({b \in rows : b.model # None})
        /\ \A b \in Best(1) : b.model # None => ModelUsage[b.model].best = b.result
        /\ Cardinality(Best(2)) = Min({2, Cardinality({b \in rows : b.result # None /\ ~b.failed})})

\* The models of its backtests, from when a run of the command read them.
Chosen(s) ==
    IF pc[s] \in {"insert", "commit"}
    THEN {[i \in DOMAIN Runs |->
              LET b == CHOOSE c \in new[s] : c.id = <<s, i>>
              IN  [model |-> b.model, name |-> b.name]]}
    ELSE {}

\* What a request read of the backtests before others committed does not show in what
\* it does: each acts at once on those there when it commits, or not at all.  A run of
\* the command uses the models it read at one moment, all there when it commits, though
\* one that was renamed in between is found by the name it had (seed.py, one
\* transaction; service.py, star: no other column is written back).
Atomic == INSTANCE UserBacktests
  WITH Commands <- Seeds, Rows <- Others \cup Earlier, Names <- Renamed,
       chosen <- [s \in Seeds |-> Chosen(s)]
AtomicSpec == Atomic!Spec

\* Every request ends, also when transactions wait for each other in a circle.
EveryRequestEnds == \A r \in Requests : pc[r] # "idle" ~> pc[r] = "done"
=============================================================================
