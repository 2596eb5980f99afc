---------------------------- MODULE RunCommands ----------------------------
(***************************************************************************)
(* The commands run and run-all (cli/run.py, cli/run_all.py): they read the *)
(* candles and predictions of stocks, backtest the models of each stock and *)
(* write result files.  run takes one model of one stock, run-all every     *)
(* stock of a data folder, several at a time with --jobs, every model,      *)
(* threshold and stop loss.  The files may change while a command reads     *)
(* them; a command may be killed, or fail to write.                         *)
(*                                                                         *)
(* A stock's files are a record: whether a step refuses them as a whole,    *)
(* and the models in them whose predictions it takes or refuses.  What the  *)
(* steps compute is the subject of Signals and BacktestLoop.                *)
(***************************************************************************)
EXTENDS Integers, SequencesExt

CONSTANTS
    Singles, Grids,         \* the commands: run, and run-all
    Names,                  \* the folders of the data folder, in their order
    Hidden,                 \* those whose names begin with _ or .
    Contents,               \* what a stock's files may be: [refused, good, bad]
    ModelChoices,                \* what --models may be: Absent or a sequence
    Thresholds, StopLosses, \* sequences
    Jobs,                   \* what --jobs may be
    MaxChanges,             \* how often files change
    Absent

ASSUME RunCommandsAssumption ==
    /\ Jobs \subseteq Nat \ {0} /\ MaxChanges \in Nat
    /\ Absent \notin Nat
    /\ Absent \notin Contents
    /\ \A content \in Contents : content.good \cup content.bad \subseteq Nat
    /\ \A models \in ModelChoices :
           models # Absent => ToSet(models) # {} /\ ToSet(models) \subseteq Nat

Commands == Singles \cup Grids
Stocks == ToSet(Names)

VARIABLES
    data,       \* the files of each folder; Absent: there are none
    changes,    \* how often they changed
    stage, code,   \* where each command is, and its exit code; Absent: none, or a signal's
    args,       \* its options
    place,      \* where its work on each stock is
    read,       \* the files of each stock as it read them
    hash,       \* and those it took the SHA-256 of
    at,         \* the file it writes
    out         \* the result files in the output folder of each command name

commandVars == <<data, changes, stage, code, args, place, read, hash, at, out>>

Kind(c) == IF c \in Singles THEN "run" ELSE "run-all"

\* A wrong form: run.json goes first.
RecordFirst(c) == IF c \in Singles THEN <<"run.json", "trades", "series", "stats">>
                  ELSE <<"run.json", "stats", "trades">>

\* _write: the result files of a command, in the order it writes them.
Files(c) == IF c \in Singles THEN <<"trades", "series", "stats", "run.json">>
            ELSE <<"stats", "trades", "run.json">>

-----------------------------------------------------------------------------
(***************************************************************************)
(* What a command makes of the files it read.                              *)
(***************************************************************************)

\* check_time_labels
LabelsRefused(labels, timeframe) == (labels = "close") # timeframe

\* The stock it is given, or the stock folders of the data folder, in their order.
Picked(c) == IF c \in Singles THEN {args[c].stock} ELSE Stocks \ Hidden
Folders(c) == SelectSeq(Names, LAMBDA s : s \in Picked(c))

Waiting(c) == {s \in Picked(c) : place[c][s] = "waiting"}
Running(c) == {s \in Picked(c) : place[c][s] = "read"}

\* pool.map takes the folders in their order.
IsNext(c, s) ==
    \E i \in DOMAIN Names : Names[i] = s /\ \A j \in 1..i - 1 : Names[j] \notin Waiting(c)

\* In this process with one job or one stock, else that many processes.
Workers(c) == IF args[c].jobs < Cardinality(Picked(c)) THEN args[c].jobs ELSE Cardinality(Picked(c))

\* _found_models
FoundModels(content) == SetToSortSeq(content.good \cup content.bad, <)

\* The models to backtest.
Tried(c, content) == IF args[c].models = Absent THEN FoundModels(content) ELSE args[c].models
Asked(c, content) ==
    IF args[c].models = Absent THEN content.good \cup content.bad ELSE ToSet(args[c].models)

\* read_input, _read_stock, _found_models; run refuses to pick one of several models, and
\* stops at the first refusal.
Unreadable(c, content) ==
    \/ content = Absent \/ content.refused
    \/ content.good \cup content.bad = {}
    \/ c \in Singles /\ (Cardinality(Asked(c, content)) # 1 \/ ~(Asked(c, content) \subseteq content.good))

Ran(c) == SelectSeq(Folders(c), LAMBDA s : place[c][s] = "ran")

\* A wrong form: a model that fails ends the work on its stock.
GoodUpToBad(c, s) ==
    LET tried == Tried(c, read[c][s])
        bad == {i \in DOMAIN tried : tried[i] \notin read[c][s].good}
    IN  SelectSeq(tried, LAMBDA m : \E i \in DOMAIN tried :
                                        tried[i] = m /\ \A j \in bad : i < j)

Good(c, s) == SelectSeq(Tried(c, read[c][s]), LAMBDA m : m \in read[c][s].good)

\* The combinations of one model, a stop loss after the other.
Combinations ==
    FlattenSeq([t \in DOMAIN Thresholds |->
        [l \in DOMAIN StopLosses |-> [threshold |-> Thresholds[t], stop_loss |-> StopLosses[l]]]])

\* The rows of stats.parquet of a stock, and the trades of each follow them.
StockRows(c, s) ==
    LET models == Good(c, s)
    IN  FlattenSeq([m \in DOMAIN models |->
            [i \in DOMAIN Combinations |-> [stock |-> s, model |-> models[m], keys |-> Combinations[i]]]])

Rows(c) == FlattenSeq([i \in DOMAIN Ran(c) |-> StockRows(c, Ran(c)[i])])

\* The failures of a stock: it, or models of it.
FailuresOf(c, s) ==
    IF place[c][s] = "failed" THEN <<[stock |-> s, model |-> Absent]>>
    ELSE LET bad == SelectSeq(Tried(c, read[c][s]), LAMBDA m : m \notin read[c][s].good)
         IN  [i \in DOMAIN bad |-> [stock |-> s, model |-> bad[i]]]

Failed(c) == FlattenSeq([i \in DOMAIN Folders(c) |-> FailuresOf(c, Folders(c)[i])])

\* A wrong form: only a stock that is refused counts.
RefusedStocks(c) == {s \in Picked(c) : place[c][s] = "failed"}

\* The stocks with a failure, which decide about the exit code.
FailedStocks(c) ==
    {s \in Picked(c) : \/ place[c][s] = "failed"
                       \/ ~(Asked(c, read[c][s]) \subseteq read[c][s].good)}

ModelsFound(c) == UNION {ToSet(Good(c, s)) : s \in ToSet(Ran(c))}

\* run.json: the stocks with the SHA-256 of their files, the models, the failures.
Record(c) ==
    [stocks |-> [i \in DOMAIN Ran(c) |-> [stock |-> Ran(c)[i], inputs |-> hash[c][Ran(c)[i]]]],
     models |-> ModelsFound(c), failed |-> Failed(c)]

\* The counts printed at the end.
Summary(c) ==
    LET stocks == Len(SelectSeq(Failed(c), LAMBDA failure : failure.model = Absent))
    IN  [stocks |-> Len(Ran(c)), stocks_failed |-> stocks,
         models |-> Cardinality(ModelsFound(c)), models_failed |-> Len(Failed(c)) - stocks,
         runs |-> Len(Rows(c))]

-----------------------------------------------------------------------------
(***************************************************************************)
(* The commands.  One at a time writes to a folder.                        *)
(***************************************************************************)

CommandInit ==
    /\ data \in [Stocks -> Contents \cup {Absent}]
    /\ changes = 0
    /\ stage = [c \in Commands |-> "idle"]
    /\ code = [c \in Commands |-> Absent]
    /\ args = [c \in Commands |-> Absent]
    /\ place = [c \in Commands |-> [s \in Stocks |-> "waiting"]]
    /\ read = [c \in Commands |-> [s \in Stocks |-> Absent]]
    /\ hash = [c \in Commands |-> [s \in Stocks |-> Absent]]
    /\ at = [c \in Commands |-> 1]
    /\ out = [kind \in {"run", "run-all"} |-> <<>>]

Ended(c) == stage[c] \in {"done", "broken"}
GoesTo(c, where) == stage' = [stage EXCEPT ![c] = where]
Exits(c, exit) == GoesTo(c, "done") /\ code' = [code EXCEPT ![c] = exit]

\* A wrong option, or a data folder without a stock, ends it at parser.error.
Start(c) ==
    /\ stage[c] = "idle"
    /\ \A d \in Commands \ {c} : stage[d] = "idle" \/ Ended(d)
    /\ \E models \in IF c \in Singles THEN {x \in ModelChoices : x = Absent \/ Len(x) = 1} ELSE ModelChoices,
          jobs \in IF c \in Singles THEN {1} ELSE Jobs,
          stock \in IF c \in Singles THEN Stocks ELSE {Absent},
          labels \in {"open", "close"}, timeframe \in BOOLEAN :
          /\ args' = [args EXCEPT ![c] = [models |-> models, jobs |-> jobs, stock |-> stock]]
          /\ IF LabelsRefused(labels, timeframe) \/ Stocks \ Hidden = {}
               THEN Exits(c, 2)
               ELSE GoesTo(c, "work") /\ UNCHANGED code
    /\ UNCHANGED <<data, changes, place, read, hash, at, out>>

\* A stock is read, relabelled and backtested, model by model.
Stock(c) ==
    /\ stage[c] = "work" /\ Cardinality(Running(c)) < Workers(c)
    /\ \E s \in Waiting(c) :
           /\ IsNext(c, s)
           /\ read' = [read EXCEPT ![c][s] = data[s]]
           /\ place' = [place EXCEPT ![c][s] = IF Unreadable(c, data[s]) THEN "failed" ELSE "read"]
    /\ UNCHANGED <<data, changes, stage, code, args, hash, at, out>>

\* _sha256, once its models ran: a file that is gone fails the stock.
Hash(c, s) ==
    /\ stage[c] = "work" /\ place[c][s] = "read"
    /\ hash' = [hash EXCEPT ![c][s] = data[s]]
    /\ place' = [place EXCEPT ![c][s] = IF data[s] = Absent THEN "failed" ELSE "ran"]
    /\ UNCHANGED <<data, changes, stage, code, args, read, at, out>>

\* The outcomes are all there.  run ends where a step refused its files.
Report(c) ==
    /\ stage[c] = "work" /\ Waiting(c) = {} /\ Running(c) = {}
    /\ IF c \in Singles /\ FailedStocks(c) # {} THEN Exits(c, 2) ELSE GoesTo(c, "write") /\ UNCHANGED code
    /\ UNCHANGED <<data, changes, args, place, read, hash, at, out>>

File(c) == Files(c)[at[c]]
Put(c, whole) ==
    out' = [out EXCEPT ![Kind(c)] = [name \in DOMAIN @ \cup {File(c)} |->
               IF name = File(c) THEN [by |-> c, whole |-> whole] ELSE @[name]]]

OpenFile(c) ==
    /\ stage[c] = "write"
    /\ Put(c, FALSE) /\ GoesTo(c, "writing")
    /\ UNCHANGED <<data, changes, code, args, place, read, hash, at>>

CloseFile(c) ==
    /\ stage[c] = "writing"
    /\ Put(c, TRUE)
    /\ IF at[c] < Len(Files(c))
         THEN GoesTo(c, "write") /\ at' = [at EXCEPT ![c] = @ + 1] /\ UNCHANGED code
         ELSE Exits(c, IF FailedStocks(c) = {} THEN 0 ELSE 1) /\ UNCHANGED at
    /\ UNCHANGED <<data, changes, args, place, read, hash>>

\* An OSError of mkdir or of a file.
WriteFails(c) ==
    /\ stage[c] \in {"write", "writing"}
    /\ Exits(c, 2)
    /\ UNCHANGED <<data, changes, args, place, read, hash, at, out>>

\* It is killed; or a process of its pool dies, or a step raises what nothing expects: a
\* traceback, and Python's exit code 1.
Break(c) ==
    /\ stage[c] \in {"work", "write", "writing"}
    /\ GoesTo(c, "broken")
    /\ \E exit \in {Absent, 1} : code' = [code EXCEPT ![c] = exit]
    /\ UNCHANGED <<data, changes, args, place, read, hash, at, out>>

\* Somebody replaces or removes the files of a stock.
Change(s) ==
    /\ changes < MaxChanges /\ changes' = changes + 1
    /\ \E content \in (Contents \cup {Absent}) \ {data[s]} : data' = [data EXCEPT ![s] = content]
    /\ UNCHANGED <<stage, code, args, place, read, hash, at, out>>

CommandNext ==
    \/ \E c \in Commands : \/ Start(c) \/ Stock(c) \/ Report(c) \/ OpenFile(c) \/ CloseFile(c)
                           \/ WriteFails(c) \/ Break(c)
    \/ \E c \in Commands, s \in Stocks : Hash(c, s)
    \/ \E s \in Stocks : Change(s)

CommandSpec == CommandInit /\ [][CommandNext]_commandVars

-----------------------------------------------------------------------------
(***************************************************************************)
(* Properties.                                                             *)
(***************************************************************************)

\* A command came to its end: its exit code is its own and not that of a traceback.
CameToEnd(c) == stage[c] = "done" /\ code[c] \in {0, 1}

\* A command has the results of a model of a stock: of the files as it read them,
\* if they were still there afterwards.
Backtested(c, s, m) ==
    /\ read[c][s] # Absent /\ ~read[c][s].refused /\ hash[c][s] # Absent
    /\ m \in read[c][s].good
    /\ args[c].models = Absent \/ m \in ToSet(args[c].models)

\* What its list of failures names of a stock: Absent for all of it, or models.
NamedOf(c, s) ==
    IF place[c][s] = "failed" THEN {Absent} ELSE Asked(c, read[c][s]) \ read[c][s].good

\* Every stock a run-all that came to its end looked at and every model asked for of it has
\* results or is named as failed, never both, and the exit code is 0 if nothing is; the
\* SHA-256 it keeps are of what it read unless a file changed (run_all.py: "is
\* reported and skipped; the others still run").
OutcomesAreNamed ==
    \A c \in Grids : CameToEnd(c) =>
        /\ code[c] = 0 <=> \A s \in Picked(c) : NamedOf(c, s) = {}
        /\ \A s \in Picked(c) :
               /\ read[c][s] = Absent => NamedOf(c, s) = {Absent}
               /\ read[c][s] # Absent =>
                      \A m \in Asked(c, read[c][s]) :
                          Backtested(c, s, m) <=> NamedOf(c, s) \cap {Absent, m} = {}
               /\ hash[c][s] \notin {Absent, read[c][s]} => changes > 0

\* Whatever --jobs is and whatever happens to the files meanwhile, the files of a
\* run-all that came to its end have every combination of every model with results once, stock by
\* stock and model by model, and every failure once, and its summary counts them
\* (run_all.py: "the output does not depend on it").
ResultsAreComplete ==
    /\ OutcomesAreNamed
    /\ \A c \in Grids : CameToEnd(c) =>
        LET rows == Rows(c)
            failed == Failed(c)
            models == UNION {content.good \cup content.bad : content \in Contents}
            pairs == {x \in Picked(c) \X models : Backtested(c, x[1], x[2])}
        IN  /\ ToSet(rows) = {[stock |-> x[1], model |-> x[2], keys |-> k] :
                                  x \in pairs, k \in ToSet(Combinations)}
            /\ ToSet(failed) = UNION {{[stock |-> s, model |-> m] : m \in NamedOf(c, s)} : s \in Picked(c)}
            /\ Len(rows) = Cardinality(ToSet(rows)) /\ Len(failed) = Cardinality(ToSet(failed))
            /\ \A i, j \in DOMAIN rows :
                   i < j => LET x == IndexFirstSubSeq(<<rows[i].stock>>, Names)
                                y == IndexFirstSubSeq(<<rows[j].stock>>, Names)
                            IN  x < y \/ (x = y /\ (rows[i].model <= rows[j].model \/ args[c].models # Absent))
            /\ Record(c).models = {x[2] : x \in pairs}
            /\ ToSet(Record(c).stocks) =
                   {[stock |-> s, inputs |-> hash[c][s]] : s \in {s \in Picked(c) : hash[c][s] # Absent}}
            /\ Summary(c).stocks + Summary(c).stocks_failed = Cardinality(Picked(c))
            /\ Summary(c).runs = Cardinality(pairs) * Len(Combinations)

\* The exit code tells what is in the output folder: 0 that all the files are the
\* command's and whole and every model has its results, 2 that they are not all there.
\* 1 tells the same of the files as 0 only where it is the command's own: of run never, and
\* of run-all where it names a failure (run_all.py: "A stock or a model of a stock that
\* fails is named [...] and the exit code is 1"), for a traceback has that code too and
\* leaves some files or none.  run leaves no file where it was refused (run.py: "without
\* writing any file"), nor where it broke before it wrote.
ExitCodeTells ==
    [][\A c \in Commands : code[c] = Absent /\ code'[c] # Absent =>
           LET files == out'[Kind(c)]
               mine == {name \in DOMAIN files : files[name].by = c}
               whole == mine = ToSet(Files(c)) /\ \A name \in mine : files[name].whole
               own == stage'[c] = "done"
           IN  /\ whole <=> code'[c] = 0 \/ (code'[c] = 1 /\ own)
               /\ code'[c] = 1 /\ own => c \in Grids /\ FailedStocks(c) # {}
               /\ code'[c] = 0 => \A s \in Picked(c) :
                                      /\ read[c][s] # Absent /\ Asked(c, read[c][s]) # {}
                                      /\ \A m \in Asked(c, read[c][s]) : Backtested(c, s, m)
               /\ c \in Singles /\ stage[c] = "work" => mine = {}]_commandVars

\* Who finds a run.json finds the results it tells of, unless a later command was
\* stopped while it wrote: a command killed between two files leaves none that
\* names results which are not there (the order of _write).
RecordComesLast ==
    \A kind \in {"run", "run-all"} :
        LET files == out[kind]
        IN  "run.json" \in DOMAIN files /\ files["run.json"].whole =>
                LET c == files["run.json"].by
                IN  \A name \in ToSet(Files(c)) :
                        /\ name \in DOMAIN files
                        /\ IF files[name].by = c THEN files[name].whole
                           ELSE ~CameToEnd(files[name].by)
=============================================================================
