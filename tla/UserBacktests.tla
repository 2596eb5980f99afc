---------------------------- MODULE UserBacktests ----------------------------
(***************************************************************************)
(* What the backtests of a user promise to those who change them at the    *)
(* same time.  A star, a rename, a removal and the end of the account act  *)
(* at once, on what is there at that moment, or not at all.  So does a run *)
(* of the seed command on the backtests; the models it chose for its own   *)
(* it read at one moment before that, and they are all still there.        *)
(***************************************************************************)
EXTENDS Integers, FiniteSets, FiniteSetsExt

CONSTANTS
    Commands,       \* runs of the seed command
    Runs,           \* what each of them makes
    Rows, Models,   \* the user's backtests and models at first
    Names,          \* those a model may be given
    None

VARIABLES
    user, models, rows,
    chosen          \* the models a run of the command read for its backtests: once, or not yet

vars == <<user, models, rows, chosen>>

Lower(name) == name[1]

Init ==
    /\ user = TRUE /\ models = Models /\ rows = Rows
    /\ chosen = [by \in Commands |-> {}]

\* The backtests the command did not make, and the last of their numbers.
Left == {b \in rows : ~b.seeded}
Last == IF Left = {} THEN 0 ELSE Max({b.number : b \in Left})

\* The model of a name, in any case, and the name a backtest of it keeps: spelled
\* as the model is, or as the command spells it when there is no such model.
ModelOf(run) ==
    LET named == {m \in DOMAIN models : Lower(models[m]) = Lower(run.model)}
    IN  IF named = {} THEN None ELSE CHOOSE m \in named : TRUE

Choose(by) ==
    /\ chosen' = [chosen EXCEPT ![by] =
           {[i \in DOMAIN Runs |->
                LET m == ModelOf(Runs[i])
                IN  [model |-> m, name |-> IF m = None THEN Runs[i].model ELSE models[m]]]}]
    /\ UNCHANGED <<user, models, rows>>

GiveUp(by) ==
    /\ chosen' = [chosen EXCEPT ![by] = {}]
    /\ UNCHANGED <<user, models, rows>>

\* The i-th backtest of a run of the command with these picks.
Made(by, picks, i) ==
    [id |-> <<by, i>>, number |-> Last + i, seeded |-> TRUE, by |-> by,
     starred |-> Runs[i].starred, failed |-> Runs[i].failed,
     result |-> Runs[i].result, made |-> Runs[i].made,
     model |-> picks[i].model, name |-> picks[i].name]

\* A run of the command: what an earlier one made goes, the rest stays.
Replace(by) ==
    /\ user
    /\ \E picks \in chosen[by] :
           /\ \A i \in DOMAIN Runs : picks[i].model \in DOMAIN models \cup {None}
           /\ rows' = Left \cup {Made(by, picks, i) : i \in DOMAIN Runs}
    /\ chosen' = [chosen EXCEPT ![by] = {}]
    /\ UNCHANGED <<user, models>>

\* A star changes nothing else of its backtest.
Star(b, starred) ==
    /\ rows' = (rows \ {b}) \cup {[b EXCEPT !.starred = starred]}
    /\ UNCHANGED <<user, models, chosen>>

Rename(m, name) ==
    /\ \A other \in DOMAIN models \ {m} : Lower(models[other]) # Lower(name)
    /\ models' = [models EXCEPT ![m] = name]
    /\ UNCHANGED <<user, rows, chosen>>

\* All backtests of a model that goes lose it, and no others.
Remove(m) ==
    /\ models' = [other \in DOMAIN models \ {m} |-> models[other]]
    /\ rows' = {IF b.model = m THEN [b EXCEPT !.model = None] ELSE b : b \in rows}
    /\ UNCHANGED <<user, chosen>>

Close == user /\ user' = FALSE /\ models' = <<>> /\ rows' = {} /\ chosen' = chosen

Next ==
    \/ \E by \in Commands : Choose(by) \/ GiveUp(by) \/ Replace(by)
    \/ \E b \in rows, starred \in BOOLEAN : Star(b, starred)
    \/ \E m \in DOMAIN models : Remove(m) \/ \E name \in Names : Rename(m, name)
    \/ Close

Spec == Init /\ [][Next]_vars
=============================================================================
