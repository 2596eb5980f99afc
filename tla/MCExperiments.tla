---------------------------- MODULE MCExperiments ----------------------------
(***************************************************************************)
(* Two runs of the seed command with a star, a removed and a renamed model  *)
(* and the deletion of the account, in the groups of Together.  The command *)
(* makes two backtests: one of the user's model, one that failed.           *)
(***************************************************************************)
EXTENDS Experiments, TLC

CONSTANTS s1, s2, m1, m2

\* Names: a word, and how it is spelled.
MCModels == m1 :> <<1, "lower">> @@ m2 :> <<2, "lower">>
MCRenamed == {<<1, "upper">>, <<3, "lower">>}

MCRuns == << [model |-> <<1, "upper">>, failed |-> FALSE, starred |-> TRUE, result |-> 2, made |-> 3],
             [model |-> <<3, "upper">>, failed |-> TRUE, starred |-> FALSE, result |-> None, made |-> 3] >>

Old(number, seeded, result0, made, model, name) ==
    [id |-> <<"old", number>>, number |-> number, seeded |-> seeded, by |-> None,
     starred |-> FALSE, failed |-> result0 = None, result |-> result0, made |-> made,
     model |-> model, name |-> name]

MCOthers == {Old(1, FALSE, 2, 1, m1, <<1, "lower">>), Old(2, FALSE, 1, 3, None, <<2, "upper">>)}
MCEarlier == {Old(3, TRUE, 1, 2, m2, <<2, "lower">>)}

\* Which requests come together.
Together ==
    LET came == {r \in Requests : pc[r] # "idle"}
    IN  \/ came \subseteq {s1, s2, "star"}
        \/ came \subseteq {s1, s2, "removal"}
        \/ came \subseteq {s1, "star", "removal", "rename"}
        \/ came \subseteq {s1, "closing"}
        \/ came \subseteq {"star", "removal", "closing"}
=============================================================================
