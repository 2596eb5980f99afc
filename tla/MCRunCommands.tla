---------------------------- MODULE MCRunCommands ----------------------------
(***************************************************************************)
(* Two run-all, or two run, over three folders, one of them hidden.         *)
(***************************************************************************)
EXTENDS RunCommands

CONSTANTS r1, r2, g1, g2

Symmetry == Permutations({g1, g2}) \cup Permutations({r1, r2})

Files0(refused, good, bad) == [refused |-> refused, good |-> good, bad |-> bad]

MCNames == <<"AAPL", "TSLA", "_old">>
MCContents == {Files0(FALSE, {2}, {1}), Files0(FALSE, {1, 2}, {}), Files0(FALSE, {}, {}),
               Files0(TRUE, {1}, {})}
MCModelChoices == {Absent, <<2>>, <<2, 1>>}
MCThresholds == <<"low", "high">>
MCStopLosses == <<"none", "tight">>

Came == {c \in Commands : stage[c] # "idle"}

\* The hidden folder does not change.  A command that comes after another finds the
\* files as they were, all good, and takes every model.
Bounded ==
    /\ data["_old"] = Files0(FALSE, {1, 2}, {})
    /\ Came \subseteq Grids \/ Came \subseteq Singles
    /\ Cardinality(Came) > 1 =>
           /\ changes = 0 /\ \A s \in {"AAPL", "TSLA"} : data[s] = Files0(FALSE, {1, 2}, {})
           /\ \A c \in Came : args[c].models \in {Absent, <<2>>} /\ args[c].jobs = 1
                                /\ args[c].stock \in {Absent, "AAPL"}
=============================================================================
