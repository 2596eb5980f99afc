------------------------------ MODULE MCAccounts ------------------------------
(***************************************************************************)
(* Small instances of Accounts: two GitHub and two Google accounts, three  *)
(* emails, two of them on the beta list.                                   *)
(***************************************************************************)
EXTENDS Accounts, TLC

CONSTANTS g1, g2, o1, o2, i1, i2, n1, c1, c2, c3, c4

MCProviderOf == [a \in Accounts |-> IF a \in {o1, o2} THEN "google" ELSE "github"]

\* g1 and o1 have one email, g2 another; that of o2 is not on the list.
MCEmailOf == [a \in Accounts |-> IF a = g2 THEN "b@x" ELSE IF a = o2 THEN "c@x" ELSE "a@x"]

\* Two sign-ins, the callback of a connect, and a second one of the first
\* sign-in.
MCTripOf == [c \in Calls |-> IF c = c2 THEN i2 ELSE IF c = c3 THEN n1 ELSE i1]

-----------------------------------------------------------------------------
(***************************************************************************)
(* The requests that come together in MCAccounts.cfg.                      *)
(***************************************************************************)

Together ==
    LET arrived == {r \in Requests : pc[r] # "idle"}
        busy    == {r \in arrived : pc[r] # "done"}
        \* Nothing else runs while one of these does.
        Alone(requests) == busy \cap requests = {} \/ Cardinality(busy) = 1
        Fresh == \A s \in Calls : age[s] = "fresh"
    IN  /\ Alone(SignIns)
        /\ \A c \in Calls : /\ account[c] = o2 => c = c4
                            /\ account[c] = g2 => c \in {c2, c3}
        /\ \/ arrived \subseteq SignIns \cup {c1, c2, c4} /\ Fresh
           \/ arrived \subseteq SignIns \cup {c1, c2, "k1"} /\ Fresh /\ Alone({c1})
           \/ arrived \subseteq SignIns \cup {c1, c2, "x1", "x2"} /\ Fresh /\ Alone({c1, c2})
           \/ arrived \subseteq SignIns \cup {n1, c1, c2, c3} /\ Fresh /\ Alone({c1, n1})
           \/ arrived \subseteq {i1, n1, c1, c3, "w1", "k1"} /\ Alone({c1})
=============================================================================
