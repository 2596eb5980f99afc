-------------------------- MODULE MCModelUploads --------------------------
(***************************************************************************)
(* Small instances of ModelUploads: the groups of requests of Together in  *)
(* MCModels.cfg, one request of each kind for liveness in MCModelLive.cfg. *)
(***************************************************************************)
EXTENDS ModelUploads, TLC

CONSTANTS u1, u2, u3

\* Room for two of the files, but not for the large one and another.
MCSize == [u \in Uploads |-> IF u = u1 THEN 2 ELSE 1]

\* u2 and u3 are interchangeable.
Symmetry == Permutations({u2, u3})

\* The requests that come together in MCModels.cfg.  Where all uploads come,
\* u2 and u3 meet when u1 is over.
Together ==
    LET arrived == {r \in Requests : pc[r] # "idle"}
    IN  \/ arrived \subseteq Uploads /\ ({u2, u3} \subseteq arrived => pc[u1] = "done")
        \/ arrived \subseteq {u2, u3, "x1"}
        \/ arrived \subseteq {u2, u3, "c1"}
        \/ arrived \subseteq {u2, "x1", "d1", "c1"}
=============================================================================
