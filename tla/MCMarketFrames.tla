--------------------------- MODULE MCMarketFrames ---------------------------
(***************************************************************************)
(* Instances of MarketFrames: two processes, whose refreshes meet, and one *)
(* search in the first.                                                    *)
(***************************************************************************)
EXTENDS MarketFrames, TLC

CONSTANTS p1, p2, r1

MCProcOf == [r \in Readers |-> p1]

MCSymmetry == Permutations(Symbols)

\* What happens at once.  A failure meets refreshes only: no search runs, and no
\* table is kept, after one.
Together == faults = 0 \/ \A r \in Readers : pc[r] = "idle" /\ table[ProcOf[r]] = None
=============================================================================
