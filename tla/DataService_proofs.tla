------------------------- MODULE DataService_proofs -------------------------
(***************************************************************************)
(* Proofs about the data service.                                          *)
(*                                                                         *)
(* SingleFlight, for any number of requests and processes.  TypeOK,        *)
(* HoldersKeepTheirLock, FetchesWhatIsMissing and the calm runs of CalmInv *)
(* are inductive, each with the ones before it; BudgetInv, which counts    *)
(* the calls of the source, is with the first two.                         *)
(*                                                                         *)
(* CandleService, for any markets, calendars, timeframes, callers and      *)
(* bounds.  What the bins of a period are, what a chunk holds, what a plan *)
(* covers, what gaps and counts are, and what is read, joined and counted  *)
(* back from are lemmas about the operators of CandleBins, in that order.  *)
(* ServiceInv, that every chunk holds what its label says and every        *)
(* request has what its progress implies, is inductive; the rest follows.  *)
(***************************************************************************)
EXTENDS SingleFlight, CandleService, FiniteSetTheorems, SequenceTheorems,
        WellFoundedInduction, TLAPS

LEMMA FoundCases ==
    ASSUME TypeOK
    PROVE  /\ Found = Nothing <=> value = None /\ failure = None
           /\ value # None => Found = Result("value", value)
           /\ value = None /\ failure # None => Found = Result("failure", failure)
           /\ Found # Nothing => Found \in [kind : Kinds, by : Requests]
BY DEF TypeOK, Found, Nothing, Result, Kinds

-----------------------------------------------------------------------------
(***************************************************************************)
(* The shape of the state is kept: in particular the lock is always the    *)
(* token of one request, and every answer names the fetch it came from.    *)
(***************************************************************************)
THEOREM TypeCorrect == Spec => []TypeOK
<1>1. Init => TypeOK
  BY RequestsAssumption DEF Init, TypeOK, Pcs
<1>2. TypeOK /\ [Next]_vars => TypeOK'
  <2> SUFFICES ASSUME TypeOK, [Next]_vars PROVE TypeOK'
    OBVIOUS
  <2> USE RequestsAssumption DEF TypeOK, Pcs, redis, history, Goto, Unless, IsDown
  <2>1. ASSUME NEW r \in Requests, Call(r) \/ Take(r) \/ Sleep(r)
        PROVE TypeOK'
    BY <2>1 DEF Call, Take, Sleep, AfterTake
  <2>2. ASSUME NEW r \in Requests, Lookup(r) \/ Recheck(r)
        PROVE TypeOK'
    BY <2>2, FoundCases DEF Lookup, Recheck, Ends, WhatIsThere
  <2>3. ASSUME NEW r \in Requests, FetchSucceeds(r) \/ FetchFails(r) \/ FetchBreaks(r)
        PROVE TypeOK'
    BY <2>3 DEF FetchSucceeds, FetchFails, FetchBreaks, Ends, Result, Kinds,
                AfterFailedFetch, Excuse
  <2>4. ASSUME NEW r \in Requests, Store(r) \/ Keep(r) \/ Release(r)
        PROVE TypeOK'
    BY <2>4 DEF Store, Keep, Release, Deleted
  <2>5. ASSUME NEW r \in Requests, DirectEnds(r)
        PROVE TypeOK'
    BY <2>5 DEF DirectEnds, Ends, Result, Kinds
  <2>6. ASSUME NEW r \in Requests, RedisFails(r)
        PROVE TypeOK'
    BY <2>6 DEF RedisFails, Applied, Deleted, Excuse
  <2>7. ASSUME NEW r \in Requests, Cancel(r)
        PROVE TypeOK'
    BY <2>7 DEF Cancel, Ends, Result, Kinds, Excuse
  <2>8. ASSUME NEW p \in Procs, Crash(p)
        PROVE TypeOK'
    BY <2>8 DEF Crash, Running, Result, Kinds, Excuse
  <2>9. ASSUME NEW p \in Procs, DownIsOver(p)
        PROVE TypeOK'
    BY <2>9 DEF DownIsOver
  <2>10. CASE LockExpires \/ ValueExpires \/ FailureExpires
    BY <2>10 DEF LockExpires, ValueExpires, FailureExpires, Excuse
  <2>11. CASE UNCHANGED vars
    BY <2>11 DEF vars
  <2> QED
    BY <2>1, <2>2, <2>3, <2>4, <2>5, <2>6, <2>7, <2>8, <2>9, <2>10, <2>11
    DEF Next, Step
<1> QED
  BY <1>1, <1>2, PTL DEF Spec

-----------------------------------------------------------------------------
(***************************************************************************)
(* A caller whose lock has not run out holds it until it gives it back:    *)
(* SET NX takes only a free lock and the release script compares tokens.   *)
(***************************************************************************)
LEMMA HoldersStep ==
    TypeOK /\ HoldersKeepTheirLock /\ [Next]_vars => HoldersKeepTheirLock'
<1> SUFFICES ASSUME TypeOK, HoldersKeepTheirLock, [Next]_vars,
                    NEW h \in Requests, pc'[h] \in Holding, h \notin lost'
             PROVE  lock' = h
  BY DEF HoldersKeepTheirLock
<1> USE RequestsAssumption
    DEF TypeOK, HoldersKeepTheirLock, Holding, redis, history, Goto, Unless, IsDown
<1>1. ASSUME NEW r \in Requests, Call(r) \/ Sleep(r)
      PROVE lock' = h
  BY <1>1 DEF Call, Sleep
<1>2. ASSUME NEW r \in Requests, Lookup(r) \/ Recheck(r)
      PROVE lock' = h
  BY <1>2 DEF Lookup, Recheck, WhatIsThere
<1>3. ASSUME NEW r \in Requests, Take(r)
      PROVE lock' = h
  BY <1>3 DEF Take, AfterTake
<1>4. ASSUME NEW r \in Requests, FetchSucceeds(r) \/ FetchFails(r) \/ FetchBreaks(r)
      PROVE lock' = h
  BY <1>4 DEF FetchSucceeds, FetchFails, FetchBreaks, AfterFailedFetch
<1>5. ASSUME NEW r \in Requests, Store(r) \/ Keep(r) \/ DirectEnds(r)
      PROVE lock' = h
  BY <1>5 DEF Store, Keep, DirectEnds
<1>6. ASSUME NEW r \in Requests, Release(r)
      PROVE lock' = h
  BY <1>6 DEF Release, Deleted
<1>7. ASSUME NEW r \in Requests, RedisFails(r)
      PROVE lock' = h
  BY <1>7 DEF RedisFails, Applied, Deleted
<1>8. ASSUME NEW r \in Requests, Cancel(r)
      PROVE lock' = h
  BY <1>8 DEF Cancel
<1>9. ASSUME NEW p \in Procs, Crash(p)
      PROVE lock' = h
  BY <1>9 DEF Crash, Running
<1>10. ASSUME NEW p \in Procs, DownIsOver(p)
      PROVE lock' = h
  BY <1>10 DEF DownIsOver
<1>11. CASE LockExpires \/ ValueExpires \/ FailureExpires
  BY <1>11 DEF LockExpires, ValueExpires, FailureExpires
<1>12. CASE UNCHANGED vars
  BY <1>12 DEF vars
<1> QED
  BY <1>1, <1>2, <1>3, <1>4, <1>5, <1>6, <1>7, <1>8, <1>9, <1>10, <1>11, <1>12
  DEF Next, Step

(***************************************************************************)
(* HoldersKeepTheirLock holds in every state: nobody's release takes the   *)
(* lock of a caller that holds it.                                         *)
(***************************************************************************)
THEOREM LockIsKept == Spec => []HoldersKeepTheirLock
<1>1. Init => HoldersKeepTheirLock
  BY DEF Init, HoldersKeepTheirLock, Holding
<1> QED
  BY <1>1, HoldersStep, TypeCorrect, PTL DEF Spec

(***************************************************************************)
(* SingleFlightHolds: two callers fetch at once only after the lock of one *)
(* of them ran out.                                                        *)
(***************************************************************************)
THEOREM SingleFlightIsSingle == Spec => []SingleFlightHolds
<1>1. HoldersKeepTheirLock => SingleFlightHolds
  BY DEF HoldersKeepTheirLock, SingleFlightHolds, Fetching, Holding
<1> QED
  BY <1>1, LockIsKept, PTL

-----------------------------------------------------------------------------
(***************************************************************************)
(* Nobody whose lock lives fetches what is already there, unless a caller  *)
(* that outlived its own lock stored it.                                   *)
(***************************************************************************)
LEMMA MissingStep ==
    /\ TypeOK
    /\ HoldersKeepTheirLock
    /\ FetchesWhatIsMissing
    /\ [Next]_vars
    => FetchesWhatIsMissing'
<1> SUFFICES ASSUME TypeOK, HoldersKeepTheirLock, FetchesWhatIsMissing, [Next]_vars,
                    NEW f \in Requests, pc'[f] = "fetch", f \notin lost'
             PROVE  /\ value' # None => value' \in lost'
                    /\ failure' # None => failure' \in lost'
  BY DEF FetchesWhatIsMissing
<1> DEFINE Missing == /\ value' # None => value' \in lost'
                      /\ failure' # None => failure' \in lost'
<1> USE RequestsAssumption
    DEF TypeOK, HoldersKeepTheirLock, FetchesWhatIsMissing, Holding, redis, history,
        Goto, Unless, IsDown
<1>1. ASSUME NEW r \in Requests, Call(r) \/ Sleep(r)
      PROVE Missing
  BY <1>1 DEF Call, Sleep
<1>2. ASSUME NEW r \in Requests, Lookup(r)
      PROVE Missing
  BY <1>2 DEF Lookup
<1>3. ASSUME NEW r \in Requests, Recheck(r)
      PROVE Missing
  BY <1>3, FoundCases DEF Recheck, WhatIsThere
<1>4. ASSUME NEW r \in Requests, Take(r)
      PROVE Missing
  BY <1>4 DEF Take, AfterTake
<1>5. ASSUME NEW r \in Requests, FetchSucceeds(r) \/ FetchFails(r) \/ FetchBreaks(r)
      PROVE Missing
  BY <1>5 DEF FetchSucceeds, FetchFails, FetchBreaks, AfterFailedFetch
<1>6. ASSUME NEW r \in Requests, Store(r)
      PROVE Missing
  BY <1>6 DEF Store
<1>7. ASSUME NEW r \in Requests, Keep(r)
      PROVE Missing
  BY <1>7 DEF Keep
<1>8. ASSUME NEW r \in Requests, Release(r) \/ DirectEnds(r)
      PROVE Missing
  BY <1>8 DEF Release, DirectEnds
<1>9. ASSUME NEW r \in Requests, RedisFails(r)
      PROVE Missing
  BY <1>9 DEF RedisFails, Applied
<1>10. ASSUME NEW r \in Requests, Cancel(r)
      PROVE Missing
  BY <1>10 DEF Cancel
<1>11. ASSUME NEW p \in Procs, Crash(p)
      PROVE Missing
  BY <1>11 DEF Crash, Running
<1>12. ASSUME NEW p \in Procs, DownIsOver(p)
      PROVE Missing
  BY <1>12 DEF DownIsOver
<1>13. CASE LockExpires \/ ValueExpires \/ FailureExpires
  BY <1>13 DEF LockExpires, ValueExpires, FailureExpires
<1>14. CASE UNCHANGED vars
  BY <1>14 DEF vars
<1> QED
  BY <1>1, <1>2, <1>3, <1>4, <1>5, <1>6, <1>7, <1>8, <1>9, <1>10, <1>11, <1>12,
     <1>13, <1>14
  DEF Next, Step

(***************************************************************************)
(* FetchesWhatIsMissing holds in every state: the second look of _recheck  *)
(* leaves no gap.                                                          *)
(***************************************************************************)
THEOREM OnlyTheMissingIsFetched == Spec => []FetchesWhatIsMissing
<1>1. Init => FetchesWhatIsMissing
  BY DEF Init, FetchesWhatIsMissing
<1> QED
  BY <1>1, MissingStep, TypeCorrect, LockIsKept, PTL DEF Spec

-----------------------------------------------------------------------------
(***************************************************************************)
(* Runs in which nothing goes wrong (excuses = 0).  Until something is     *)
(* stored nobody has ended; from then on every request that ends, or only  *)
(* gives its lock back, has the stored outcome, nobody fetches, and only   *)
(* the request that fetched it has called the source.                      *)
(***************************************************************************)
CalmInv ==
    excuses = 0 =>
        /\ lost = {}
        /\ \A p \in Procs : ~down[p]
        /\ lock # None => pc[lock] \in Holding
        /\ \A r \in Requests :
            /\ pc[r] # "direct"
            /\ Found = Nothing => pc[r] \notin {"release", "done"}
            /\ Found # Nothing => r \notin Fetching
            /\ pc[r] \in {"release", "done"} => outcome[r] = Found
            /\ pc[r] = "store" => outcome[r] = Result("value", r)
            /\ pc[r] = "keep" => outcome[r] = Result("failure", r)
            /\ r \in called => r \in Fetching \/ Found.by = r

LEMMA CalmStep ==
    TypeOK /\ HoldersKeepTheirLock /\ CalmInv /\ [Next]_vars => CalmInv'
<1> SUFFICES ASSUME TypeOK, HoldersKeepTheirLock, CalmInv, [Next]_vars, excuses' = 0
             PROVE  CalmInv'
  BY DEF CalmInv
<1> USE RequestsAssumption DEF TypeOK, Holding, redis, history, Goto, Unless, IsDown
<1>1. ASSUME Excuse PROVE FALSE
  BY <1>1 DEF Excuse
<1>2. excuses = 0
  <2>1. excuses' = excuses \/ Excuse
    BY DEF Next, Step, vars, Call, Lookup, Take, Recheck, Sleep, FetchSucceeds,
           FetchFails, FetchBreaks, Store, Keep, Release, DirectEnds,
           RedisFails, Cancel, Crash, DownIsOver, LockExpires, ValueExpires,
           FailureExpires, AfterTake
  <2> QED
    BY <2>1, <1>1
<1>3. ASSUME NEW r \in Requests, NEW s \in Requests, r \in Fetching, s \in Fetching
      PROVE  r = s
  BY <1>2, <1>3 DEF CalmInv, HoldersKeepTheirLock, Fetching
<1>4. ASSUME NEW r \in Requests, Call(r) \/ Sleep(r)
      PROVE CalmInv'
  BY <1>2, <1>4 DEF CalmInv, Call, Sleep, Found, Fetching
<1>5. ASSUME NEW r \in Requests, Lookup(r)
      PROVE CalmInv'
  BY <1>2, <1>5, FoundCases DEF CalmInv, Lookup, Ends, Found, Fetching
<1>6. ASSUME NEW r \in Requests, Take(r)
      PROVE CalmInv'
  BY <1>2, <1>6 DEF CalmInv, Take, AfterTake, Found, Fetching
<1>7. ASSUME NEW r \in Requests, Recheck(r)
      PROVE CalmInv'
  BY <1>2, <1>7, FoundCases
  DEF CalmInv, Recheck, WhatIsThere, Ends, Found, Fetching
<1>8. ASSUME NEW r \in Requests, FetchSucceeds(r) \/ FetchFails(r)
      PROVE CalmInv'
  BY <1>2, <1>8 DEF CalmInv, FetchSucceeds, FetchFails, AfterFailedFetch, Ends, Found, Fetching
<1>9. ASSUME NEW r \in Requests, Store(r)
      PROVE CalmInv'
  <2>1. Found = Nothing /\ r \in Fetching /\ outcome[r] = Result("value", r)
    BY <1>2, <1>9 DEF CalmInv, Store, Fetching
  <2>2. Found' = Result("value", r) /\ Found' # Nothing /\ Found'.by = r
    BY <1>9 DEF Store, Found, Result, Nothing
  <2>3. \A s \in Requests : s # r => s \notin Fetching /\ s \notin Fetching'
    BY <1>3, <1>9, <2>1 DEF Store, Fetching
  <2>4. pc'[r] = "release" /\ \A s \in Requests : s # r => pc'[s] = pc[s]
    BY <1>2, <1>9 DEF CalmInv, Store
  <2>5. \A s \in Requests : s # r => pc'[s] \notin {"release", "done", "direct", "store", "keep"}
    BY <1>2, <2>1, <2>3, <2>4 DEF CalmInv, Fetching
  <2>6. \A s \in called' : s = r
    BY <1>2, <1>9, <2>1, <2>3 DEF CalmInv, Store, Nothing
  <2>7. lock' # None => pc'[lock'] \in Holding
    BY <1>2, <1>9, <2>4 DEF CalmInv, Store
  <2>8. lost' = {} /\ (\A p \in Procs : ~down'[p]) /\ outcome'[r] = outcome[r]
    BY <1>2, <1>9 DEF CalmInv, Store
  <2>9. r \notin Fetching'
    BY <2>4 DEF Fetching
  <2> QED
    BY <2>1, <2>2, <2>3, <2>4, <2>5, <2>6, <2>7, <2>8, <2>9 DEF CalmInv
<1>10. ASSUME NEW r \in Requests, Keep(r)
      PROVE CalmInv'
  <2>1. Found = Nothing /\ r \in Fetching /\ outcome[r] = Result("failure", r)
    BY <1>2, <1>10 DEF CalmInv, Keep, Fetching
  <2>2. Found' = Result("failure", r) /\ Found' # Nothing /\ Found'.by = r
    BY <1>10, <2>1, FoundCases DEF Keep, Found, Result, Nothing
  <2>3. \A s \in Requests : s # r => s \notin Fetching /\ s \notin Fetching'
    BY <1>3, <1>10, <2>1 DEF Keep, Fetching
  <2>4. pc'[r] = "release" /\ \A s \in Requests : s # r => pc'[s] = pc[s]
    BY <1>2, <1>10 DEF CalmInv, Keep
  <2>5. \A s \in Requests : s # r => pc'[s] \notin {"release", "done", "direct", "store", "keep"}
    BY <1>2, <2>1, <2>3, <2>4 DEF CalmInv, Fetching
  <2>6. \A s \in called' : s = r
    BY <1>2, <1>10, <2>1, <2>3 DEF CalmInv, Keep, Nothing
  <2>7. lock' # None => pc'[lock'] \in Holding
    BY <1>2, <1>10, <2>4 DEF CalmInv, Keep
  <2>8. lost' = {} /\ (\A p \in Procs : ~down'[p]) /\ outcome'[r] = outcome[r]
    BY <1>2, <1>10 DEF CalmInv, Keep
  <2>9. r \notin Fetching'
    BY <2>4 DEF Fetching
  <2> QED
    BY <2>1, <2>2, <2>3, <2>4, <2>5, <2>6, <2>7, <2>8, <2>9 DEF CalmInv
<1>11. ASSUME NEW r \in Requests, Release(r)
      PROVE CalmInv'
  BY <1>2, <1>11 DEF CalmInv, Release, Deleted, Found, Fetching
<1>12. ASSUME NEW r \in Requests, DirectEnds(r)
      PROVE CalmInv'
  BY <1>2, <1>12 DEF CalmInv, DirectEnds
<1>13. ASSUME NEW p \in Procs, DownIsOver(p)
      PROVE CalmInv'
  BY <1>2, <1>13 DEF CalmInv, DownIsOver
<1>14. CASE UNCHANGED vars
  BY <1>2, <1>14 DEF CalmInv, vars, Found, Fetching
<1> QED
  BY <1>1, <1>4, <1>5, <1>6, <1>7, <1>8, <1>9, <1>10, <1>11, <1>12, <1>13, <1>14
  DEF Next, Step, FetchBreaks, RedisFails, Cancel, Crash, LockExpires,
      ValueExpires, FailureExpires

(***************************************************************************)
(* CalmInv holds in every state: as long as nothing goes wrong, the first  *)
(* outcome that is stored is the one every later request ends with.        *)
(***************************************************************************)
THEOREM CalmRuns == Spec => []CalmInv
<1>1. Init => CalmInv
  BY DEF Init, CalmInv, Found
<1> QED
  BY <1>1, CalmStep, TypeCorrect, LockIsKept, PTL DEF Spec

(***************************************************************************)
(* OneOutcome: when nothing goes wrong, all callers get the outcome of one *)
(* fetch.                                                                  *)
(***************************************************************************)
THEOREM AllGetOneOutcome == Spec => []OneOutcome
<1>1. CalmInv => OneOutcome
  BY DEF CalmInv, OneOutcome
<1> QED
  BY <1>1, CalmRuns, PTL

(***************************************************************************)
(* NoLockLeftBehind: a request that runs to its end gives its lock back.   *)
(***************************************************************************)
THEOREM LocksAreGivenBack == Spec => []NoLockLeftBehind
<1>1. CalmInv => NoLockLeftBehind
  BY DEF CalmInv, NoLockLeftBehind
<1> QED
  BY <1>1, CalmRuns, PTL

(***************************************************************************)
(* When nothing goes wrong the source is called once under the lock,       *)
(* however many requests want the value.                                   *)
(***************************************************************************)
THEOREM CalledOnce == Spec => [](excuses = 0 => \A r, s \in called : r = s)
<1>1. ASSUME TypeOK, HoldersKeepTheirLock, CalmInv, excuses = 0,
             NEW r \in called, NEW s \in called
      PROVE  r = s
  <2>1. r \in Requests /\ s \in Requests
    BY <1>1 DEF TypeOK
  <2>2. CASE r \in Fetching /\ s \in Fetching
    BY <1>1, <2>1, <2>2 DEF HoldersKeepTheirLock, CalmInv, Fetching, Holding
  <2>3. CASE Found = Nothing
    BY <1>1, <2>1, <2>2, <2>3, RequestsAssumption DEF CalmInv, Nothing
  <2>4. CASE Found # Nothing
    BY <1>1, <2>1, <2>4 DEF CalmInv
  <2> QED
    BY <2>3, <2>4
<1>2. TypeOK /\ HoldersKeepTheirLock /\ CalmInv
        => (excuses = 0 => \A r, s \in called : r = s)
  BY <1>1
<1> QED
  BY <1>2, CalmRuns, TypeCorrect, LockIsKept, PTL

-----------------------------------------------------------------------------
(***************************************************************************)
(* BudgetInv: the calls of the source made, and those callers without a    *)
(* lock are still free to make, are paid for by the excuses; one call is   *)
(* free while nothing is stored and who holds the lock may yet fetch, or   *)
(* is about to give it back.  FirstTry: who has not had the lock has not   *)
(* lost it.                                                                *)
(***************************************************************************)
Spent == called \cup {r \in lost : pc[r] = "recheck"}

Chance == Found = Nothing /\ (lock = None \/ pc[lock] \in {"recheck", "release"})

FirstTry ==
    \A r \in Requests :
        pc[r] \in {"idle", "lookup", "take", "sleep"} => r \notin lost /\ lock # r

BudgetInv ==
    /\ IsFiniteSet(Spent)
    /\ excuses < MaxExcuses =>
           /\ Cardinality(Spent) <= 1 + excuses
           /\ Chance => Cardinality(Spent) <= excuses

\* What a step may do to the budget: nothing, use the chance for a call, or pay
\* with an excuse for a chance or for a caller that lost its lock.
SpendsNothing == Spent' \subseteq Spent /\ (Chance' => Chance) /\ UNCHANGED excuses

UsesTheChance ==
    /\ Chance /\ ~Chance' /\ UNCHANGED excuses
    /\ \E r \in Requests : Spent' \subseteq Spent \cup {r}

IsExcused ==
    /\ Excuse
    /\ \/ Spent' \subseteq Spent
       \/ (Chance' => Chance) /\ \E r \in Requests : Spent' \subseteq Spent \cup {r}

BudgetStep == SpendsNothing \/ UsesTheChance \/ IsExcused

LEMMA OneMore ==
    ASSUME NEW S, IsFiniteSet(S), NEW r, NEW T, T \subseteq S \cup {r}
    PROVE  /\ IsFiniteSet(T) /\ Cardinality(T) \in Nat /\ Cardinality(S) \in Nat
           /\ Cardinality(T) <= Cardinality(S) + 1
           /\ T \subseteq S => Cardinality(T) <= Cardinality(S)
<1>1. IsFiniteSet(S \cup {r}) /\ Cardinality(S) \in Nat
  BY FS_AddElement, FS_CardinalityType
<1>2. Cardinality(S \cup {r}) <= Cardinality(S) + 1
  <2>1. \/ Cardinality(S \cup {r}) = Cardinality(S)
        \/ Cardinality(S \cup {r}) = Cardinality(S) + 1
    BY FS_AddElement
  <2> QED
    BY <1>1, <2>1
<1>3. /\ IsFiniteSet(T) /\ Cardinality(T) <= Cardinality(S \cup {r})
      /\ T \subseteq S => Cardinality(T) <= Cardinality(S)
  BY <1>1, FS_Subset
<1>4. Cardinality(T) \in Nat /\ Cardinality(S \cup {r}) \in Nat
  BY <1>1, <1>3, FS_CardinalityType
<1> QED
  BY <1>1, <1>2, <1>3, <1>4

LEMMA BudgetIsKept ==
    ASSUME excuses \in 0..MaxExcuses, BudgetInv, BudgetStep
    PROVE  BudgetInv'
<1>1. MaxExcuses \in Nat /\ excuses \in Nat
  BY RequestsAssumption
<1>2. IsFiniteSet(Spent)
  BY DEF BudgetInv
<1> DEFINE C == Cardinality(Spent)
           Cn == Cardinality(Spent')
<1>3. CASE SpendsNothing
  <2>1. IsFiniteSet(Spent') /\ C \in Nat /\ Cn \in Nat /\ Cn <= C
    BY <1>2, <1>3, OneMore DEF SpendsNothing
  <2> QED
    BY <1>1, <1>3, <2>1 DEF SpendsNothing, BudgetInv
<1>4. CASE UsesTheChance
  <2>1. IsFiniteSet(Spent') /\ C \in Nat /\ Cn \in Nat /\ Cn <= C + 1
    BY <1>2, <1>4, OneMore DEF UsesTheChance
  <2> QED
    BY <1>1, <1>4, <2>1 DEF UsesTheChance, BudgetInv
<1>5. CASE IsExcused
  <2>1. IsFiniteSet(Spent') /\ C \in Nat /\ Cn \in Nat /\ Cn <= C + 1
        /\ (Spent' \subseteq Spent => Cn <= C)
    BY <1>2, <1>5, OneMore DEF IsExcused
  <2>2. excuses' < MaxExcuses => excuses < MaxExcuses /\ excuses' = excuses + 1
    BY <1>1, <1>5 DEF IsExcused, Excuse
  <2>3. Spent' \subseteq Spent \/ (Chance' => Chance)
    BY <1>5 DEF IsExcused
  <2> QED
    BY <1>1, <2>1, <2>2, <2>3 DEF BudgetInv
<1> QED
  BY <1>3, <1>4, <1>5 DEF BudgetStep

LEMMA FirstTryStep ==
    TypeOK /\ FirstTry /\ [Next]_vars => FirstTry'
<1> SUFFICES ASSUME TypeOK, FirstTry, [Next]_vars, NEW h \in Requests,
                    pc'[h] \in {"idle", "lookup", "take", "sleep"}
             PROVE  h \notin lost' /\ lock' # h
  BY DEF FirstTry
<1> USE RequestsAssumption DEF TypeOK, FirstTry, redis, history, Goto, Unless, IsDown
<1>1. ASSUME NEW r \in Requests, Call(r) \/ Sleep(r)
      PROVE h \notin lost' /\ lock' # h
  BY <1>1 DEF Call, Sleep
<1>2. ASSUME NEW r \in Requests, Lookup(r) \/ Recheck(r)
      PROVE h \notin lost' /\ lock' # h
  BY <1>2 DEF Lookup, Recheck, WhatIsThere
<1>3. ASSUME NEW r \in Requests, Take(r)
      PROVE h \notin lost' /\ lock' # h
  BY <1>3 DEF Take, AfterTake
<1>4. ASSUME NEW r \in Requests, FetchSucceeds(r) \/ FetchFails(r) \/ FetchBreaks(r)
      PROVE h \notin lost' /\ lock' # h
  BY <1>4 DEF FetchSucceeds, FetchFails, FetchBreaks, AfterFailedFetch
<1>5. ASSUME NEW r \in Requests, Store(r) \/ Keep(r) \/ DirectEnds(r)
      PROVE h \notin lost' /\ lock' # h
  BY <1>5 DEF Store, Keep, DirectEnds
<1>6. ASSUME NEW r \in Requests, Release(r)
      PROVE h \notin lost' /\ lock' # h
  BY <1>6 DEF Release, Deleted
<1>7. ASSUME NEW r \in Requests, RedisFails(r)
      PROVE h \notin lost' /\ lock' # h
  BY <1>7 DEF RedisFails, Applied, Deleted
<1>8. ASSUME NEW r \in Requests, Cancel(r)
      PROVE h \notin lost' /\ lock' # h
  BY <1>8 DEF Cancel
<1>9. ASSUME NEW p \in Procs, Crash(p)
      PROVE h \notin lost' /\ lock' # h
  BY <1>9 DEF Crash, Running
<1>10. ASSUME NEW p \in Procs, DownIsOver(p)
      PROVE h \notin lost' /\ lock' # h
  BY <1>10 DEF DownIsOver
<1>11. CASE LockExpires \/ ValueExpires \/ FailureExpires
  BY <1>11 DEF LockExpires, ValueExpires, FailureExpires
<1>12. CASE UNCHANGED vars
  BY <1>12 DEF vars
<1> QED
  BY <1>1, <1>2, <1>3, <1>4, <1>5, <1>6, <1>7, <1>8, <1>9, <1>10, <1>11, <1>12
  DEF Next, Step

\* Every step of SingleFlight is one of the three.
LEMMA BudgetChanges ==
    TypeOK /\ HoldersKeepTheirLock /\ FirstTry /\ [Next]_vars => BudgetStep
<1> SUFFICES ASSUME TypeOK, HoldersKeepTheirLock, FirstTry, [Next]_vars PROVE BudgetStep
  OBVIOUS
<1> USE RequestsAssumption
    DEF TypeOK, redis, history, Goto, Unless, IsDown, BudgetStep, Spent, Chance
<1>1. ASSUME NEW r \in Requests, Call(r) \/ Sleep(r)
      PROVE BudgetStep
  <2>1. /\ UNCHANGED <<value, failure, lock, called, lost, excuses>>
        /\ pc[r] \in {"idle", "sleep"} /\ \E x \in {"lookup", "direct"} : pc' = [pc EXCEPT ![r] = x]
    BY <1>1 DEF Call, Sleep
  <2> QED
    BY <2>1 DEF SpendsNothing, Found, FirstTry
<1>2. ASSUME NEW r \in Requests, Lookup(r)
      PROVE BudgetStep
  BY <1>2 DEF Lookup, SpendsNothing, Found, FirstTry
<1>3. ASSUME NEW r \in Requests, Take(r)
      PROVE BudgetStep
  BY <1>3 DEF Take, AfterTake, SpendsNothing, Found, FirstTry
<1>4. ASSUME NEW r \in Requests, Recheck(r), Found # Nothing
      PROVE BudgetStep
  BY <1>4 DEF Recheck, WhatIsThere, SpendsNothing, Found
<1>5. ASSUME NEW r \in Requests, Recheck(r), Found = Nothing, r \in lost
      PROVE BudgetStep
  BY <1>5 DEF Recheck, SpendsNothing, Found
<1>6. ASSUME NEW r \in Requests, Recheck(r), Found = Nothing, r \notin lost
      PROVE BudgetStep
  <2>1. lock = r
    BY <1>6 DEF Recheck, HoldersKeepTheirLock, Holding
  <2> QED
    BY <1>6, <2>1 DEF Recheck, UsesTheChance, Found
<1>7. ASSUME NEW r \in Requests, FetchSucceeds(r) \/ FetchFails(r)
      PROVE BudgetStep
  <2>1. /\ UNCHANGED <<value, failure, lock, called, lost, excuses>>
        /\ pc[r] = "fetch" /\ \E x \in {"store", "keep", "done"} : pc' = [pc EXCEPT ![r] = x]
    BY <1>7 DEF FetchSucceeds, FetchFails, AfterFailedFetch
  <2> QED
    BY <2>1 DEF SpendsNothing, Found
<1>8. ASSUME NEW r \in Requests, FetchBreaks(r)
      PROVE BudgetStep
  BY <1>8 DEF FetchBreaks, IsExcused
<1>9. ASSUME NEW r \in Requests, Store(r) \/ Keep(r)
      PROVE BudgetStep
  <2>1. /\ UNCHANGED <<lock, called, lost, excuses>>
        /\ value' # None \/ failure' # None
        /\ \E x \in {"release", "done"} : pc' = [pc EXCEPT ![r] = x]
    BY <1>9 DEF Store, Keep
  <2>2. (Found # Nothing)'
    BY <2>1 DEF Found, Nothing, Result
  <2> QED
    BY <2>1, <2>2 DEF SpendsNothing
<1>10. ASSUME NEW r \in Requests, Release(r)
      PROVE BudgetStep
  BY <1>10 DEF Release, Deleted, SpendsNothing, Found
<1>11. ASSUME NEW r \in Requests, DirectEnds(r)
      PROVE BudgetStep
  BY <1>11 DEF DirectEnds, SpendsNothing, Found
<1>12. ASSUME NEW r \in Requests, RedisFails(r)
      PROVE BudgetStep
  BY <1>12 DEF RedisFails, IsExcused
<1>13. ASSUME NEW r \in Requests, Cancel(r)
      PROVE BudgetStep
  <2>1. Excuse /\ UNCHANGED <<called, lost>> /\ \E x \in {"release", "done"} : pc' = [pc EXCEPT ![r] = x]
    BY <1>13 DEF Cancel
  <2> QED
    BY <2>1 DEF IsExcused
<1>14. ASSUME NEW p \in Procs, Crash(p)
      PROVE BudgetStep
  BY <1>14 DEF Crash, IsExcused
<1>15. ASSUME NEW p \in Procs, DownIsOver(p)
      PROVE BudgetStep
  BY <1>15 DEF DownIsOver, SpendsNothing, Found
<1>16. CASE LockExpires
  <2>1. lock \in Requests /\ lock' = None /\ lost' = lost \cup {lock} /\ Excuse
        /\ UNCHANGED <<value, failure, pc, called>>
    BY <1>16 DEF LockExpires
  <2>2. CASE pc[lock] = "recheck"
    <3>1. Spent' \subseteq Spent \cup {lock}
      BY <2>1
    <3>2. Chance' => Chance
      BY <2>1, <2>2 DEF Found
    <3> QED
      BY <2>1, <3>1, <3>2 DEF IsExcused
  <2>3. CASE pc[lock] # "recheck"
    BY <2>1, <2>3 DEF IsExcused
  <2> QED
    BY <2>2, <2>3
<1>17. CASE ValueExpires \/ FailureExpires
  BY <1>17 DEF ValueExpires, FailureExpires, IsExcused
<1>18. CASE UNCHANGED vars
  BY <1>18 DEF vars, SpendsNothing, Found
<1> QED
  BY <1>1, <1>2, <1>3, <1>4, <1>5, <1>6, <1>7, <1>8, <1>9, <1>10, <1>11, <1>12, <1>13,
     <1>14, <1>15, <1>16, <1>17, <1>18
  DEF Next, Step

(***************************************************************************)
(* SourceCallsExcused: callers in any number of processes that want the    *)
(* same name call its source under the lock once, and once more for each   *)
(* expiry, Redis error, cancellation, crash or unexpected error at most.   *)
(***************************************************************************)
THEOREM CallsAreExcused == Spec => []SourceCallsExcused
<1>1. Init => FirstTry /\ BudgetInv
  <2> SUFFICES ASSUME Init PROVE FirstTry /\ BudgetInv
    OBVIOUS
  <2>1. Spent = {}
    BY DEF Init, Spent
  <2>2. FirstTry
    BY RequestsAssumption DEF Init, FirstTry
  <2> QED
    BY <2>1, <2>2, FS_EmptySet DEF Init, BudgetInv
<1>2. TypeOK /\ HoldersKeepTheirLock /\ FirstTry /\ BudgetInv /\ [Next]_vars => BudgetInv'
  BY BudgetChanges, BudgetIsKept DEF TypeOK
<1>3. TypeOK /\ BudgetInv => SourceCallsExcused
  <2> SUFFICES ASSUME TypeOK, BudgetInv, excuses < MaxExcuses
               PROVE  Cardinality(called) <= 1 + excuses
    BY DEF SourceCallsExcused
  <2>1. called \subseteq Spent /\ IsFiniteSet(Spent) /\ Cardinality(Spent) <= 1 + excuses
    BY DEF Spent, BudgetInv
  <2>2. Cardinality(called) <= Cardinality(Spent) /\ IsFiniteSet(called)
    BY <2>1, FS_Subset
  <2>3. Cardinality(called) \in Nat /\ Cardinality(Spent) \in Nat /\ excuses \in Nat
    BY <2>1, <2>2, FS_CardinalityType, RequestsAssumption DEF TypeOK
  <2> QED
    BY <2>1, <2>2, <2>3
<1> QED
  BY <1>1, <1>2, <1>3, FirstTryStep, TypeCorrect, LockIsKept, PTL DEF Spec

(***************************************************************************)
(* LocksAreKept: nobody gives back the lock of another, so it is one while *)
(* it lives, and each way of a request to its end gives its own back.      *)
(***************************************************************************)
THEOREM LocksKept == Spec => []LocksAreKept
  BY SingleFlightIsSingle, LockIsKept, LocksAreGivenBack, PTL DEF LocksAreKept

-----------------------------------------------------------------------------
(***************************************************************************)
(* Candle requests.  First, division and rounding.                         *)
(***************************************************************************)

LEMMA Divided ==
  ASSUME NEW t \in Int, NEW d \in Nat \ {0}
  PROVE  /\ t \div d \in Int /\ t % d \in Int /\ 0 <= t % d /\ t % d < d
         /\ t = d * (t \div d) + (t % d)
  <1>1. t \div d \in Int /\ t % d \in Int OBVIOUS
  <1>2. 0 <= t % d /\ t % d < d OBVIOUS
  <1>3. t = d * (t \div d) + (t % d) OBVIOUS
  <1> QED BY <1>1, <1>2, <1>3

LEMMA DividedOnce ==
  ASSUME NEW d \in Nat \ {0}, NEW q \in Int, NEW r \in Int, 0 <= r, r < d
  PROVE  (q * d + r) % d = r /\ (q * d + r) \div d = q
  <1>1. (q * d + r) % d = r OBVIOUS
  <1>2. (q * d + r) \div d = q OBVIOUS
  <1> QED BY <1>1, <1>2

LEMMA WholeTimes ==
  ASSUME NEW d \in Nat \ {0}, NEW a \in Int
  PROVE  a % d = 0 <=> \E q \in Int : a = q * d
  <1>1. \A q \in Int : (q * d + 0) % d = 0 BY DividedOnce
  <1>2. \A q \in Int : q * d + 0 = q * d OBVIOUS
  <1>3. a = d * (a \div d) + (a % d) /\ a \div d \in Int BY Divided
  <1>4. d * (a \div d) = (a \div d) * d BY <1>3
  <1> QED BY <1>1, <1>2, <1>3, <1>4

LEMMA Floors ==
  ASSUME NEW t \in Int, NEW d \in Nat \ {0}
  PROVE  /\ (t \div d) * d \in Int /\ ((t \div d) * d) % d = 0
         /\ (t \div d) * d <= t /\ t < (t \div d) * d + d
         /\ (t \div d) * d = t - (t % d)
  <1>1. /\ t \div d \in Int /\ t % d \in Int /\ 0 <= t % d /\ t % d < d
        /\ t = d * (t \div d) + (t % d) BY Divided
  <1>2. ((t \div d) * d) % d = 0
    <2>1. (t \div d) * d \in Int BY <1>1
    <2> QED BY <1>1, <2>1, WholeTimes
  <1>3. PICK q \in Int : q = t \div d BY <1>1
  <1>4. PICK r \in Int : r = t % d BY <1>1
  <1>5. t = d * q + r /\ 0 <= r /\ r < d BY <1>1, <1>3, <1>4
  <1>6. q * d \in Int /\ q * d <= t /\ t < q * d + d /\ q * d = t - r BY <1>5
  <1> QED BY <1>2, <1>3, <1>4, <1>6

\* Multiples are a whole step apart.
LEMMA Multiples ==
  ASSUME NEW d \in Nat \ {0}, NEW a \in Int, NEW b \in Int, a % d = 0, b % d = 0, a < b
  PROVE  a + d <= b
  <1>1. PICK p \in Int : a = p * d BY WholeTimes
  <1>2. PICK q \in Int : b = q * d BY WholeTimes
  <1>3. p < q BY <1>1, <1>2
  <1>4. p + 1 <= q BY <1>3
  <1>5. (p + 1) * d <= q * d BY <1>4
  <1> QED BY <1>1, <1>2, <1>5

LEMMA MultiplesAdd ==
  ASSUME NEW d \in Nat \ {0}, NEW a \in Int, NEW b \in Int, a % d = 0, b % d = 0
  PROVE  (a + b) % d = 0 /\ (a - b) % d = 0
  <1>1. PICK p \in Int : a = p * d BY WholeTimes
  <1>2. PICK q \in Int : b = q * d BY WholeTimes
  <1>3. a + b = (p + q) * d /\ a - b = (p - q) * d BY <1>1, <1>2
  <1>4. p + q \in Int /\ p - q \in Int /\ a + b \in Int /\ a - b \in Int OBVIOUS
  <1>5. (a + b) % d = 0 BY <1>3, <1>4, WholeTimes
  <1>6. (a - b) % d = 0 BY <1>3, <1>4, WholeTimes
  <1> QED BY <1>5, <1>6

\* A multiple of a long step is one of a step it is made of.
LEMMA MultiplesOfPart ==
  ASSUME NEW d \in Nat \ {0}, NEW e \in Nat \ {0}, e % d = 0, NEW a \in Int, a % e = 0
  PROVE  a % d = 0
  <1>1. PICK p \in Int : a = p * e BY WholeTimes
  <1>2. PICK q \in Int : e = q * d BY WholeTimes
  <1>3. p * (q * d) = (p * q) * d OBVIOUS
  <1>4. p * q \in Int OBVIOUS
  <1>5. a = p * (q * d) BY <1>1, <1>2
  <1>6. a = (p * q) * d BY <1>5, <1>3, Zenon
  <1> QED BY <1>4, <1>6, WholeTimes

\* The multiple at or before a time is the only one within a step before it.
LEMMA FloorOnly ==
  ASSUME NEW d \in Nat \ {0}, NEW t \in Int, NEW a \in Int, a % d = 0, a <= t, t < a + d
  PROVE  (t \div d) * d = a
  <1>1. PICK q \in Int : a = q * d BY WholeTimes
  <1>2. PICK r \in Int : r = t - a /\ 0 <= r /\ r < d OBVIOUS
  <1>3. t = q * d + r BY <1>1, <1>2
  <1>4. t \div d = q BY <1>2, <1>3, DividedOnce
  <1> QED BY <1>1, <1>4


-----------------------------------------------------------------------------
\* The least and the greatest of a set of times

LEMMA SmallestOfNat ==
  ASSUME NEW S, S \subseteq Nat, S # {}
  PROVE  \E n \in S : \A m \in S : n <= m
  <1>1. \E n \in S : \A m \in S : <<m, n>> \notin OpToRel(<, Nat)
    BY NatLessThanWellFounded, WFMin
  <1>2. ASSUME NEW n \in S, NEW m \in S, <<m, n>> \notin OpToRel(<, Nat)
        PROVE  n <= m
    BY <1>2 DEF OpToRel
  <1> QED BY <1>1, <1>2

LEMMA LeastOf ==
  ASSUME NEW S \in SUBSET Int, S # {}, NEW low \in Int, \A x \in S : low <= x
  PROVE  /\ Min(S) \in S /\ \A y \in S : Min(S) <= y
  <1> DEFINE T == {x - low : x \in S}
  <1>0. \A x \in S : x - low \in Nat OBVIOUS
  <1>1. T \subseteq Nat /\ T # {} BY <1>0
  <1>2. PICK n \in T : \A m \in T : n <= m BY <1>1, SmallestOfNat
  <1>3. PICK x \in S : n = x - low BY <1>2
  <1>4. ASSUME NEW y \in S PROVE x <= y
    <2>1. y - low \in T BY <1>1
    <2>2. x - low <= y - low BY <1>2, <1>3, <2>1
    <2> QED BY <2>2
  <1>5. \E z \in S : \A y \in S : z <= y BY <1>4
  <1> QED BY <1>5 DEF Min

LEMMA GreatestOf ==
  ASSUME NEW S \in SUBSET Int, S # {}, NEW high \in Int, \A x \in S : x <= high
  PROVE  /\ Max(S) \in S /\ \A y \in S : y <= Max(S)
  <1> DEFINE T == {high - x : x \in S}
  <1>0. \A x \in S : high - x \in Nat OBVIOUS
  <1>1. T \subseteq Nat /\ T # {} BY <1>0
  <1>2. PICK n \in T : \A m \in T : n <= m BY <1>1, SmallestOfNat
  <1>3. PICK x \in S : n = high - x BY <1>2
  <1>4. ASSUME NEW y \in S PROVE x >= y
    <2>1. high - y \in T BY <1>1
    <2>2. high - x <= high - y BY <1>2, <1>3, <2>1
    <2> QED BY <2>2
  <1>5. \E z \in S : \A y \in S : z >= y BY <1>4
  <1>6. /\ Max(S) \in S /\ \A y \in S : Max(S) >= y BY <1>5 DEF Max
  <1> QED BY <1>6

\* The least and the greatest are known by what they are.
LEMMA LeastIs ==
  ASSUME NEW S \in SUBSET Int, NEW x \in S, \A y \in S : x <= y
  PROVE  Min(S) = x
  <1>1. \E z \in S : \A y \in S : z <= y OBVIOUS
  <1>2. Min(S) \in S /\ \A y \in S : Min(S) <= y BY <1>1 DEF Min
  <1>3. Min(S) <= x /\ x <= Min(S) /\ Min(S) \in Int /\ x \in Int BY <1>2
  <1> QED BY <1>3

LEMMA GreatestIs ==
  ASSUME NEW S \in SUBSET Int, NEW x \in S, \A y \in S : y <= x
  PROVE  Max(S) = x
  <1>1. \E z \in S : \A y \in S : z >= y OBVIOUS
  <1>2. Max(S) \in S /\ \A y \in S : Max(S) >= y BY <1>1 DEF Max
  <1>3. Max(S) <= x /\ x <= Max(S) /\ Max(S) \in Int /\ x \in Int BY <1>2
  <1> QED BY <1>3

-----------------------------------------------------------------------------
\* The sessions of a calendar

Session == [open : Nat, close : Nat]
In(s, t) == s.open <= t /\ t < s.close
Calendar(sessions) == sessions = Absent \/ IsCalendar(sessions)

LEMMA SessionType ==
  ASSUME NEW sessions, IsCalendar(sessions)
  PROVE  /\ \A i \in DOMAIN sessions : /\ sessions[i] \in Session /\ i \in Int
                                       /\ sessions[i].open \in Int /\ 0 <= sessions[i].open
                                       /\ sessions[i].close \in Int
                                       /\ sessions[i].open < sessions[i].close
         /\ \E n \in Nat : DOMAIN sessions = 1..n
         /\ ToSet(sessions) = {sessions[i] : i \in DOMAIN sessions}
  <1>1. sessions \in Seq(Session) BY DEF IsCalendar, Session
  <1>2. PICK n \in Nat : DOMAIN sessions = 1..n BY <1>1
  <1>3. \A i \in DOMAIN sessions : sessions[i] \in Session /\ i \in Int BY <1>1, <1>2
  <1>4. \A s \in Session : s.open \in Int /\ 0 <= s.open /\ s.close \in Int BY DEF Session
  <1>5. \A i \in DOMAIN sessions : sessions[i].open < sessions[i].close BY DEF IsCalendar
  <1>6. ToSet(sessions) = {sessions[i] : i \in DOMAIN sessions} BY DEF ToSet
  <1> QED BY <1>2, <1>3, <1>4, <1>5, <1>6

\* Sessions open and close one after another.
LEMMA SessionsInTurn ==
  ASSUME NEW sessions, IsCalendar(sessions), NEW i \in DOMAIN sessions, NEW j \in DOMAIN sessions, i < j
  PROVE  sessions[i].close <= sessions[j].open /\ sessions[i].open < sessions[j].open
  <1>1. sessions[i].close <= sessions[j].open /\ sessions[i].open < sessions[i].close
    BY DEF IsCalendar
  <1> QED BY <1>1, SessionType

\* A time is in one session at most.
LEMMA OneSession ==
  ASSUME NEW sessions, IsCalendar(sessions), NEW t \in Int,
         NEW i \in DOMAIN sessions, NEW j \in DOMAIN sessions, In(sessions[i], t), In(sessions[j], t)
  PROVE  i = j
  <1>1. i \in Int /\ j \in Int BY SessionType
  <1>2. CASE i < j
    <2>1. sessions[i].close <= sessions[j].open BY <1>2, SessionsInTurn
    <2> QED BY <2>1, SessionType DEF In
  <1>3. CASE j < i
    <2>1. sessions[j].close <= sessions[i].open BY <1>3, SessionsInTurn
    <2> QED BY <2>1, SessionType DEF In
  <1> QED BY <1>1, <1>2, <1>3

\* The session begun last at a time, as a property of its index.
LastBegun(sessions, t, i) ==
    /\ i \in DOMAIN sessions /\ sessions[i].open <= t
    /\ \A j \in DOMAIN sessions : sessions[j].open <= t => j <= i

LEMMA BegunIs ==
  ASSUME NEW sessions, IsCalendar(sessions), NEW t \in Int, NEW i, LastBegun(sessions, t, i)
  PROVE  Begun(sessions, t) = sessions[i] /\ Begun(sessions, t) # Absent
  <1> DEFINE begun == {k \in DOMAIN sessions : sessions[k].open <= t}
  <1>1. i \in begun /\ begun \subseteq Int BY SessionType DEF LastBegun
  <1>2. \A j \in begun : j <= i BY DEF LastBegun
  <1>3. Max(begun) = i BY <1>1, <1>2, GreatestIs
  <1>4. begun # {} BY <1>1
  <1>5. Begun(sessions, t) = sessions[i] BY <1>3, <1>4 DEF Begun
  <1>6. sessions[i] \in Session BY SessionType DEF LastBegun
  <1> QED BY <1>5, <1>6, BinsAssumption DEF Session

LEMMA BegunSome ==
  ASSUME NEW sessions, IsCalendar(sessions), NEW t \in Int
  PROVE  Begun(sessions, t) # Absent <=> \E i \in DOMAIN sessions : LastBegun(sessions, t, i)
  <1> DEFINE begun == {k \in DOMAIN sessions : sessions[k].open <= t}
  <1>1. CASE begun = {}
    <2>1. Begun(sessions, t) = Absent BY <1>1 DEF Begun
    <2>2. ~ \E i \in DOMAIN sessions : LastBegun(sessions, t, i) BY <1>1 DEF LastBegun
    <2> QED BY <2>1, <2>2
  <1>2. CASE begun # {}
    <2>1. PICK n \in Nat : DOMAIN sessions = 1..n BY SessionType
    <2>2. begun \in SUBSET Int /\ n \in Int /\ \A k \in begun : k <= n BY <2>1
    <2>3. /\ Max(begun) \in begun /\ \A y \in begun : y <= Max(begun) BY <1>2, <2>2, GreatestOf
    <2>4. LastBegun(sessions, t, Max(begun)) BY <2>3 DEF LastBegun
    <2>5. Max(begun) \in DOMAIN sessions BY <2>3
    <2> QED BY <2>4, <2>5, BegunIs
  <1> QED BY <1>1, <1>2

\* A session that a time is in was begun last.
LEMMA InBegun ==
  ASSUME NEW sessions, IsCalendar(sessions), NEW t \in Int, NEW i \in DOMAIN sessions,
         In(sessions[i], t)
  PROVE  /\ LastBegun(sessions, t, i) /\ Begun(sessions, t) = sessions[i]
         /\ Begun(sessions, t) # Absent
  <1>1. ASSUME NEW j \in DOMAIN sessions, sessions[j].open <= t PROVE j <= i
    <2>1. i \in Int /\ j \in Int BY SessionType
    <2>2. SUFFICES ASSUME i < j PROVE FALSE BY <2>1
    <2>3. sessions[i].close <= sessions[j].open BY <2>2, SessionsInTurn
    <2> QED BY <1>1, <2>3, SessionType DEF In
  <1>2. LastBegun(sessions, t, i) BY <1>1 DEF LastBegun, In
  <1> QED BY <1>2, BegunIs

-----------------------------------------------------------------------------
\* The bins of a timeframe, as a property of a time

IsBin(sessions, step, t) ==
    IF sessions = Absent THEN t % step = 0
    ELSE \E i \in DOMAIN sessions : In(sessions[i], t) /\ (t - sessions[i].open) % step = 0

\* A bin of a session, and the end of it.
LEMMA BinIn ==
  ASSUME NEW sessions, sessions # Absent, IsCalendar(sessions), NEW step \in Nat \ {0}, NEW t \in Int,
         NEW i \in DOMAIN sessions, In(sessions[i], t)
  PROVE  /\ BinEnd(t, step, sessions) = Least(t + step, sessions[i].close)
         /\ BinEnd(t, step, sessions) \in Int
         /\ t < BinEnd(t, step, sessions)
         /\ IsBin(sessions, step, t) <=> (t - sessions[i].open) % step = 0
  <1>1. Begun(sessions, t) = sessions[i] /\ sessions[i] # Absent BY InBegun
  <1>2. /\ sessions[i].open \in Int /\ sessions[i].close \in Int
        /\ sessions[i].open <= t /\ t < sessions[i].close BY SessionType DEF In
  <1>3. BinEnd(t, step, sessions) = Least(t + step, sessions[i].close) BY <1>1, <1>2 DEF BinEnd
  <1>4. Least(t + step, sessions[i].close) \in Int /\ t < Least(t + step, sessions[i].close)
    BY <1>2 DEF Least
  <1>5. IsBin(sessions, step, t) <=> (t - sessions[i].open) % step = 0 BY OneSession DEF IsBin
  <1> QED BY <1>3, <1>4, <1>5

LEMMA BinFixed ==
  ASSUME NEW t, NEW step
  PROVE  BinEnd(t, step, Absent) = t + step /\ (IsBin(Absent, step, t) <=> t % step = 0)
  BY DEF BinEnd, IsBin

\* A bin ends after it opens.
LEMMA BinEndType ==
  ASSUME NEW sessions, Calendar(sessions), NEW step \in Nat \ {0}, NEW t \in Int,
         IsBin(sessions, step, t)
  PROVE  BinEnd(t, step, sessions) \in Int /\ t < BinEnd(t, step, sessions)
  <1>1. CASE sessions = Absent BY <1>1, BinFixed
  <1>2. CASE sessions # Absent
    <2>1. PICK i \in DOMAIN sessions : In(sessions[i], t) BY <1>2 DEF IsBin
    <2> QED BY <1>2, <2>1, BinIn DEF Calendar
  <1> QED BY <1>1, <1>2

\* A bin ends before the next one opens.
LEMMA BinsInTurn ==
  ASSUME NEW sessions, Calendar(sessions), NEW step \in Nat \ {0}, NEW t \in Int, NEW u \in Int,
         IsBin(sessions, step, t), IsBin(sessions, step, u), t < u
  PROVE  BinEnd(t, step, sessions) <= u
  <1>1. CASE sessions = Absent
    <2>1. t % step = 0 /\ u % step = 0 /\ BinEnd(t, step, sessions) = t + step BY <1>1, BinFixed
    <2> QED BY <2>1, Multiples
  <1>2. CASE sessions # Absent
    <2>1. PICK i \in DOMAIN sessions : In(sessions[i], t) /\ (t - sessions[i].open) % step = 0
      BY <1>2 DEF IsBin
    <2>2. PICK j \in DOMAIN sessions : In(sessions[j], u) /\ (u - sessions[j].open) % step = 0
      BY <1>2 DEF IsBin
    <2>3. IsCalendar(sessions) BY <1>2 DEF Calendar
    <2>4. BinEnd(t, step, sessions) = Least(t + step, sessions[i].close) BY <1>2, <2>1, <2>3, BinIn
    <2>5. /\ i \in Int /\ j \in Int /\ sessions[i].open \in Int /\ sessions[i].close \in Int
          /\ sessions[j].open \in Int /\ sessions[j].close \in Int BY <2>3, SessionType
    <2>6. CASE i = j
      <3>1. t - sessions[i].open \in Int /\ u - sessions[i].open \in Int
            /\ t - sessions[i].open < u - sessions[i].open BY <2>5
      <3>2. t - sessions[i].open + step <= u - sessions[i].open
        BY <2>1, <2>2, <2>6, <3>1, Multiples
      <3>3. t + step <= u BY <2>5, <3>2
      <3> QED BY <2>4, <2>5, <3>3 DEF Least
    <2>7. CASE i < j
      <3>1. sessions[i].close <= sessions[j].open BY <2>3, <2>7, SessionsInTurn
      <3> QED BY <2>2, <2>4, <2>5, <3>1 DEF Least, In
    <2>8. CASE j < i
      <3>1. sessions[j].close <= sessions[i].open BY <2>3, <2>8, SessionsInTurn
      <3> QED BY <2>1, <2>2, <2>5, <3>1 DEF In
    <2> QED BY <2>5, <2>6, <2>7, <2>8
  <1> QED BY <1>1, <1>2

\* The expected bins are the bins of the period that are closed.
LEMMA ExpectedAre ==
  ASSUME NEW sessions, Calendar(sessions), NEW step \in Nat \ {0},
         NEW start \in Int, NEW end \in Int, NEW asOf \in Int
  PROVE  ExpectedBins(start, end, step, sessions, asOf)
           = {t \in Int : /\ IsBin(sessions, step, t) /\ start <= t /\ t < end
                          /\ BinEnd(t, step, sessions) <= asOf}
  <1> DEFINE bins == {t \in Int : /\ IsBin(sessions, step, t) /\ start <= t /\ t < end
                                  /\ BinEnd(t, step, sessions) <= asOf}
  <1>1. CASE sessions = Absent
    <2> DEFINE most == Least(end, asOf - step + 1) - 1
    <2>1. most \in Int /\ \A t \in Int : t <= most <=> t < end /\ t + step <= asOf BY DEF Least
    <2>2. ExpectedBins(start, end, step, sessions, asOf) = {t \in start..most : t % step = 0}
      BY <1>1 DEF ExpectedBins
    <2>3. \A t \in Int : t \in start..most <=> start <= t /\ t < end /\ t + step <= asOf
      <3> HIDE DEF most
      <3> QED BY <2>1
    <2>4. \A t \in start..most : t \in Int OBVIOUS
    <2>5. \A t \in Int : IsBin(sessions, step, t) = (t % step = 0) /\ BinEnd(t, step, sessions) = t + step
      BY <1>1 DEF IsBin, BinEnd
    <2> HIDE DEF most
    <2>6. {t \in start..most : t % step = 0} = bins BY <2>3, <2>4, <2>5
    <2> QED BY <2>2, <2>6
  <1>2. CASE sessions # Absent
    <2>1. IsCalendar(sessions) BY <1>2 DEF Calendar
    <2> DEFINE all == UNION {SessionBins(s, step) : s \in SessionsBetween(sessions, start, end)}
    <2>2. ExpectedBins(start, end, step, sessions, asOf)
            = {b.opens : b \in {c \in all : start <= c.opens /\ c.opens < end /\ c.closes <= asOf}}
      BY <1>2 DEF ExpectedBins
    <2>3. ASSUME NEW c \in all, start <= c.opens, c.opens < end, c.closes <= asOf
          PROVE  c.opens \in bins
      <3>1. PICK s \in SessionsBetween(sessions, start, end) : c \in SessionBins(s, step) OBVIOUS
      <3>2. PICK i \in DOMAIN sessions : s = sessions[i] BY <2>1, <3>1, SessionType DEF SessionsBetween
      <3>3. s.open \in Int /\ s.close \in Int BY <2>1, <3>2, SessionType
      <3>4. PICK o \in s.open..s.close - 1 : /\ (o - s.open) % step = 0
                                             /\ c = [opens |-> o, closes |-> Least(o + step, s.close)]
        BY <3>1 DEF SessionBins
      <3>5. o \in Int /\ In(s, o) BY <3>3, <3>4 DEF In
      <3>6. BinEnd(o, step, sessions) = Least(o + step, s.close) /\ IsBin(sessions, step, o)
        BY <1>2, <2>1, <3>2, <3>4, <3>5, BinIn
      <3> QED BY <2>3, <3>4, <3>5, <3>6
    <2>4. ASSUME NEW t \in bins
          PROVE  \E c \in all : c.opens = t /\ c.closes <= asOf
      <3>1. PICK i \in DOMAIN sessions : In(sessions[i], t) /\ (t - sessions[i].open) % step = 0
        BY <1>2 DEF IsBin
      <3> DEFINE s == sessions[i]
                 c == [opens |-> t, closes |-> Least(t + step, s.close)]
      <3>2. s.open \in Int /\ s.close \in Int /\ t \in Int /\ start <= t /\ t < end
        BY <2>1, SessionType
      <3>3. t \in s.open..s.close - 1 BY <3>1, <3>2 DEF In
      <3>4. c \in SessionBins(s, step) BY <3>1, <3>3 DEF SessionBins
      <3>5. s \in SessionsBetween(sessions, start, end)
        <4>1. s \in ToSet(sessions) BY <2>1, SessionType
        <4>2. s.close > start /\ s.open < end BY <3>1, <3>2 DEF In
        <4> QED BY <4>1, <4>2 DEF SessionsBetween
      <3>6. c.closes <= asOf BY <1>2, <2>1, <3>1, <3>2, BinIn
      <3>7. c \in all BY <3>4, <3>5
      <3> QED BY <3>6, <3>7
    <2> HIDE DEF all
    <2>5. \A t \in bins : start <= t /\ t < end OBVIOUS
    <2> HIDE DEF bins
    <2>6. {b.opens : b \in {c \in all : start <= c.opens /\ c.opens < end /\ c.closes <= asOf}} = bins
      BY <2>3, <2>4, <2>5
    <2> QED BY <2>2, <2>6 DEF bins
  <1> QED BY <1>1, <1>2


-----------------------------------------------------------------------------
\* Frames: the bins they are made of

LEMMA Steps ==
  /\ 1 \in Timeframes /\ Day \in Timeframes /\ Min(Timeframes) = 1 /\ Day \in Nat \ {0}
  /\ \A step \in Timeframes : step \in Nat \ {0} /\ step <= Day /\ Day % step = 0
  <1>1. 1 \in Timeframes /\ Day \in Timeframes /\ Timeframes \subseteq Nat BY BinsAssumption
  <1>2. \A step \in Timeframes : step \in 1..Day /\ Day % step = 0 BY BinsAssumption
  <1>3. Day \in Nat \ {0} BY <1>1, <1>2
  <1>4. \A step \in Timeframes : step \in Nat \ {0} /\ step <= Day BY <1>1, <1>2, <1>3
  <1>5. Timeframes \in SUBSET Int /\ \A step \in Timeframes : 1 <= step BY <1>1, <1>4
  <1>6. Min(Timeframes) = 1 BY <1>1, <1>5, LeastIs
  <1> QED BY <1>1, <1>2, <1>3, <1>4, <1>6

\* The multiple of one is every time.
LEMMA Ones ==
  ASSUME NEW t \in Int
  PROVE  t % 1 = 0 /\ t \div 1 = t /\ (t \div 1) * 1 = t
  <1>1. t = t * 1 + 0 OBVIOUS
  <1>2. t % 1 = 0 /\ t \div 1 = t BY <1>1, DividedOnce
  <1> QED BY <1>2

\* The bin a time is in, as ResampleSessions computes it.
LEMMA BinOfTime ==
  ASSUME NEW sessions, sessions # Absent, IsCalendar(sessions), NEW step \in Nat \ {0}, NEW t \in Int,
         NEW i \in DOMAIN sessions, In(sessions[i], t)
  PROVE  LET opened == Begun(sessions, t).open
             bin == opened + ((t - opened) \div step) * step
         IN  /\ bin \in Int /\ IsBin(sessions, step, bin)
             /\ bin <= t /\ t < BinEnd(bin, step, sessions)
             /\ \A o \in Int : IsBin(sessions, step, o) /\ o <= t /\ t < BinEnd(o, step, sessions) => o = bin
  <1>1. Begun(sessions, t) = sessions[i] BY InBegun
  <1>2. PICK opened \in Int : opened = sessions[i].open /\ opened <= t BY SessionType DEF In
  <1>3. PICK closed \in Int : closed = sessions[i].close /\ t < closed BY SessionType DEF In
  <1>4. PICK gone \in Int : gone = t - opened /\ 0 <= gone BY <1>2
  <1>5. /\ (gone \div step) * step \in Int /\ ((gone \div step) * step) % step = 0
        /\ (gone \div step) * step <= gone /\ gone < (gone \div step) * step + step
    BY <1>4, Floors
  <1>6. PICK floor \in Int : floor = (gone \div step) * step BY <1>5
  <1>7. floor % step = 0 /\ floor <= gone /\ gone < floor + step BY <1>5, <1>6
  <1>8. 0 <= floor
    <2>1. SUFFICES ASSUME floor < 0 PROVE FALSE BY <1>6
    <2>2. 0 % step = 0 /\ 0 \in Int BY WholeTimes
    <2>3. floor + step <= 0 BY <1>7, <2>1, <2>2, Multiples
    <2> QED BY <1>4, <1>7, <2>3
  <1>9. PICK bin \in Int : bin = opened + floor BY <1>2, <1>6
  <1>10. Begun(sessions, t).open + ((t - Begun(sessions, t).open) \div step) * step = bin
    BY <1>1, <1>2, <1>4, <1>6, <1>9
  <1>11. opened <= bin /\ bin <= t /\ t < bin + step /\ bin < closed /\ bin - opened = floor
    BY <1>2, <1>3, <1>4, <1>7, <1>8, <1>9
  <1>12. In(sessions[i], bin) BY <1>2, <1>3, <1>11 DEF In
  <1>13. IsBin(sessions, step, bin) BY <1>2, <1>7, <1>11, <1>12, BinIn
  <1>14. BinEnd(bin, step, sessions) = Least(bin + step, closed) BY <1>3, <1>12, BinIn
  <1>15. t < BinEnd(bin, step, sessions) BY <1>3, <1>11, <1>14 DEF Least
  <1>16. ASSUME NEW o \in Int, IsBin(sessions, step, o), o <= t, t < BinEnd(o, step, sessions)
         PROVE  o = bin
    <2>1. CASE o < bin
      <3>1. BinEnd(o, step, sessions) <= bin BY <1>13, <1>16, <2>1, BinsInTurn DEF Calendar
      <3>2. BinEnd(o, step, sessions) \in Int BY <1>16, BinEndType DEF Calendar
      <3> QED BY <1>11, <1>16, <3>1, <3>2
    <2>2. CASE bin < o
      <3>1. BinEnd(bin, step, sessions) <= o BY <1>13, <1>16, <2>2, BinsInTurn DEF Calendar
      <3>2. BinEnd(bin, step, sessions) \in Int BY <1>13, BinEndType DEF Calendar
      <3> QED BY <1>15, <1>16, <3>1, <3>2
    <2> QED BY <2>1, <2>2
  <1>17. /\ bin \in Int /\ IsBin(sessions, step, bin)
         /\ bin <= t /\ t < BinEnd(bin, step, sessions)
         /\ \A o \in Int : IsBin(sessions, step, o) /\ o <= t /\ t < BinEnd(o, step, sessions) => o = bin
    BY <1>11, <1>13, <1>15, <1>16
  <1> QED BY <1>10, <1>17, Zenon

\* A time is inside a session when it is in a bin of it.
LEMMA InsideSession ==
  ASSUME NEW sessions, sessions # Absent, IsCalendar(sessions), NEW t \in Int
  PROVE  (Begun(sessions, t) # Absent /\ t < Begun(sessions, t).close)
           <=> \E i \in DOMAIN sessions : In(sessions[i], t)
  <1>1. ASSUME Begun(sessions, t) # Absent, t < Begun(sessions, t).close
        PROVE  \E i \in DOMAIN sessions : In(sessions[i], t)
    <2>1. PICK i \in DOMAIN sessions : LastBegun(sessions, t, i) BY <1>1, BegunSome
    <2>2. Begun(sessions, t) = sessions[i] BY <2>1, BegunIs
    <2>3. In(sessions[i], t) BY <1>1, <2>1, <2>2 DEF In, LastBegun
    <2> QED BY <2>3
  <1>2. ASSUME NEW i \in DOMAIN sessions, In(sessions[i], t)
        PROVE  Begun(sessions, t) # Absent /\ t < Begun(sessions, t).close
    <2>1. Begun(sessions, t) = sessions[i] /\ Begun(sessions, t) # Absent BY <1>2, InBegun
    <2> QED BY <1>2, <2>1 DEF In
  <1> QED BY <1>1, <1>2

\* What of a frame is in a bin.
OfBin(frame, sessions, step, o) == {t \in DOMAIN frame : o <= t /\ t < BinEnd(o, step, sessions)}

Rebinned(frame, step, sessions) ==
    [o \in {x \in Int : IsBin(sessions, step, x) /\ OfBin(frame, sessions, step, x) # {}} |->
        UNION {frame[t] : t \in OfBin(frame, sessions, step, o)}]
ClosedPart(frame, step, asOf, sessions) ==
    [t \in {u \in DOMAIN frame : BinEnd(u, step, sessions) <= asOf} |-> frame[t]]
OnBins(frame, step, sessions) == \A t \in DOMAIN frame : t \in Int /\ IsBin(sessions, step, t)

\* Resampling gives the bins that anything of the frame is in, each of all that is in it.
LEMMA ResampledAre ==
  ASSUME NEW sessions, sessions # Absent, IsCalendar(sessions), NEW step \in Nat \ {0},
         NEW frame, DOMAIN frame \subseteq Int
  PROVE  ResampleSessions(frame, step, sessions) = Rebinned(frame, step, sessions)
  <1> DEFINE inside == {t \in DOMAIN frame :
                          Begun(sessions, t) # Absent /\ t < Begun(sessions, t).close}
             bin(t) == Begun(sessions, t).open + ((t - Begun(sessions, t).open) \div step) * step
             opens == {x \in Int : IsBin(sessions, step, x) /\ OfBin(frame, sessions, step, x) # {}}
  <1>1. ASSUME NEW t \in inside
        PROVE  /\ bin(t) \in Int /\ IsBin(sessions, step, bin(t))
               /\ bin(t) <= t /\ t < BinEnd(bin(t), step, sessions)
               /\ \A o \in Int : IsBin(sessions, step, o) /\ o <= t /\ t < BinEnd(o, step, sessions) => o = bin(t)
    <2>1. t \in Int OBVIOUS
    <2>2. PICK i \in DOMAIN sessions : In(sessions[i], t) BY <2>1, InsideSession
    <2> QED BY <2>1, <2>2, BinOfTime
  <1>2. ASSUME NEW o \in Int, IsBin(sessions, step, o), NEW t \in OfBin(frame, sessions, step, o)
        PROVE  t \in inside
    <2>1. PICK i \in DOMAIN sessions : In(sessions[i], o) BY <1>2 DEF IsBin
    <2>2. t \in DOMAIN frame /\ t \in Int /\ o <= t /\ t < BinEnd(o, step, sessions) BY DEF OfBin
    <2>3. BinEnd(o, step, sessions) = Least(o + step, sessions[i].close) BY <2>1, BinIn
    <2>4. sessions[i].open \in Int /\ sessions[i].close \in Int BY SessionType
    <2>5. In(sessions[i], t) BY <2>1, <2>2, <2>3, <2>4 DEF In, Least
    <2> QED BY <2>2, <2>5, InsideSession
  <1>3. ASSUME NEW o \in Int, IsBin(sessions, step, o)
        PROVE  {u \in inside : bin(u) = o} = OfBin(frame, sessions, step, o)
    <2>1. ASSUME NEW u \in inside, bin(u) = o PROVE u \in OfBin(frame, sessions, step, o)
      BY <1>1, <2>1 DEF OfBin
    <2>2. ASSUME NEW u \in OfBin(frame, sessions, step, o) PROVE u \in inside /\ bin(u) = o
      <3>1. u \in inside BY <1>2, <1>3
      <3>2. o <= u /\ u < BinEnd(o, step, sessions) BY DEF OfBin
      <3>3. o = bin(u) BY <1>1, <1>3, <3>1, <3>2
      <3> QED BY <3>1, <3>3
    <2> HIDE DEF inside, bin
    <2> QED BY <2>1, <2>2
  <1>4. {bin(t) : t \in inside} = opens
    <2>1. ASSUME NEW t \in inside PROVE bin(t) \in opens
      <3>1. bin(t) \in Int /\ IsBin(sessions, step, bin(t)) BY <1>1
      <3>2. t \in OfBin(frame, sessions, step, bin(t)) BY <1>1 DEF OfBin
      <3> HIDE DEF bin
      <3> QED BY <3>1, <3>2
    <2>2. ASSUME NEW o \in opens PROVE \E t \in inside : bin(t) = o
      <3>1. PICK t \in OfBin(frame, sessions, step, o) : TRUE OBVIOUS
      <3>2. t \in {u \in inside : bin(u) = o} BY <1>3, <3>1
      <3> QED BY <3>2
    <2> HIDE DEF inside, bin, opens
    <2> QED BY <2>1, <2>2
  <1>5. ResampleSessions(frame, step, sessions)
          = [o \in {bin(t) : t \in inside} |-> UNION {frame[t] : t \in {u \in inside : bin(u) = o}}]
    BY DEF ResampleSessions
  <1>6. \A o \in opens : o \in Int /\ IsBin(sessions, step, o) OBVIOUS
  <1> HIDE DEF inside, bin, opens
  <1>7. [o \in {bin(t) : t \in inside} |-> UNION {frame[t] : t \in {u \in inside : bin(u) = o}}]
          = [o \in opens |-> UNION {frame[t] : t \in OfBin(frame, sessions, step, o)}]
    BY <1>3, <1>4, <1>6
  <1> QED BY <1>5, <1>7 DEF opens, Rebinned

\* A candle is closed when its bin ends by then.
LEMMA ClosedAre ==
  ASSUME NEW sessions, Calendar(sessions), NEW step \in Nat \ {0}, NEW asOf \in Int,
         NEW frame, OnBins(frame, step, sessions)
  PROVE  ClosedOnly(frame, step, asOf, sessions) = ClosedPart(frame, step, asOf, sessions)
  <1>1. CASE sessions = Absent
    BY <1>1, BinFixed DEF ClosedOnly, Restricted, ClosedPart
  <1>2. CASE sessions # Absent
    <2>1. IsCalendar(sessions) BY <1>2 DEF Calendar
    <2>2. ASSUME NEW t \in DOMAIN frame
          PROVE  /\ Begun(sessions, t) # Absent
                 /\ Least(t + step, Begun(sessions, t).close) = BinEnd(t, step, sessions)
      <3>1. PICK i \in DOMAIN sessions : In(sessions[i], t) BY <1>2 DEF IsBin, OnBins
      <3>2. t \in Int BY DEF OnBins
      <3> QED BY <1>2, <2>1, <3>1, <3>2, BinIn, InBegun
    <2> DEFINE begun(t) == IF sessions = Absent THEN Absent ELSE Begun(sessions, t)
               ends(t) == IF begun(t) = Absent THEN t + step ELSE Least(t + step, begun(t).close)
    <2>3. \A t \in DOMAIN frame : ends(t) = BinEnd(t, step, sessions) BY <1>2, <2>2
    <2>4. ClosedOnly(frame, step, asOf, sessions)
            = Restricted(frame, {t \in DOMAIN frame : ends(t) <= asOf})
      BY DEF ClosedOnly
    <2> HIDE DEF ends
    <2>5. {t \in DOMAIN frame : ends(t) <= asOf}
            = {u \in DOMAIN frame : BinEnd(u, step, sessions) <= asOf}
      BY <2>3
    <2> QED BY <2>4, <2>5 DEF Restricted, ClosedPart
  <1> QED BY <1>1, <1>2


-----------------------------------------------------------------------------
\* What a fetched chunk holds

TradedOf(m, opens, closes) == {t \in m.traded : opens <= t /\ t < closes}

\* A frame with every candle of a base timeframe that traded between two times, and no other.
WholeBins(m, base, from, to) ==
    {t \in Int : /\ IsBin(m.sessions, base, t) /\ from <= t /\ BinEnd(t, base, m.sessions) <= to
                 /\ TradedOf(m, t, BinEnd(t, base, m.sessions)) # {}}
Whole(m, base, from, to, frame) ==
    frame = [t \in WholeBins(m, base, from, to) |-> TradedOf(m, t, BinEnd(t, base, m.sessions))]

Market(m) ==
    /\ Calendar(m.sessions) /\ m.delay \in Nat /\ m.opens \in 0..ClockMax
    /\ m.traded \subseteq Nat /\ m.daily \in BOOLEAN

LEMMA MarketsAreGood == \A m \in Markets : Market(m)
  BY CandleServiceAssumption DEF Market, Calendar

\* The timeframes candles are made from.
IsBase(m, base) == base \in Timeframes /\ (m.sessions = Absent \/ base \in {1, Day})

LEMMA BasesAre ==
  ASSUME NEW step \in Timeframes
  PROVE  /\ IsBase(market, BaseTimeframe(step))
         /\ BaseTimeframe(step) \in Nat \ {0}
         /\ market.sessions = Absent \/ step = Day => BaseTimeframe(step) = step
         /\ ~(market.sessions = Absent \/ step = Day) => BaseTimeframe(step) = 1
  BY Steps DEF IsBase, BaseTimeframe

\* Bins of one time are the times of the sessions, bins of a day the sessions.
LEMMA BaseBins ==
  ASSUME NEW sessions, sessions # Absent, IsCalendar(sessions), NEW t \in Int
  PROVE  /\ IsBin(sessions, 1, t) <=> \E i \in DOMAIN sessions : In(sessions[i], t)
         /\ IsBin(sessions, 1, t) => BinEnd(t, 1, sessions) = t + 1
         /\ IsBin(sessions, Day, t) <=> \E i \in DOMAIN sessions : t = sessions[i].open
         /\ \A i \in DOMAIN sessions :
              t = sessions[i].open => BinEnd(t, Day, sessions) = sessions[i].close
  <1>1. Day \in Nat \ {0} BY Steps
  <1>2. IsBin(sessions, 1, t) <=> \E i \in DOMAIN sessions : In(sessions[i], t)
    <2>1. ASSUME NEW i \in DOMAIN sessions PROVE (t - sessions[i].open) % 1 = 0
      <3>1. t - sessions[i].open \in Int BY SessionType
      <3> QED BY <3>1, Ones
    <2> QED BY <2>1 DEF IsBin
  <1>3. ASSUME IsBin(sessions, 1, t) PROVE BinEnd(t, 1, sessions) = t + 1
    <2>1. PICK i \in DOMAIN sessions : In(sessions[i], t) BY <1>2, <1>3
    <2>0. 1 \in Nat \ {0} OBVIOUS
    <2>2. BinEnd(t, 1, sessions) = Least(t + 1, sessions[i].close) BY <2>0, <2>1, BinIn
    <2>3. sessions[i].close \in Int /\ t < sessions[i].close BY <2>1, SessionType DEF In
    <2> QED BY <2>2, <2>3 DEF Least
  <1>4. ASSUME NEW i \in DOMAIN sessions
        PROVE  sessions[i].close <= sessions[i].open + Day
    <2>1. sessions[i].open \in Int /\ sessions[i].close \in Int BY SessionType
    <2>2. sessions[i].close <= (sessions[i].open \div Day) * Day + Day BY DEF IsCalendar
    <2>3. (sessions[i].open \div Day) * Day \in Int /\ (sessions[i].open \div Day) * Day <= sessions[i].open
      BY <1>1, <2>1, Floors
    <2> QED BY <1>1, <2>1, <2>2, <2>3
  <1>5. ASSUME NEW i \in DOMAIN sessions, t = sessions[i].open
        PROVE  IsBin(sessions, Day, t) /\ BinEnd(t, Day, sessions) = sessions[i].close
    <2>1. sessions[i].open \in Int /\ sessions[i].close \in Int /\ sessions[i].open < sessions[i].close
      BY SessionType
    <2>2. In(sessions[i], t) BY <1>5, <2>1 DEF In
    <2>3. 0 % Day = 0 /\ t - sessions[i].open = 0 BY <1>1, <1>5, <2>1, WholeTimes
    <2>4. IsBin(sessions, Day, t) BY <1>1, <2>2, <2>3, BinIn
    <2>5. BinEnd(t, Day, sessions) = Least(t + Day, sessions[i].close) BY <1>1, <2>2, BinIn
    <2>6. Least(t + Day, sessions[i].close) = sessions[i].close
      BY <1>1, <1>4, <1>5, <2>1 DEF Least
    <2> QED BY <2>4, <2>5, <2>6
  <1>6. ASSUME IsBin(sessions, Day, t) PROVE \E i \in DOMAIN sessions : t = sessions[i].open
    <2>1. PICK i \in DOMAIN sessions : In(sessions[i], t) /\ (t - sessions[i].open) % Day = 0
      BY <1>6 DEF IsBin
    <2>2. sessions[i].open \in Int /\ sessions[i].close \in Int BY SessionType
    <2>3. PICK gone \in Int : gone = t - sessions[i].open /\ gone % Day = 0 /\ 0 <= gone
      BY <2>1, <2>2 DEF In
    <2>4. gone < Day BY <1>1, <1>4, <2>1, <2>2, <2>3 DEF In
    <2>5. 0 % Day = 0 /\ 0 \in Int BY <1>1, WholeTimes
    <2>6. 0 < gone => 0 + Day <= gone BY <1>1, <2>3, <2>5, Multiples
    <2>7. gone = 0 BY <1>1, <2>3, <2>4, <2>6
    <2> QED BY <2>2, <2>3, <2>7
  <1> QED BY <1>2, <1>3, <1>5, <1>6

\* The frame that a source answers with, before it is put into sessions.
Answer(base, from, to) ==
    LET bins == Served(base, from, to)
    IN  [t \in {b.opens : b \in bins} |-> Traded(t, (CHOOSE b \in bins : b.opens = t).closes)]

LEMMA TradedIs == \A a, b : Traded(a, b) = TradedOf(market, a, b)
  BY DEF Traded, TradedOf

\* The bins that an answer is made of: no two open at once.
Apart(bins) ==
    /\ \A b \in bins : b.opens \in Int /\ b.closes \in Int /\ b.opens < b.closes
    /\ \A b, c \in bins : b.opens = c.opens => b.closes = c.closes
SourceHas(base, from, to) ==
    {b \in SourceBins(base) : /\ from <= b.opens /\ b.closes <= to
                              /\ TradedOf(market, b.opens, b.closes) # {}}

LEMMA AnswerIs ==
  ASSUME NEW base, NEW from \in Int, NEW to \in Int, to <= clock - market.delay, clock - market.delay \in Int,
         Apart(SourceBins(base))
  PROVE  /\ DOMAIN Answer(base, from, to) = {b.opens : b \in SourceHas(base, from, to)}
         /\ \A b \in SourceHas(base, from, to) :
                Answer(base, from, to)[b.opens] = TradedOf(market, b.opens, b.closes)
  <1> DEFINE bins == SourceHas(base, from, to)
             served == Served(base, from, to)
  <1>1. Least(to, clock - market.delay) = to BY DEF Least
  <1>2. served = bins
    <2>1. \A b \in SourceBins(base) : b.closes <= to => b.opens < to
      BY DEF Apart
    <2> QED BY <1>1, <2>1, TradedIs DEF Served, SourceHas
  <1>3. ASSUME NEW b \in bins PROVE (CHOOSE c \in bins : c.opens = b.opens).closes = b.closes
    <2>1. PICK d \in bins : d = (CHOOSE c \in bins : c.opens = b.opens) /\ d.opens = b.opens OBVIOUS
    <2> QED BY <2>1 DEF Apart, SourceHas
  <1>4. Answer(base, from, to)
          = [t \in {b.opens : b \in bins} |-> Traded(t, (CHOOSE b \in bins : b.opens = t).closes)]
    BY <1>2 DEF Answer
  <1> HIDE DEF bins, served
  <1>5. ASSUME NEW b \in bins
        PROVE  Answer(base, from, to)[b.opens] = TradedOf(market, b.opens, b.closes)
    <2>1. b.opens \in {c.opens : c \in bins} OBVIOUS
    <2>2. Answer(base, from, to)[b.opens] = Traded(b.opens, (CHOOSE c \in bins : c.opens = b.opens).closes)
      BY <1>4, <2>1
    <2> QED BY <1>3, <2>2, TradedIs
  <1>6. DOMAIN Answer(base, from, to) = {b.opens : b \in bins} BY <1>4
  <1> QED BY <1>5, <1>6 DEF bins


\* Nothing trades in a bin before time zero.
LEMMA BinsOfTrades ==
  ASSUME NEW step \in Nat \ {0}, NEW t \in Int, t % step = 0, NEW x \in Nat, x < t + step
  PROVE  0 <= t
  <1>1. SUFFICES ASSUME t < 0 PROVE FALSE OBVIOUS
  <1>2. 0 % step = 0 /\ 0 \in Int BY WholeTimes
  <1>3. t + step <= 0 BY <1>1, <1>2, Multiples
  <1> QED BY <1>3

\* What is fetched is every candle of the period that traded, whenever it is fetched.
LEMMA FetchedIsWhole ==
  ASSUME market \in Markets, NEW base, IsBase(market, base), clock \in Int, clock <= ClockMax,
         NEW period, period.start \in Int, period.end \in Int, period.end <= clock - market.delay
  PROVE  Whole(market, base, period.start, period.end, Fetched(base, period))
  <1> DEFINE ss == market.sessions
             from == period.start
             to == period.end
             answer == Answer(base, from, to)
             whole == WholeBins(market, base, from, to)
  <1>1. Market(market) BY MarketsAreGood
  <1>2. /\ Calendar(ss) /\ market.delay \in Nat /\ market.traded \subseteq Nat /\ ClockMax \in Nat
    BY <1>1, CandleServiceAssumption DEF Market
  <1>3. base \in Nat \ {0} /\ Day \in Nat \ {0} BY Steps DEF IsBase
  <1>4. clock - market.delay \in Int /\ to \in Int /\ from \in Int /\ to <= ClockMax BY <1>2, CandleServiceAssumption
  <1>5. Fetched(base, period)
          = ClosedOnly(IF ss = Absent THEN answer ELSE ResampleSessions(answer, base, ss), base, to, ss)
    BY DEF Fetched, Answer
  <1>6. CASE ss = Absent
    <2> DEFINE src == SourceBins(base)
    <2>1. src = {[opens |-> t, closes |-> t + base] : t \in {u \in 0..ClockMax : u % base = 0}}
      BY <1>6 DEF SourceBins
    <2>2. \A b \in src : b.opens \in Int /\ b.closes = b.opens + base /\ b.opens < b.closes /\ b.closes \in Int
      BY <1>2, <1>3, <2>1
    <2>3. \A b, c \in src : b.opens = c.opens => b.closes = c.closes BY <2>2
    <2> DEFINE bins == SourceHas(base, from, to)
    <2>4. /\ DOMAIN answer = {b.opens : b \in bins}
          /\ \A b \in bins : answer[b.opens] = TradedOf(market, b.opens, b.closes)
      <3>1. Apart(src)
        <4> HIDE DEF src
        <4> QED BY <2>2, <2>3 DEF Apart
      <3>2. clock - market.delay \in Int /\ to <= clock - market.delay BY <1>4
      <3> QED BY <1>4, <3>1, <3>2, AnswerIs
    <2>5. \A t \in Int : BinEnd(t, base, ss) = t + base /\ (IsBin(ss, base, t) <=> t % base = 0)
      BY <1>6, BinFixed
    <2>6. ASSUME NEW t \in whole PROVE \E b \in bins : b.opens = t /\ b.closes = BinEnd(t, base, ss)
      <3>1. t \in Int /\ t % base = 0 /\ from <= t /\ t + base <= to /\ TradedOf(market, t, t + base) # {}
        BY <2>5 DEF WholeBins
      <3>2. PICK x \in market.traded : t <= x /\ x < t + base BY <3>1 DEF TradedOf
      <3>3. 0 <= t BY <1>2, <1>3, <3>1, <3>2, BinsOfTrades
      <3>4. t \in 0..ClockMax BY <1>2, <1>3, <1>4, <3>1, <3>3
      <3>5. [opens |-> t, closes |-> t + base] \in src BY <2>1, <3>1, <3>4
      <3>6. [opens |-> t, closes |-> t + base] \in bins BY <3>1, <3>5 DEF SourceHas
      <3> HIDE DEF bins
      <3> QED BY <2>5, <3>1, <3>6
    <2>7. ASSUME NEW b \in bins PROVE b.opens \in whole /\ b.closes = BinEnd(b.opens, base, ss)
      <3>1. b.opens \in Int /\ b.closes = b.opens + base /\ b.opens % base = 0
        BY <2>1, <2>2 DEF SourceHas
      <3>2. b.closes = BinEnd(b.opens, base, ss) /\ IsBin(ss, base, b.opens) BY <2>5, <3>1
      <3>3. from <= b.opens /\ b.closes <= to /\ TradedOf(market, b.opens, b.closes) # {}
        BY DEF SourceHas
      <3> QED BY <3>1, <3>2, <3>3 DEF WholeBins
    <2> HIDE DEF bins, whole, answer, src
    <2>8. DOMAIN answer = whole BY <2>4, <2>6, <2>7
    <2>9. \A t \in whole : answer[t] = TradedOf(market, t, BinEnd(t, base, ss)) BY <2>4, <2>6
    <2>10. \A t \in whole : t \in Int /\ IsBin(ss, base, t) /\ BinEnd(t, base, ss) <= to
      BY DEF whole, WholeBins
    <2>11. Fetched(base, period)
             = [t \in {u \in DOMAIN answer : BinEnd(u, base, ss) <= to} |-> answer[t]]
      <3>1. Fetched(base, period) = ClosedOnly(answer, base, to, ss) BY <1>5, <1>6
      <3>2. OnBins(answer, base, ss) BY <2>8, <2>10 DEF OnBins
      <3>3. ClosedOnly(answer, base, to, ss) = ClosedPart(answer, base, to, ss)
        BY <1>2, <1>3, <1>4, <3>2, ClosedAre
      <3> QED BY <3>1, <3>3 DEF ClosedPart
    <2>12. {u \in DOMAIN answer : BinEnd(u, base, ss) <= to} = whole BY <2>8, <2>10
    <2> QED BY <2>9, <2>11, <2>12 DEF Whole, whole
  <1>7. CASE ss # Absent
    <2>1. IsCalendar(ss) BY <1>2, <1>7 DEF Calendar
    <2> DEFINE src == SourceBins(base)
               bins == SourceHas(base, from, to)
               all == ResampleSessions(answer, base, ss)
    <2>2. base \in {1, Day} BY <1>7 DEF IsBase
    \* The bins of the source that are in sessions are the bins of the calendar.
    <2>3. /\ \A b \in src : b.opens \in Int /\ b.closes \in Int /\ b.opens < b.closes
          /\ \A b, c \in src : b.opens = c.opens => b.closes = c.closes
          /\ \A b \in src : \A o \in Int : /\ IsBin(ss, base, o) /\ o <= b.opens /\ b.opens < BinEnd(o, base, ss)
                                          => o = b.opens /\ b.closes = BinEnd(o, base, ss)
          /\ \A t \in Int : /\ IsBin(ss, base, t) /\ BinEnd(t, base, ss) <= to
                            => \E b \in src : b.opens = t /\ b.closes = BinEnd(t, base, ss)
      <3>1. CASE base = Day
        <4>1. src = {[opens |-> s.open, closes |-> s.close] : s \in ToSet(ss)}
          BY <1>7, <3>1 DEF SourceBins
        <4>2. \A b \in src : \E i \in DOMAIN ss : b.opens = ss[i].open /\ b.closes = ss[i].close
          <5>1. \A s \in ToSet(ss) : \E i \in DOMAIN ss : s = ss[i] BY <2>1, SessionType
          <5> HIDE DEF src
          <5> QED BY <4>1, <5>1
        <4>3. ASSUME NEW b \in src
              PROVE  /\ b.opens \in Int /\ b.closes \in Int /\ b.opens < b.closes
                     /\ IsBin(ss, base, b.opens) /\ b.closes = BinEnd(b.opens, base, ss)
          <5>1. PICK i \in DOMAIN ss : b.opens = ss[i].open /\ b.closes = ss[i].close BY <4>2
          <5>2. ss[i].open \in Int /\ ss[i].close \in Int /\ ss[i].open < ss[i].close BY <2>1, SessionType
          <5> QED BY <1>7, <2>1, <3>1, <5>1, <5>2, BaseBins
        <4>4. ASSUME NEW b \in src, NEW o \in Int,
                     IsBin(ss, base, o) /\ o <= b.opens /\ b.opens < BinEnd(o, base, ss)
              PROVE  o = b.opens /\ b.closes = BinEnd(o, base, ss)
          <5>1. b.opens \in Int /\ IsBin(ss, base, b.opens) /\ b.closes = BinEnd(b.opens, base, ss) BY <4>3
          <5>2. BinEnd(o, base, ss) \in Int BY <1>2, <1>3, <4>4, BinEndType
          <5>3. o < b.opens => BinEnd(o, base, ss) <= b.opens BY <1>2, <1>3, <4>4, <5>1, BinsInTurn
          <5> QED BY <4>4, <5>1, <5>2, <5>3
        <4>5. ASSUME NEW t \in Int, IsBin(ss, base, t)
              PROVE  \E b \in src : b.opens = t /\ b.closes = BinEnd(t, base, ss)
          <5>1. PICK i \in DOMAIN ss : t = ss[i].open BY <1>7, <2>1, <3>1, <4>5, BaseBins
          <5>2. BinEnd(t, base, ss) = ss[i].close BY <1>7, <2>1, <3>1, <5>1, BaseBins
          <5>3. ss[i] \in ToSet(ss) BY <2>1, SessionType
          <5>4. [opens |-> ss[i].open, closes |-> ss[i].close] \in src BY <4>1, <5>3
          <5> QED BY <5>1, <5>2, <5>4
        <4> HIDE DEF src
        <4> QED BY <4>3, <4>4, <4>5
      <3>2. CASE base # Day
        <4>1. base = 1 BY <2>2, <3>2
        <4>2. src = {[opens |-> t, closes |-> t + 1] : t \in {u \in 0..ClockMax : u % 1 = 0}}
          BY <3>2, <4>1 DEF SourceBins
        <4>3. \A b \in src : b.opens \in Int /\ b.closes = b.opens + 1 BY <1>2, <4>2
        <4>4. ASSUME NEW b \in src, NEW o \in Int,
                     IsBin(ss, base, o) /\ o <= b.opens /\ b.opens < BinEnd(o, base, ss)
              PROVE  o = b.opens /\ b.closes = BinEnd(o, base, ss)
          <5>1. BinEnd(o, base, ss) = o + 1 BY <1>7, <2>1, <4>1, <4>4, BaseBins
          <5> QED BY <4>3, <4>4, <5>1
        <4>5. ASSUME NEW t \in Int, IsBin(ss, base, t), BinEnd(t, base, ss) <= to
              PROVE  \E b \in src : b.opens = t /\ b.closes = BinEnd(t, base, ss)
          <5>1. BinEnd(t, base, ss) = t + 1 BY <1>7, <2>1, <4>1, <4>5, BaseBins
          <5>2. PICK i \in DOMAIN ss : In(ss[i], t) BY <1>7, <2>1, <4>1, <4>5, BaseBins
          <5>3. 0 <= t BY <2>1, <5>2, SessionType DEF In
          <5>4. t \in 0..ClockMax /\ t % 1 = 0 BY <1>2, <1>4, <4>5, <5>1, <5>3, Ones
          <5>5. [opens |-> t, closes |-> t + 1] \in src BY <4>2, <5>4
          <5> QED BY <5>1, <5>5
        <4> HIDE DEF src
        <4> QED BY <4>3, <4>4, <4>5
      <3> QED BY <3>1, <3>2
    <2> HIDE DEF src
    <2>4. /\ DOMAIN answer = {b.opens : b \in bins}
          /\ \A b \in bins : answer[b.opens] = TradedOf(market, b.opens, b.closes)
      <3>1. Apart(src) BY <2>3 DEF Apart
      <3>2. clock - market.delay \in Int /\ to <= clock - market.delay BY <1>4
      <3> QED BY <1>4, <3>1, <3>2, AnswerIs DEF src
    <2>5. \A b \in bins : b \in src /\ from <= b.opens /\ b.closes <= to /\ b.opens \in Int
                          /\ TradedOf(market, b.opens, b.closes) # {}
      BY <2>3 DEF SourceHas, src
    <2>6. \A b \in src : from <= b.opens /\ b.closes <= to /\ TradedOf(market, b.opens, b.closes) # {} => b \in bins
      BY DEF SourceHas, src
    <2> HIDE DEF bins, answer
    <2>7. DOMAIN answer \subseteq Int BY <2>4, <2>5
    <2>8. ASSUME NEW o \in Int, IsBin(ss, base, o), NEW t \in OfBin(answer, ss, base, o)
          PROVE  /\ t = o /\ from <= o /\ BinEnd(o, base, ss) <= to
                 /\ answer[o] = TradedOf(market, o, BinEnd(o, base, ss)) /\ answer[o] # {}
      <3>1. t \in DOMAIN answer /\ o <= t /\ t < BinEnd(o, base, ss) BY DEF OfBin
      <3>2. PICK b \in bins : b.opens = t BY <2>4, <3>1
      <3>3. o = b.opens /\ b.closes = BinEnd(o, base, ss) BY <2>3, <2>5, <2>8, <3>1, <3>2
      <3> QED BY <2>4, <2>5, <3>2, <3>3
    <2>9. ASSUME NEW o \in whole
          PROVE  /\ o \in Int /\ IsBin(ss, base, o) /\ BinEnd(o, base, ss) <= to
                 /\ OfBin(answer, ss, base, o) = {o}
                 /\ answer[o] = TradedOf(market, o, BinEnd(o, base, ss))
      <3>1. /\ o \in Int /\ IsBin(ss, base, o) /\ from <= o /\ BinEnd(o, base, ss) <= to
            /\ TradedOf(market, o, BinEnd(o, base, ss)) # {} BY DEF WholeBins
      <3>2. PICK b \in src : b.opens = o /\ b.closes = BinEnd(o, base, ss) BY <2>3, <3>1
      <3>3. b \in bins BY <2>6, <3>1, <3>2
      <3>4. o \in DOMAIN answer BY <2>4, <3>2, <3>3
      <3>5. o < BinEnd(o, base, ss) BY <1>2, <1>3, <3>1, BinEndType
      <3>6. o \in OfBin(answer, ss, base, o) BY <3>1, <3>4, <3>5 DEF OfBin
      <3> QED BY <2>8, <3>1, <3>6
    <2>10. ASSUME NEW o \in Int, IsBin(ss, base, o), OfBin(answer, ss, base, o) # {} PROVE o \in whole
      <3>1. PICK t \in OfBin(answer, ss, base, o) : TRUE BY <2>10
      <3>2. /\ from <= o /\ BinEnd(o, base, ss) <= to
            /\ answer[o] = TradedOf(market, o, BinEnd(o, base, ss)) /\ answer[o] # {} BY <2>8, <2>10, <3>1
      <3> QED BY <2>10, <3>2 DEF WholeBins
    <2> DEFINE opens == {x \in Int : IsBin(ss, base, x) /\ OfBin(answer, ss, base, x) # {}}
    <2>11. all = [o \in opens |-> UNION {answer[t] : t \in OfBin(answer, ss, base, o)}]
      <3>1. all = Rebinned(answer, base, ss) BY <1>3, <1>7, <2>1, <2>7, ResampledAre
      <3> QED BY <3>1 DEF Rebinned
    <2>12. opens = whole
      <3> HIDE DEF whole
      <3> QED BY <2>9, <2>10
    <2>13. \A o \in whole : UNION {answer[t] : t \in OfBin(answer, ss, base, o)}
                              = TradedOf(market, o, BinEnd(o, base, ss))
      <3> HIDE DEF whole
      <3> QED BY <2>9
    <2> HIDE DEF whole, opens, all
    <2>14. all = [o \in whole |-> TradedOf(market, o, BinEnd(o, base, ss))] BY <2>11, <2>12, <2>13
    <2>15. Fetched(base, period) = [t \in {u \in DOMAIN all : BinEnd(u, base, ss) <= to} |-> all[t]]
      <3>1. Fetched(base, period) = ClosedOnly(all, base, to, ss) BY <1>5, <1>7 DEF all
      <3>2. OnBins(all, base, ss) BY <2>9, <2>14 DEF OnBins
      <3>3. ClosedOnly(all, base, to, ss) = ClosedPart(all, base, to, ss)
        BY <1>2, <1>3, <1>4, <3>2, ClosedAre
      <3> QED BY <3>1, <3>3 DEF ClosedPart
    <2>16. {u \in DOMAIN all : BinEnd(u, base, ss) <= to} = whole BY <2>9, <2>14
    <2>17. Fetched(base, period) = [t \in whole |-> TradedOf(market, t, BinEnd(t, base, ss))]
      BY <2>14, <2>15, <2>16
    <2> QED BY <2>17 DEF Whole, whole
  <1> QED BY <1>6, <1>7


-----------------------------------------------------------------------------
\* The chunks that are planned

SpanLength(yearly) == IF yearly THEN Year ELSE Month
DayOf(t) == (t \div Day) * Day

LEMMA SpanLengths ==
  ASSUME NEW yearly
  PROVE  SpanLength(yearly) \in Nat \ {0} /\ SpanLength(yearly) % Day = 0
  BY BinsAssumption DEF SpanLength

LEMMA SpansAre ==
  ASSUME NEW yearly, NEW t \in Int
  PROVE  /\ SpanOf(t, yearly).start \in Int
         /\ SpanOf(t, yearly).next = SpanOf(t, yearly).start + SpanLength(yearly)
         /\ SpanOf(t, yearly).start <= t /\ t < SpanOf(t, yearly).next
         /\ SpanOf(t, yearly).start % SpanLength(yearly) = 0
         /\ SpanOf(t, yearly).start % Day = 0
  <1>1. SpanLength(yearly) \in Nat \ {0} /\ SpanLength(yearly) % Day = 0 /\ Day \in Nat \ {0}
    BY SpanLengths, Steps
  <1> DEFINE length == SpanLength(yearly)
             start == (t \div length) * length
  <1>2. SpanOf(t, yearly) = [start |-> start, next |-> start + length] BY DEF SpanOf, SpanLength
  <1>3. start \in Int /\ start % length = 0 /\ start <= t /\ t < start + length BY <1>1, Floors
  <1> HIDE DEF start, length
  <1>4. start % Day = 0 BY <1>1, <1>3, MultiplesOfPart DEF length
  <1> QED BY <1>2, <1>3, <1>4 DEF length

LEMMA Days ==
  ASSUME NEW t \in Int
  PROVE  /\ DayOf(t) \in Int /\ DayOf(t) % Day = 0 /\ DayOf(t) <= t /\ t < DayOf(t) + Day
         /\ \A a \in Int : a % Day = 0 /\ a <= t => a <= DayOf(t)
         /\ \A a \in Int : a % Day = 0 /\ t < a => DayOf(t) + Day <= a
  <1>1. Day \in Nat \ {0} BY Steps
  <1>2. DayOf(t) \in Int /\ DayOf(t) % Day = 0 /\ DayOf(t) <= t /\ t < DayOf(t) + Day
    BY <1>1, Floors DEF DayOf
  <1>3. ASSUME NEW a \in Int, a % Day = 0, a <= t PROVE a <= DayOf(t)
    <2>1. DayOf(t) < a => DayOf(t) + Day <= a BY <1>1, <1>2, <1>3, Multiples
    <2> QED BY <1>1, <1>2, <1>3, <2>1
  <1>4. ASSUME NEW a \in Int, a % Day = 0, t < a PROVE DayOf(t) + Day <= a
    BY <1>1, <1>2, <1>4, Multiples
  <1> QED BY <1>2, <1>3, <1>4

\* The parts of a plan.
ClosedSpans(start, end, now, yearly) ==
    {[kind |-> "closed", start |-> SpanOf(t, yearly).start, end |-> SpanOf(t, yearly).next,
      label |-> <<"span", SpanOf(t, yearly).start>>] :
        t \in SpanOf(start, yearly).start..Least(end, SpanOf(DayOf(now), yearly).start) - 1}
DaysBefore(start, end, now, yearly) ==
    {[kind |-> "current", start |-> d, end |-> d + Day, label |-> <<"day", d>>] :
        d \in {x \in Most(DayOf(start), SpanOf(DayOf(now), yearly).start)..Least(end, DayOf(now)) - 1 :
                  x % Day = 0}}
AllBefore(now, yearly) ==
    [kind |-> "current", start |-> SpanOf(DayOf(now), yearly).start, end |-> DayOf(now),
     label |-> <<"days", SpanOf(DayOf(now), yearly).start, DayOf(now)>>]
Today(now) == [kind |-> "live", start |-> DayOf(now), end |-> now, label |-> <<"live", DayOf(now)>>]

LEMMA PlanIs ==
  ASSUME NEW start, NEW end, NEW now, NEW yearly, NEW daily, NEW p
  PROVE  p \in PlanPeriods(start, end, now, yearly, daily) <=>
            \/ p \in ClosedSpans(start, end, now, yearly)
            \/ /\ start < DayOf(now) /\ end > SpanOf(DayOf(now), yearly).start
               /\ \/ daily /\ p \in DaysBefore(start, end, now, yearly)
                  \/ ~daily /\ SpanOf(DayOf(now), yearly).start < DayOf(now) /\ p = AllBefore(now, yearly)
            \/ end > DayOf(now) /\ p = Today(now)
  <1> DEFINE today == (now \div Day) * Day
             current == SpanOf(today, yearly).start
             spans == {SpanOf(t, yearly) : t \in SpanOf(start, yearly).start..Least(end, current) - 1}
             days == {d \in Most((start \div Day) * Day, current)..Least(end, today) - 1 : d % Day = 0}
             closed == {[kind |-> "closed", start |-> s.start, end |-> s.next,
                         label |-> <<"span", s.start>>] : s \in spans}
             before ==
               IF ~(start < today /\ end > current) THEN {}
               ELSE IF daily
               THEN {[kind |-> "current", start |-> d, end |-> d + Day,
                      label |-> <<"day", d>>] : d \in days}
               ELSE IF current < today
               THEN {[kind |-> "current", start |-> current, end |-> today,
                      label |-> <<"days", current, today>>]}
               ELSE {}
             live == IF end > today
                       THEN {[kind |-> "live", start |-> today, end |-> now, label |-> <<"live", today>>]}
                       ELSE {}
  <1>1. PlanPeriods(start, end, now, yearly, daily) = closed \cup before \cup live BY DEF PlanPeriods
  <1>2. closed = ClosedSpans(start, end, now, yearly) BY DEF ClosedSpans, DayOf
  <1>3. p \in before <=> /\ start < DayOf(now) /\ end > SpanOf(DayOf(now), yearly).start
                         /\ \/ daily /\ p \in DaysBefore(start, end, now, yearly)
                            \/ ~daily /\ SpanOf(DayOf(now), yearly).start < DayOf(now) /\ p = AllBefore(now, yearly)
    BY DEF DaysBefore, AllBefore, DayOf
  <1>4. p \in live <=> end > DayOf(now) /\ p = Today(now) BY DEF Today, DayOf
  <1> HIDE DEF closed, before, live
  <1> QED BY <1>1, <1>2, <1>3, <1>4

\* What a chunk is, by its label.
IsPeriod(yearly, p) ==
    /\ p.start \in Int /\ p.end \in Int /\ p.start <= p.end /\ p.start % Day = 0
    /\ \/ p.kind = "closed" /\ p.label = <<"span", p.start>> /\ p.end = p.start + SpanLength(yearly)
       \/ p.kind = "current" /\ p.label = <<"day", p.start>> /\ p.end = p.start + Day
       \/ p.kind = "current" /\ p.label = <<"days", p.start, p.end>> /\ p.end % Day = 0
       \/ p.kind = "live" /\ p.label = <<"live", p.start>> /\ p.end < p.start + Day

LEMMA PlannedArePeriods ==
  ASSUME NEW start \in Int, NEW end \in Int, NEW now \in Int, NEW yearly, NEW daily,
         NEW p \in PlanPeriods(start, end, now, yearly, daily)
  PROVE  /\ IsPeriod(yearly, p) /\ p.end <= now
         /\ p.kind = "live" => p.start = DayOf(now) /\ p.end = now /\ end > DayOf(now)
         /\ p.kind # "live" => p.end <= DayOf(now) /\ p.end % Day = 0
  <1> DEFINE today == DayOf(now)
             current == SpanOf(today, yearly).start
  <1>1. /\ Day \in Nat \ {0} /\ SpanLength(yearly) \in Nat \ {0} /\ SpanLength(yearly) % Day = 0
    BY Steps, SpanLengths
  <1>2. today \in Int /\ today % Day = 0 /\ today <= now /\ now < today + Day BY Days
  <1> HIDE DEF today
  <1>3. /\ current \in Int /\ current <= today /\ current % SpanLength(yearly) = 0 /\ current % Day = 0
    BY <1>2, SpansAre
  <1> HIDE DEF current
  <1>4. CASE p \in ClosedSpans(start, end, now, yearly)
    <2>1. PICK t \in SpanOf(start, yearly).start..Least(end, current) - 1 :
            p = [kind |-> "closed", start |-> SpanOf(t, yearly).start, end |-> SpanOf(t, yearly).next,
                 label |-> <<"span", SpanOf(t, yearly).start>>]
      BY <1>4 DEF ClosedSpans, current, today
    <2>2. t \in Int /\ t < current BY <1>3, <2>1, SpansAre DEF Least
    <2>3. /\ SpanOf(t, yearly).start \in Int
          /\ SpanOf(t, yearly).next = SpanOf(t, yearly).start + SpanLength(yearly)
          /\ SpanOf(t, yearly).start <= t
          /\ SpanOf(t, yearly).start % SpanLength(yearly) = 0
          /\ SpanOf(t, yearly).start % Day = 0
      BY <2>2, SpansAre
    <2>4. SpanOf(t, yearly).start + SpanLength(yearly) <= current BY <1>1, <1>3, <2>2, <2>3, Multiples
    <2>5. (SpanOf(t, yearly).start + SpanLength(yearly)) % Day = 0 BY <1>1, <2>3, MultiplesAdd
    <2>6. PICK s \in Int : s = SpanOf(t, yearly).start BY <2>3
    <2>7. p = [kind |-> "closed", start |-> s, end |-> s + SpanLength(yearly), label |-> <<"span", s>>]
      BY <2>1, <2>3, <2>6
    <2>8. s + SpanLength(yearly) <= today /\ s % Day = 0 /\ s + SpanLength(yearly) \in Int
          /\ s <= s + SpanLength(yearly)
      BY <1>1, <1>2, <1>3, <2>3, <2>4, <2>6
    <2>9. IsPeriod(yearly, p) BY <2>6, <2>7, <2>8 DEF IsPeriod
    <2>10. p.end <= today /\ p.end % Day = 0 /\ p.kind # "live" /\ p.end <= now
      BY <1>2, <2>5, <2>6, <2>7, <2>8
    <2> QED BY <2>9, <2>10 DEF today
  <1>5. CASE p \in DaysBefore(start, end, now, yearly)
    <2>1. PICK d \in Most(DayOf(start), current)..Least(end, today) - 1 :
            d % Day = 0 /\ p = [kind |-> "current", start |-> d, end |-> d + Day, label |-> <<"day", d>>]
      BY <1>5 DEF DaysBefore, current, today
    <2>2. d \in Int /\ d < today BY <1>2, <1>3, <2>1, Days DEF Least, Most
    <2>3. d + Day <= today BY <1>1, <1>2, <2>1, <2>2, Multiples
    <2>4. Day % Day = 0 BY <1>1, WholeTimes
    <2>5. (d + Day) % Day = 0 BY <1>1, <2>1, <2>2, <2>4, MultiplesAdd
    <2>6. d + Day \in Int /\ d <= d + Day BY <1>1, <2>2
    <2>7. IsPeriod(yearly, p) BY <2>1, <2>2, <2>6 DEF IsPeriod
    <2>8. p.end <= today /\ p.end % Day = 0 /\ p.kind # "live" /\ p.end <= now
      BY <1>1, <1>2, <2>1, <2>2, <2>3, <2>5
    <2> QED BY <2>7, <2>8 DEF today
  <1>6. CASE current < today /\ p = AllBefore(now, yearly)
    <2>1. p = [kind |-> "current", start |-> current, end |-> today, label |-> <<"days", current, today>>]
      BY <1>6 DEF AllBefore, current, today
    <2>2. IsPeriod(yearly, p) BY <1>2, <1>3, <1>6, <2>1 DEF IsPeriod
    <2>3. p.end <= today /\ p.end % Day = 0 /\ p.kind # "live" /\ p.end <= now BY <1>2, <2>1
    <2> QED BY <2>2, <2>3 DEF today
  <1>7. CASE end > today /\ p = Today(now)
    <2>1. p = [kind |-> "live", start |-> today, end |-> now, label |-> <<"live", today>>]
      BY <1>7 DEF Today, today
    <2>2. IsPeriod(yearly, p) BY <1>2, <2>1 DEF IsPeriod
    <2> QED BY <1>7, <2>1, <2>2 DEF today
  <1> QED BY <1>4, <1>5, <1>6, <1>7, PlanIs DEF current, today

\* Chunks of one label are one, but the live one, which ends when it was planned.
LEMMA LabelsName ==
  ASSUME NEW yearly, NEW p, NEW q, IsPeriod(yearly, p), IsPeriod(yearly, q), p.label = q.label
  PROVE  p.kind = q.kind /\ p.start = q.start /\ (p.kind # "live" => p.end = q.end)
  <1>1. p.label[1] = q.label[1] /\ p.label[2] = q.label[2] OBVIOUS
  <1>2. p.label[2] = p.start /\ q.label[2] = q.start BY DEF IsPeriod
  <1>3. /\ p.label[1] \in {"span", "day", "days", "live"}
        /\ p.label[1] = "span" <=> p.kind = "closed"
        /\ p.label[1] \in {"day", "days"} <=> p.kind = "current"
        /\ p.label[1] = "live" <=> p.kind = "live"
    BY DEF IsPeriod
  <1>4. /\ q.label[1] = "span" <=> q.kind = "closed"
        /\ q.label[1] \in {"day", "days"} <=> q.kind = "current"
        /\ q.label[1] = "live" <=> q.kind = "live"
    BY DEF IsPeriod
  <1>5. p.label[1] = "span" => p.end = p.start + SpanLength(yearly) /\ q.end = q.start + SpanLength(yearly)
    BY <1>1 DEF IsPeriod
  <1>6. p.label[1] = "day" => p.end = p.start + Day /\ q.end = q.start + Day BY <1>1 DEF IsPeriod
  <1>7. p.label[1] = "days" => p.label[3] = p.end /\ q.label[3] = q.end BY <1>1 DEF IsPeriod
  <1> QED BY <1>1, <1>2, <1>3, <1>4, <1>5, <1>6, <1>7

\* Every day of a period is in a chunk as a whole, today in the live one.
LEMMA PlanCovers ==
  ASSUME NEW start \in Int, NEW end \in Int, NEW now \in Int, NEW yearly, NEW daily,
         NEW t \in Int, start <= t, t < end
  PROVE  LET plan == PlanPeriods(start, end, now, yearly, daily)
         IN  /\ t < DayOf(now) => \E p \in plan : /\ p.kind # "live" /\ p.start <= DayOf(t)
                                                  /\ DayOf(t) + Day <= p.end
             /\ DayOf(now) <= t => \E p \in plan : p.kind = "live" /\ p.start = DayOf(now)
  <1> DEFINE plan == PlanPeriods(start, end, now, yearly, daily)
             today == DayOf(now)
             current == SpanOf(today, yearly).start
  <1>1. /\ Day \in Nat \ {0} /\ SpanLength(yearly) \in Nat \ {0} /\ SpanLength(yearly) % Day = 0
    BY Steps, SpanLengths
  <1>2. today \in Int /\ today % Day = 0 /\ today <= now /\ now < today + Day BY Days
  <1> HIDE DEF today
  <1>3. /\ current \in Int /\ current <= today /\ current % SpanLength(yearly) = 0 /\ current % Day = 0
    BY <1>2, SpansAre
  <1> HIDE DEF current
  <1>4. /\ DayOf(t) \in Int /\ DayOf(t) % Day = 0 /\ DayOf(t) <= t /\ t < DayOf(t) + Day
        /\ \A a \in Int : a % Day = 0 /\ a <= t => a <= DayOf(t)
        /\ \A a \in Int : a % Day = 0 /\ t < a => DayOf(t) + Day <= a
    BY Days
  <1>5. CASE t < current
    <2> DEFINE p == [kind |-> "closed", start |-> SpanOf(t, yearly).start, end |-> SpanOf(t, yearly).next,
                     label |-> <<"span", SpanOf(t, yearly).start>>]
    <2>1. SpanOf(start, yearly).start \in Int /\ SpanOf(start, yearly).start <= start BY SpansAre
    <2>2. t \in SpanOf(start, yearly).start..Least(end, current) - 1 BY <1>3, <1>5, <2>1 DEF Least
    <2>3. p \in ClosedSpans(start, end, now, yearly) BY <2>2 DEF ClosedSpans, current, today
    <2>4. p \in plan BY <2>3, PlanIs
    <2>10. /\ SpanOf(t, yearly).start \in Int
           /\ SpanOf(t, yearly).next = SpanOf(t, yearly).start + SpanLength(yearly)
           /\ SpanOf(t, yearly).start <= t /\ t < SpanOf(t, yearly).next
           /\ SpanOf(t, yearly).start % Day = 0
      BY SpansAre
    <2>11. PICK s \in Int : s = SpanOf(t, yearly).start BY <2>10
    <2>12. SpanOf(t, yearly).next = s + SpanLength(yearly) BY <2>10, <2>11, Zenon
    <2>13. s <= t /\ t < s + SpanLength(yearly) BY <2>10, <2>11, <2>12, Zenon
    <2>5. /\ s = SpanOf(t, yearly).start /\ s <= t /\ t < s + SpanLength(yearly)
          /\ SpanOf(t, yearly).next = s + SpanLength(yearly) /\ s % Day = 0
      BY <2>10, <2>11, <2>12, <2>13, Zenon
    <2>14. SpanLength(yearly) \in Int BY <1>1
    <2>15. s \in Int /\ s % Day = 0 BY <2>5, <2>11
    <2>16. s + SpanLength(yearly) \in Int BY <2>14, <2>15
    <2>17. Day \in Nat \ {0} /\ SpanLength(yearly) % Day = 0 BY <1>1
    <2>18. (s + SpanLength(yearly)) % Day = 0 BY ONLY <2>14, <2>15, <2>17, MultiplesAdd
    <2>6. (s + SpanLength(yearly)) % Day = 0 /\ s + SpanLength(yearly) \in Int BY <2>16, <2>18
    <2>7. s <= DayOf(t) /\ DayOf(t) + Day <= s + SpanLength(yearly) BY <1>4, <2>5, <2>6
    <2>8. p.kind # "live" /\ p.start <= DayOf(t) /\ DayOf(t) + Day <= p.end BY <2>5, <2>7
    <2>9. t < today BY <1>2, <1>3, <1>5
    <2> HIDE DEF p, plan
    <2> QED BY <1>2, <2>4, <2>8, <2>9 DEF plan, today
  <1>6. CASE current <= t /\ t < today
    <2>1. start < today /\ end > current BY <1>2, <1>3, <1>6
    <2>2. CASE daily
      <3> DEFINE p == [kind |-> "current", start |-> DayOf(t), end |-> DayOf(t) + Day,
                       label |-> <<"day", DayOf(t)>>]
      <3>1. DayOf(start) \in Int /\ DayOf(start) % Day = 0 /\ DayOf(start) <= start BY Days
      <3>2. DayOf(start) <= DayOf(t) /\ current <= DayOf(t) BY <1>3, <1>4, <1>6, <3>1
      <3>3. DayOf(t) \in Most(DayOf(start), current)..Least(end, today) - 1
        BY <1>2, <1>3, <1>4, <1>6, <3>1, <3>2 DEF Most, Least
      <3>4. p \in DaysBefore(start, end, now, yearly) BY <1>4, <3>3 DEF DaysBefore, current, today
      <3>5. p \in plan BY <2>1, <2>2, <3>4, PlanIs DEF current, today
      <3>6. p.kind # "live" /\ p.start <= DayOf(t) /\ DayOf(t) + Day <= p.end BY <1>1, <1>4
      <3> HIDE DEF p, plan
      <3> QED BY <1>2, <1>6, <3>5, <3>6 DEF plan, today
    <2>3. CASE ~daily
      <3> DEFINE p == AllBefore(now, yearly)
      <3>1. p \in plan BY <1>2, <1>3, <1>6, <2>1, <2>3, PlanIs DEF current, today
      <3>2. p.kind = "current" /\ p.start = current /\ p.end = today BY DEF AllBefore, current, today
      <3>3. current <= DayOf(t) /\ DayOf(t) + Day <= today BY <1>2, <1>3, <1>4, <1>6
      <3> HIDE DEF p, plan
      <3> QED BY <1>2, <1>6, <3>1, <3>2, <3>3 DEF plan, today
    <2> QED BY <2>2, <2>3
  <1>7. CASE today <= t
    <2>1. Today(now) \in plan BY <1>2, <1>7, PlanIs DEF today
    <2>2. Today(now).kind = "live" /\ Today(now).start = today BY DEF Today, today
    <2> HIDE DEF plan
    <2> QED BY <1>2, <1>7, <2>1, <2>2 DEF plan, today
  <1> QED BY <1>2, <1>3, <1>5, <1>6, <1>7


-----------------------------------------------------------------------------
\* Gaps

Later(expected, t) == {u \in expected : u > t}
Earlier(expected, t) == {u \in expected : u < t}
Starts(expected, missing) ==
    {t \in missing : Earlier(expected, t) = {} \/ Max(Earlier(expected, t)) \notin missing}
EndsRun(expected, missing, t, u) ==
    /\ t <= u
    /\ \A v \in expected : t <= v /\ v <= u => v \in missing
    /\ Later(expected, u) = {} \/ Min(Later(expected, u)) \notin missing
LastOfRun(expected, missing, t) == CHOOSE u \in missing : EndsRun(expected, missing, t, u)
Listed(expected, missing) ==
    {t \in Starts(expected, missing) :
        Cardinality({u \in Starts(expected, missing) : u < t}) < MaxGapRanges}
Ranges(expected, missing, step, sessions) ==
    {<<t, BinEnd(LastOfRun(expected, missing, t), step, sessions)>> : t \in Listed(expected, missing)}

LEMMA GapsAreOf ==
  ASSUME NEW present, NEW expected, NEW step, NEW sessions
  PROVE  FindGaps(present, expected, step, sessions)
           = [ranges |-> Ranges(expected, expected \ present, step, sessions),
              total |-> Cardinality(expected \ present)]
  BY DEF FindGaps, Later, Earlier, Starts, EndsRun, LastOfRun, Listed, Ranges

\* Times that have a first and a last one, and some of them.
Bounded(S) == S \subseteq Int /\ \E low, high \in Int : \A t \in S : low <= t /\ t <= high

LEMMA BoundedHas ==
  ASSUME NEW S, Bounded(S), S # {}
  PROVE  /\ Min(S) \in S /\ \A y \in S : Min(S) <= y
         /\ Max(S) \in S /\ \A y \in S : y <= Max(S)
  <1>1. PICK low \in Int, high \in Int : \A t \in S : low <= t /\ t <= high BY DEF Bounded
  <1>2. S \in SUBSET Int BY DEF Bounded
  <1>3. Min(S) \in S /\ \A y \in S : Min(S) <= y BY <1>1, <1>2, LeastOf
  <1>4. Max(S) \in S /\ \A y \in S : y <= Max(S) BY <1>1, <1>2, GreatestOf
  <1> QED BY <1>3, <1>4

LEMMA BoundedPart ==
  ASSUME NEW S, Bounded(S), NEW T, T \subseteq S
  PROVE  Bounded(T) /\ IsFiniteSet(T)
  <1>1. PICK low \in Int, high \in Int : \A t \in S : low <= t /\ t <= high BY DEF Bounded
  <1>2. Bounded(T) BY <1>1 DEF Bounded
  <1>3. IsFiniteSet(low..high) BY <1>1, FS_Interval
  <1>4. T \in SUBSET (low..high) BY <1>1 DEF Bounded
  <1>5. IsFiniteSet(T) BY <1>3, <1>4, FS_Subset
  <1> QED BY <1>2, <1>5

\* A run of missing times has an end.
LEMMA RunEnds ==
  ASSUME NEW expected, Bounded(expected), NEW missing, missing \subseteq expected, NEW t \in missing
  PROVE  /\ LastOfRun(expected, missing, t) \in missing
         /\ EndsRun(expected, missing, t, LastOfRun(expected, missing, t))
  <1> DEFINE known == {v \in expected : v > t /\ v \notin missing}
             upTo == {v \in expected : t <= v /\ \A w \in known : v < w}
  <1>1. expected \subseteq Int /\ t \in expected /\ t \in Int BY DEF Bounded
  <1>2. t \in upTo BY <1>1
  <1>3. Bounded(known) /\ Bounded(upTo) BY BoundedPart
  <1>4. PICK u : u = Max(upTo) OBVIOUS
  <1>5. u \in upTo /\ \A v \in upTo : v <= u BY <1>2, <1>3, <1>4, BoundedHas
  <1>6. u \in Int /\ u \in expected /\ t <= u BY <1>1, <1>5
  <1>7. ASSUME NEW v \in expected, t <= v, v <= u PROVE v \in missing
    <2>1. v = t \/ v > t BY <1>1, <1>7
    <2>2. v \in known => u < v BY <1>5
    <2> QED BY <1>1, <1>6, <1>7, <2>1, <2>2
  <1>8. ASSUME Later(expected, u) # {} PROVE Min(Later(expected, u)) \notin missing
    <2>1. Bounded(Later(expected, u)) BY BoundedPart DEF Later
    <2>2. PICK w : w = Min(Later(expected, u)) OBVIOUS
    <2>3. w \in Later(expected, u) /\ \A v \in Later(expected, u) : w <= v BY <1>8, <2>1, <2>2, BoundedHas
    <2>4. w \in expected /\ w \in Int /\ w > u /\ w > t BY <1>1, <1>6, <2>3 DEF Later
    <2>5. SUFFICES ASSUME w \in missing PROVE FALSE BY <2>2
    <2>6. \A x \in known : w < x
      <3>1. TAKE x \in known
      <3>2. x \in expected /\ x \in Int /\ u < x /\ x # w BY <1>1, <1>5, <2>5, <3>1
      <3>3. x \in Later(expected, u) BY <3>2 DEF Later
      <3>4. w <= x BY <2>3, <3>3
      <3> QED BY <2>4, <3>2, <3>4
    <2>7. w \in upTo BY <2>4, <2>6, <1>1
    <2> QED BY <1>5, <1>6, <2>4, <2>7
  <1>9. EndsRun(expected, missing, t, u) BY <1>6, <1>7, <1>8 DEF EndsRun
  <1>10. u \in missing BY <1>6, <1>7
  <1> QED BY <1>9, <1>10 DEF LastOfRun

\* A missing time is in a run that starts.
LEMMA RunStarts ==
  ASSUME NEW expected, Bounded(expected), NEW missing, missing \subseteq expected, NEW t \in missing
  PROVE  \E s \in Starts(expected, missing) :
             s <= t /\ \A v \in expected : s <= v /\ v <= t => v \in missing
  <1> DEFINE known == {v \in expected : v < t /\ v \notin missing}
             since == {v \in expected : v <= t /\ \A w \in known : w < v}
  <1>1. expected \subseteq Int /\ t \in expected /\ t \in Int BY DEF Bounded
  <1>2. t \in since BY <1>1
  <1>3. Bounded(known) /\ Bounded(since) BY BoundedPart
  <1>4. PICK s : s = Min(since) OBVIOUS
  <1>5. s \in since /\ \A v \in since : s <= v BY <1>2, <1>3, <1>4, BoundedHas
  <1>6. s \in Int /\ s \in expected /\ s <= t BY <1>1, <1>5
  <1>7. ASSUME NEW v \in expected, s <= v, v <= t PROVE v \in missing
    <2>1. v = t \/ v < t BY <1>1, <1>7
    <2>2. v \in known => v < s BY <1>5
    <2> QED BY <1>1, <1>6, <1>7, <2>1, <2>2
  <1>8. ASSUME Earlier(expected, s) # {} PROVE Max(Earlier(expected, s)) \notin missing
    <2>1. Bounded(Earlier(expected, s)) BY BoundedPart DEF Earlier
    <2>2. PICK w : w = Max(Earlier(expected, s)) OBVIOUS
    <2>3. w \in Earlier(expected, s) /\ \A v \in Earlier(expected, s) : v <= w BY <1>8, <2>1, <2>2, BoundedHas
    <2>4. w \in expected /\ w \in Int /\ w < s /\ w < t BY <1>1, <1>6, <2>3 DEF Earlier
    <2>5. SUFFICES ASSUME w \in missing PROVE FALSE BY <2>2
    <2>6. \A x \in known : x < w
      <3>1. TAKE x \in known
      <3>2. x \in expected /\ x \in Int /\ x < s /\ x # w BY <1>1, <1>5, <2>5, <3>1
      <3>3. x \in Earlier(expected, s) BY <3>2 DEF Earlier
      <3>4. x <= w BY <2>3, <3>3
      <3> QED BY <2>4, <3>2, <3>4
    <2>7. w \in since BY <2>4, <2>6, <1>1
    <2> QED BY <1>5, <1>6, <2>4, <2>7
  <1>9. s \in missing BY <1>6, <1>7
  <1>10. s \in Starts(expected, missing) BY <1>8, <1>9 DEF Starts
  <1> QED BY <1>6, <1>7, <1>10

\* Fewer listed ranges than may be listed are all there are.
LEMMA AllListed ==
  ASSUME NEW expected, Bounded(expected), NEW missing, missing \subseteq expected,
         NEW step, NEW sessions,
         Cardinality(Ranges(expected, missing, step, sessions)) < MaxGapRanges
  PROVE  Listed(expected, missing) = Starts(expected, missing)
  <1> DEFINE E(t) == BinEnd(LastOfRun(expected, missing, t), step, sessions)
             starts == Starts(expected, missing)
             listed == Listed(expected, missing)
             ranges == {<<t, E(t)>> : t \in listed}
             unlisted == starts \ listed
             Below(t) == {u \in starts : u < t}
  <1>5. Cardinality(ranges) < MaxGapRanges BY DEF Ranges
  <1> HIDE DEF E
  <1>1. starts \subseteq expected /\ listed \subseteq starts BY DEF Starts, Listed
  <1>2. Bounded(starts) /\ Bounded(unlisted) /\ IsFiniteSet(listed) /\ IsFiniteSet(starts) BY <1>1, BoundedPart
  <1>3. \A t \in starts : t \in listed <=> Cardinality(Below(t)) < MaxGapRanges BY DEF Listed
  <1>16. IsFiniteSet(ranges)
    <2> DEFINE e == [t \in listed |-> <<t, E(t)>>]
    <2>1. e \in [listed -> ranges] OBVIOUS
    <2>2. \A g \in ranges : \E t \in listed : e[t] = g OBVIOUS
    <2>3. e \in Surjection(listed, ranges) BY <2>1, <2>2 DEF Surjection
    <2> HIDE DEF e, ranges, listed
    <2> QED BY <1>2, <2>3, FS_Surjection
  <1>4. Cardinality(listed) <= Cardinality(ranges)
    <2> DEFINE f == [g \in ranges |-> g[1]]
    <2>1. f \in [ranges -> listed] OBVIOUS
    <2>2. \A t \in listed : \E g \in ranges : f[g] = t
      <3>1. TAKE t \in listed
      <3>2. <<t, E(t)>> \in ranges OBVIOUS
      <3>3. f[<<t, E(t)>>] = t BY <3>2
      <3> QED BY <3>2, <3>3
    <2>3. f \in Surjection(ranges, listed) BY <2>1, <2>2 DEF Surjection
    <2> HIDE DEF ranges, listed, f
    <2> QED BY <1>16, <2>3, FS_Surjection
  <1> HIDE DEF starts, listed, ranges
  <1>6. SUFFICES ASSUME unlisted # {} PROVE FALSE BY <1>1 DEF starts, listed
  <1>7. PICK s : s = Min(unlisted) OBVIOUS
  <1>8. s \in unlisted /\ \A v \in unlisted : s <= v BY <1>2, <1>6, <1>7, BoundedHas
  <1>9. \A v \in starts : v \in Int BY <1>2 DEF Bounded
  <1>10. s \in Int /\ s \in starts BY <1>8, <1>9
  <1>11. Below(s) \subseteq listed
    <2>1. SUFFICES ASSUME NEW v \in starts, v < s, v \notin listed PROVE FALSE OBVIOUS
    <2>2. s <= v BY <1>8, <2>1
    <2> QED BY <1>9, <1>10, <2>1, <2>2
  <1>12. IsFiniteSet(Below(s)) BY <1>2, FS_Subset
  <1>13. Cardinality(Below(s)) <= Cardinality(listed) BY <1>2, <1>11, FS_Subset
  <1>14. MaxGapRanges \in Int BY BinsAssumption
  <1>15. ~(Cardinality(Below(s)) < MaxGapRanges) BY <1>3, <1>8
  <1>17. Cardinality(Below(s)) \in Int /\ Cardinality(listed) \in Int /\ Cardinality(ranges) \in Int
    BY <1>2, <1>12, <1>16, FS_CardinalityType
  <1> HIDE DEF Below
  <1> QED BY <1>4, <1>5, <1>13, <1>14, <1>15, <1>17

\* Every range is of missing times only, and all are in one when all are listed.
GapsOf(gaps, expected, missing) ==
    /\ gaps.total = Cardinality(missing)
    /\ \A g \in gaps.ranges : \A t \in expected : g[1] <= t /\ t < g[2] => t \in missing
    /\ Cardinality(gaps.ranges) < MaxGapRanges =>
           \A t \in missing : \E g \in gaps.ranges : g[1] <= t /\ t < g[2]

LEMMA GapsTell ==
  ASSUME NEW sessions, Calendar(sessions), NEW step \in Nat \ {0}, NEW expected, Bounded(expected),
         \A t \in expected : IsBin(sessions, step, t), NEW present
  PROVE  GapsOf(FindGaps(present, expected, step, sessions), expected, expected \ present)
  <1> DEFINE gaps == FindGaps(present, expected, step, sessions)
             missing == expected \ present
             E(t) == BinEnd(LastOfRun(expected, missing, t), step, sessions)
             listed == Listed(expected, missing)
  <1>1. gaps = [ranges |-> Ranges(expected, missing, step, sessions), total |-> Cardinality(missing)]
    BY GapsAreOf
  <1>0. gaps.total = Cardinality(missing) /\ gaps.ranges = Ranges(expected, missing, step, sessions) BY <1>1
  <1>2. gaps.ranges = {<<t, E(t)>> : t \in listed} BY <1>0 DEF Ranges
  <1>3. missing \subseteq expected /\ expected \subseteq Int BY DEF Bounded
  <1>4. listed \subseteq missing /\ Starts(expected, missing) \subseteq missing BY DEF Listed, Starts
  <1> HIDE DEF gaps, missing, listed
  <1>5. ASSUME NEW s \in missing
        PROVE  /\ LastOfRun(expected, missing, s) \in missing
               /\ EndsRun(expected, missing, s, LastOfRun(expected, missing, s))
               /\ E(s) \in Int /\ LastOfRun(expected, missing, s) < E(s)
               /\ \A v \in expected : v < E(s) => v <= LastOfRun(expected, missing, s)
    <2> DEFINE u == LastOfRun(expected, missing, s)
    <2>1. u \in missing /\ EndsRun(expected, missing, s, u) BY <1>3, RunEnds
    <2> HIDE DEF u
    <2>2. u \in Int /\ u \in expected /\ IsBin(sessions, step, u) BY <1>3, <2>1
    <2>3. BinEnd(u, step, sessions) \in Int /\ u < BinEnd(u, step, sessions) BY <2>2, BinEndType
    <2>4. ASSUME NEW v \in expected, v < BinEnd(u, step, sessions) PROVE v <= u
      <3>1. v \in Int /\ IsBin(sessions, step, v) BY <1>3
      <3>2. u < v => BinEnd(u, step, sessions) <= v BY <2>2, <3>1, BinsInTurn
      <3> QED BY <2>2, <2>3, <2>4, <3>1, <3>2
    <2> QED BY <2>1, <2>3, <2>4 DEF u
  <1>6. ASSUME NEW g \in gaps.ranges, NEW t \in expected, g[1] <= t, t < g[2]
        PROVE  t \in missing
    <2>1. PICK s \in listed : g = <<s, E(s)>> BY <1>2
    <2>2. s \in missing /\ s <= t /\ t < E(s) BY <1>4, <1>6, <2>1
    <2>3. t <= LastOfRun(expected, missing, s) BY <1>5, <2>2
    <2> QED BY <1>5, <2>2, <2>3 DEF EndsRun
  <1>7. ASSUME Cardinality(gaps.ranges) < MaxGapRanges, NEW t \in missing
        PROVE  \E g \in gaps.ranges : g[1] <= t /\ t < g[2]
    <2>1. listed = Starts(expected, missing)
      BY <1>0, <1>3, <1>7, AllListed DEF listed
    <2>2. PICK s \in Starts(expected, missing) :
            s <= t /\ \A v \in expected : s <= v /\ v <= t => v \in missing
      BY <1>3, RunStarts
    <2>3. s \in missing BY <1>4, <2>2
    <2> DEFINE u == LastOfRun(expected, missing, s)
    <2>4. /\ u \in missing /\ s <= u
          /\ Later(expected, u) = {} \/ Min(Later(expected, u)) \notin missing
          /\ E(s) \in Int /\ u < E(s)
      BY <1>5, <2>3 DEF EndsRun
    <2> HIDE DEF u
    <2>5. s \in Int /\ t \in Int /\ u \in Int /\ u \in expected /\ t \in expected BY <1>3, <2>3, <2>4
    <2>6. t <= u
      <3>1. SUFFICES ASSUME u < t PROVE FALSE BY <2>5
      <3>2. t \in Later(expected, u) BY <1>3, <3>1 DEF Later
      <3>3. Bounded(Later(expected, u)) BY BoundedPart DEF Later
      <3>4. PICK w : w = Min(Later(expected, u)) OBVIOUS
      <3>5. w \in Later(expected, u) /\ w <= t BY <3>2, <3>3, <3>4, BoundedHas
      <3>6. w \in expected /\ w \in Int /\ u < w BY <1>3, <3>5 DEF Later
      <3>7. s <= w BY <2>4, <2>5, <3>6
      <3>8. w \in missing BY <2>2, <3>5, <3>6, <3>7
      <3> QED BY <2>4, <3>2, <3>4, <3>8
    <2>7. <<s, E(s)>> \in gaps.ranges BY <1>2, <2>1, <2>2
    <2>8. t < E(s) BY <2>4, <2>5, <2>6
    <2> QED BY <2>2, <2>7, <2>8
  <1>8. GapsOf(gaps, expected, missing) BY <1>0, <1>6, <1>7 DEF GapsOf
  <1> QED BY <1>8 DEF gaps, missing


-----------------------------------------------------------------------------
\* What is known when a candle set is assembled

Yearly(m, base) == m.sessions # Absent /\ base = Day

\* A chunk holds every candle of the period its label names.
ChunkOK(m, base, label, chunk) ==
    \E p : /\ IsPeriod(Yearly(m, base), p) /\ p.label = label /\ chunk.until = p.end
           /\ Whole(m, base, p.start, p.end, chunk.frame)

\* A request has read all that it planned.
Planned(m, r, base) ==
    /\ r.ask.step \in Timeframes /\ r.start \in Int /\ r.ask.end \in Int /\ r.now \in Int
    /\ r.ask.end <= r.now
    /\ r.plan = PlanPeriods(r.start, r.ask.end, r.now - m.delay, Yearly(m, base), m.daily)
AllRead(m, r, base) ==
    \A p \in r.plan : p.label \in DOMAIN r.blobs /\ ChunkOK(m, base, p.label, r.blobs[p.label])

LEMMA PlannedAre ==
  ASSUME NEW m, Market(m), NEW r, NEW base, Planned(m, r, base), NEW p \in r.plan
  PROVE  /\ IsPeriod(Yearly(m, base), p) /\ p.end <= r.now - m.delay
         /\ r.now - m.delay \in Int /\ r.now - m.delay <= r.now
         /\ p.kind = "live" => p.start = DayOf(r.now - m.delay) /\ p.end = r.now - m.delay
         /\ p.kind # "live" => p.end <= DayOf(r.now - m.delay)
  <1>1. /\ r.start \in Int /\ r.ask.end \in Int /\ r.now - m.delay \in Int /\ r.now - m.delay <= r.now
        /\ Yearly(m, base) \in BOOLEAN /\ m.daily \in BOOLEAN
    BY DEF Planned, Market, Yearly
  <1>2. p \in PlanPeriods(r.start, r.ask.end, r.now - m.delay, Yearly(m, base), m.daily) BY DEF Planned
  <1> DEFINE now == r.now - m.delay
             yearly == Yearly(m, base)
             start == r.start
             end == r.ask.end
             daily == m.daily
  <1>3. /\ start \in Int /\ end \in Int /\ now \in Int
        /\ p \in PlanPeriods(start, end, now, yearly, daily)
    BY <1>1, <1>2
  <1> HIDE DEF now, yearly, start, end, daily
  <1>5. IsPeriod(yearly, p) /\ p.end <= now BY <1>3, PlannedArePeriods
  <1>6. p.kind = "live" => p.start = DayOf(now) /\ p.end = now BY <1>3, PlannedArePeriods
  <1>7. p.kind # "live" => p.end <= DayOf(now) BY <1>3, PlannedArePeriods
  <1> QED BY <1>1, <1>5, <1>6, <1>7 DEF now, yearly

\* A chunk of a plan is as its period says, but the live one may be of another time.
LEMMA ChunkIs ==
  ASSUME NEW m, NEW base, NEW p, IsPeriod(Yearly(m, base), p), NEW chunk, ChunkOK(m, base, p.label, chunk)
  PROVE  /\ chunk.until \in Int /\ p.start \in Int
         /\ p.kind # "live" => chunk.until = p.end
         /\ Whole(m, base, p.start, chunk.until, chunk.frame)
  <1>1. PICK q : /\ IsPeriod(Yearly(m, base), q) /\ q.label = p.label /\ chunk.until = q.end
                 /\ Whole(m, base, q.start, q.end, chunk.frame)
    BY DEF ChunkOK
  <1>2. p.kind = q.kind /\ p.start = q.start /\ (p.kind # "live" => p.end = q.end) BY <1>1, LabelsName
  <1>3. q.end \in Int /\ p.start \in Int BY <1>1 DEF IsPeriod
  <1> QED BY <1>1, <1>2, <1>3

\* The time a set is as of.
LEMMA AsOfIs ==
  ASSUME NEW m, Market(m), NEW r, NEW base, Planned(m, r, base), AllRead(m, r, base)
  PROVE  /\ AsOf(r) \in Int /\ AsOf(r) <= r.now
         /\ \A p \in r.plan : p.kind = "live" => AsOf(r) <= r.blobs[p.label].until
  <1> DEFINE label == <<"live", DayOf(r.now - m.delay)>>
             live == {p \in r.plan : p.kind = "live"}
             times == {r.now} \cup {r.blobs[p.label].until : p \in live}
  <1>1. AsOf(r) = Min(times) BY DEF AsOf
  <1>2. r.now \in Int BY DEF Planned
  <1>3. ASSUME NEW p \in live PROVE p.label = label /\ r.blobs[p.label].until \in Int
    <2>1. IsPeriod(Yearly(m, base), p) /\ p.start = DayOf(r.now - m.delay) BY PlannedAre
    <2>2. p.label = label BY <2>1 DEF IsPeriod
    <2>3. ChunkOK(m, base, p.label, r.blobs[p.label]) BY DEF AllRead
    <2>4. r.blobs[p.label].until \in Int BY <2>1, <2>3, ChunkIs
    <2> QED BY <2>2, <2>4
  <1>4. Bounded(times)
    <2>1. CASE live = {}
      <3>1. times = {r.now} BY <2>1
      <3>2. times \subseteq Int /\ \A t \in times : r.now <= t /\ t <= r.now BY <1>2, <3>1
      <3> HIDE DEF times
      <3> QED BY <1>2, <3>2 DEF Bounded
    <2>2. CASE live # {}
      <3>1. PICK u \in Int : u = r.blobs[label].until BY <1>3, <2>2
      <3>2. times = {r.now, u} BY <1>3, <2>2, <3>1
      <3>3. \E low, high \in Int : \A t \in {r.now, u} : low <= t /\ t <= high
        <4>1. CASE r.now <= u BY <1>2, <3>1, <4>1
        <4>2. CASE u < r.now BY <1>2, <3>1, <4>2
        <4> QED BY <1>2, <3>1, <4>1, <4>2
      <3>4. {r.now, u} \subseteq Int BY <1>2, <3>1
      <3>5. Bounded({r.now, u}) BY <3>3, <3>4 DEF Bounded
      <3> QED BY <3>2, <3>5
    <2> QED BY <2>1, <2>2
  <1>5. r.now \in times /\ \A p \in live : r.blobs[p.label].until \in times OBVIOUS
  <1>6. times # {} BY <1>5
  <1> HIDE DEF times
  <1>7. Min(times) \in times /\ \A y \in times : Min(times) <= y BY <1>4, <1>6, BoundedHas
  <1>8. Min(times) \in Int BY <1>4, <1>7 DEF Bounded
  <1> QED BY <1>1, <1>5, <1>7, <1>8

\* The frames of the chunks together have every base candle of the chunks.
LEMMA JoinedAre ==
  ASSUME NEW m, Market(m), NEW r, NEW base, Planned(m, r, base), AllRead(m, r, base)
  PROVE  /\ \A t \in DOMAIN Joined(r) :
              /\ t \in Int /\ IsBin(m.sessions, base, t)
              /\ Joined(r)[t] = TradedOf(m, t, BinEnd(t, base, m.sessions))
              /\ TradedOf(m, t, BinEnd(t, base, m.sessions)) # {}
         /\ \A t \in Int, p \in r.plan :
              /\ IsBin(m.sessions, base, t) /\ p.start <= t
              /\ BinEnd(t, base, m.sessions) <= r.blobs[p.label].until
              /\ TradedOf(m, t, BinEnd(t, base, m.sessions)) # {}
              => t \in DOMAIN Joined(r)
  <1> DEFINE frames == {r.blobs[p.label].frame : p \in r.plan}
             T(t) == TradedOf(m, t, BinEnd(t, base, m.sessions))
             all == UNION {DOMAIN f : f \in frames}
  <1>1. Joined(r) = [t \in all |-> UNION {f[t] : f \in {g \in frames : t \in DOMAIN g}}] BY DEF Joined
  <1>2. ASSUME NEW p \in r.plan
        PROVE  Whole(m, base, p.start, r.blobs[p.label].until, r.blobs[p.label].frame)
    <2>1. IsPeriod(Yearly(m, base), p) BY PlannedAre
    <2>2. ChunkOK(m, base, p.label, r.blobs[p.label]) BY DEF AllRead
    <2> QED BY <2>1, <2>2, ChunkIs
  <1>3. ASSUME NEW f \in frames, NEW t \in DOMAIN f
        PROVE  t \in Int /\ IsBin(m.sessions, base, t) /\ f[t] = T(t) /\ T(t) # {}
    <2>1. PICK p \in r.plan : f = r.blobs[p.label].frame OBVIOUS
    <2>2. Whole(m, base, p.start, r.blobs[p.label].until, f) BY <1>2, <2>1
    <2> QED BY <2>2 DEF Whole, WholeBins
  <1> HIDE DEF frames, all
  <1>4. \A t : t \in all <=> \E f \in frames : t \in DOMAIN f BY DEF all
  <1>5. ASSUME NEW t \in all
        PROVE  t \in Int /\ IsBin(m.sessions, base, t) /\ Joined(r)[t] = T(t) /\ T(t) # {}
    <2>1. PICK f \in frames : t \in DOMAIN f BY <1>4
    <2>2. \A g \in {h \in frames : t \in DOMAIN h} : g[t] = T(t) BY <1>3
    <2>3. UNION {g[t] : g \in {h \in frames : t \in DOMAIN h}} = T(t) BY <2>1, <2>2
    <2>4. Joined(r)[t] = T(t) BY <1>1, <2>3
    <2> QED BY <1>3, <2>1, <2>4
  <1>6. ASSUME NEW t \in Int, NEW p \in r.plan,
               IsBin(m.sessions, base, t), p.start <= t,
               BinEnd(t, base, m.sessions) <= r.blobs[p.label].until, T(t) # {}
        PROVE  t \in all
    <2>1. Whole(m, base, p.start, r.blobs[p.label].until, r.blobs[p.label].frame) BY <1>2
    <2>2. t \in DOMAIN r.blobs[p.label].frame BY <1>6, <2>1 DEF Whole, WholeBins
    <2>3. r.blobs[p.label].frame \in frames BY DEF frames
    <2> QED BY <1>4, <2>2, <2>3
  <1>7. DOMAIN Joined(r) = all BY <1>1
  <1> QED BY <1>5, <1>6, <1>7

\* A bin is within a day.
LEMMA BinInDay ==
  ASSUME NEW sessions, Calendar(sessions), NEW step \in Timeframes, NEW t \in Int, IsBin(sessions, step, t)
  PROVE  BinEnd(t, step, sessions) <= DayOf(t) + Day
  <1>1. step \in Nat \ {0} /\ Day \in Nat \ {0} /\ Day % step = 0 BY Steps
  <1>2. DayOf(t) \in Int /\ DayOf(t) % Day = 0 /\ t < DayOf(t) + Day
        /\ \A a \in Int : a % Day = 0 /\ a <= t => a <= DayOf(t)
    BY Days
  <1>3. CASE sessions = Absent
    <2>1. t % step = 0 /\ BinEnd(t, step, sessions) = t + step BY <1>3, BinFixed
    <2>2. DayOf(t) % step = 0 BY <1>1, <1>2, MultiplesOfPart
    <2>3. Day \in Int /\ DayOf(t) + Day \in Int BY <1>1, <1>2
    <2>4. (DayOf(t) + Day) % step = 0 BY <1>1, <1>2, <2>2, <2>3, MultiplesAdd
    <2>5. t + step <= DayOf(t) + Day BY <1>1, <1>2, <2>1, <2>3, <2>4, Multiples
    <2> QED BY <2>1, <2>5
  <1>4. CASE sessions # Absent
    <2>1. IsCalendar(sessions) BY <1>4 DEF Calendar
    <2>2. PICK i \in DOMAIN sessions : In(sessions[i], t) BY <1>4 DEF IsBin
    <2>3. BinEnd(t, step, sessions) = Least(t + step, sessions[i].close) BY <1>1, <1>4, <2>1, <2>2, BinIn
    <2>4. sessions[i].open \in Int /\ sessions[i].close \in Int BY <2>1, SessionType
    <2>5. sessions[i].close <= DayOf(sessions[i].open) + Day BY <2>1 DEF IsCalendar, DayOf
    <2>6. /\ DayOf(sessions[i].open) \in Int /\ DayOf(sessions[i].open) % Day = 0
          /\ DayOf(sessions[i].open) <= sessions[i].open
      BY <2>4, Days
    <2>7. sessions[i].open <= t BY <2>2 DEF In
    <2>8. DayOf(sessions[i].open) <= DayOf(t) BY <1>2, <2>4, <2>6, <2>7
    <2>9. Least(t + step, sessions[i].close) <= sessions[i].close BY <1>1, <2>4 DEF Least
    <2>10. Least(t + step, sessions[i].close) \in Int BY <1>1, <2>4 DEF Least
    <2> QED BY <1>1, <1>2, <2>3, <2>4, <2>5, <2>6, <2>8, <2>9, <2>10
  <1> QED BY <1>3, <1>4

\* A bin that is closed is in a chunk as a whole.
LEMMA BinCovered ==
  ASSUME NEW m, Market(m), NEW r, NEW base, Planned(m, r, base), AllRead(m, r, base),
         NEW o \in Int, IsBin(m.sessions, r.ask.step, o), r.start <= o, o < r.ask.end,
         BinEnd(o, r.ask.step, m.sessions) <= AsOf(r)
  PROVE  \E p \in r.plan : /\ p.start \in Int /\ p.start <= o
                           /\ r.blobs[p.label].until \in Int
                           /\ BinEnd(o, r.ask.step, m.sessions) <= r.blobs[p.label].until
  <1> DEFINE now == r.now - m.delay
             end == BinEnd(o, r.ask.step, m.sessions)
  <1>1. /\ r.start \in Int /\ r.ask.end \in Int /\ now \in Int /\ r.ask.step \in Timeframes
        /\ Yearly(m, base) \in BOOLEAN /\ m.daily \in BOOLEAN /\ Calendar(m.sessions)
    BY DEF Planned, Market, Yearly
  <1>2. r.plan = PlanPeriods(r.start, r.ask.end, now, Yearly(m, base), m.daily) BY DEF Planned
  <1>3. r.ask.step \in Nat \ {0} /\ Day \in Nat \ {0} BY <1>1, Steps
  <1>4. end \in Int /\ end <= DayOf(o) + Day BY <1>1, <1>3, BinEndType, BinInDay
  <1>5. AsOf(r) \in Int /\ \A p \in r.plan : p.kind = "live" => AsOf(r) <= r.blobs[p.label].until
    BY AsOfIs
  <1>6. ASSUME NEW p \in r.plan
        PROVE  /\ p.start \in Int /\ p.end \in Int /\ r.blobs[p.label].until \in Int
               /\ p.kind # "live" => r.blobs[p.label].until = p.end
    <2>1. IsPeriod(Yearly(m, base), p) BY PlannedAre
    <2>2. ChunkOK(m, base, p.label, r.blobs[p.label]) BY DEF AllRead
    <2>3. p.end \in Int BY <2>1 DEF IsPeriod
    <2> QED BY <2>1, <2>2, <2>3, ChunkIs
  <1> HIDE DEF now, end
  <1>7. DayOf(now) \in Int /\ DayOf(o) \in Int /\ DayOf(o) <= o BY <1>1, Days
  <1>8. CASE o < DayOf(now)
    <2>1. PICK p \in r.plan : p.kind # "live" /\ p.start <= DayOf(o) /\ DayOf(o) + Day <= p.end
      BY <1>1, <1>2, <1>8, PlanCovers
    <2>2. p.start \in Int /\ p.end \in Int /\ r.blobs[p.label].until = p.end BY <1>6, <2>1
    <2>3. p.start <= o /\ end <= p.end BY <1>3, <1>4, <1>7, <2>1, <2>2
    <2> QED BY <2>2, <2>3 DEF end
  <1>9. CASE DayOf(now) <= o
    <2>1. PICK p \in r.plan : p.kind = "live" /\ p.start = DayOf(now) BY <1>1, <1>2, <1>9, PlanCovers
    <2>2. AsOf(r) <= r.blobs[p.label].until /\ r.blobs[p.label].until \in Int BY <1>5, <1>6, <2>1
    <2>3. end <= r.blobs[p.label].until BY <1>4, <1>5, <2>2 DEF end
    <2> QED BY <1>7, <1>9, <2>1, <2>2, <2>3 DEF end
  <1> QED BY <1>7, <1>8, <1>9


-----------------------------------------------------------------------------
\* The candle set

\* A frame has the candles that traded of the closed bins of a period.
HasAll(m, step, start, end, asOf, frame) ==
    \A o \in Int : /\ IsBin(m.sessions, step, o) /\ start <= o /\ o < end
                   /\ BinEnd(o, step, m.sessions) <= asOf
        => /\ o \in DOMAIN frame <=> TradedOf(m, o, BinEnd(o, step, m.sessions)) # {}
           /\ o \in DOMAIN frame => frame[o] = TradedOf(m, o, BinEnd(o, step, m.sessions))

LEMMA JoinedHasAll ==
  ASSUME NEW m, Market(m), NEW r, Planned(m, r, r.ask.step), AllRead(m, r, r.ask.step)
  PROVE  /\ OnBins(Joined(r), r.ask.step, m.sessions)
         /\ HasAll(m, r.ask.step, r.start, r.ask.end, AsOf(r), Joined(r))
  <1> DEFINE step == r.ask.step
             T(o) == TradedOf(m, o, BinEnd(o, step, m.sessions))
  <1>1. /\ \A t \in DOMAIN Joined(r) : t \in Int /\ IsBin(m.sessions, step, t) /\ Joined(r)[t] = T(t) /\ T(t) # {}
        /\ \A t \in Int, p \in r.plan :
              /\ IsBin(m.sessions, step, t) /\ p.start <= t
              /\ BinEnd(t, step, m.sessions) <= r.blobs[p.label].until
              /\ T(t) # {}
              => t \in DOMAIN Joined(r)
    BY JoinedAre
  <1>2. OnBins(Joined(r), step, m.sessions) BY <1>1 DEF OnBins
  <1>3. ASSUME NEW o \in Int, IsBin(m.sessions, step, o), r.start <= o, o < r.ask.end,
               BinEnd(o, step, m.sessions) <= AsOf(r)
        PROVE  /\ o \in DOMAIN Joined(r) <=> T(o) # {}
               /\ o \in DOMAIN Joined(r) => Joined(r)[o] = T(o)
    <2>1. PICK p \in r.plan : p.start <= o /\ BinEnd(o, step, m.sessions) <= r.blobs[p.label].until
      BY <1>3, BinCovered
    <2> HIDE DEF T
    <2> QED BY <1>1, <1>3, <2>1
  <1> QED BY <1>2, <1>3 DEF HasAll

\* Longer candles are made from the shortest ones.
LEMMA RebinnedHasAll ==
  ASSUME NEW m, Market(m), m.sessions # Absent, NEW r, Planned(m, r, 1), AllRead(m, r, 1)
  PROVE  LET frame == ResampleSessions(Joined(r), r.ask.step, m.sessions)
         IN  /\ OnBins(frame, r.ask.step, m.sessions)
             /\ HasAll(m, r.ask.step, r.start, r.ask.end, AsOf(r), frame)
  <1> DEFINE step == r.ask.step
             ss == m.sessions
             base == Joined(r)
             frame == ResampleSessions(base, step, ss)
             T(o) == TradedOf(m, o, BinEnd(o, step, ss))
  <1>0. IsCalendar(ss) /\ m.traded \subseteq Nat BY DEF Market, Calendar
  <1>1. /\ \A t \in DOMAIN base : /\ t \in Int /\ IsBin(ss, 1, t)
                                  /\ base[t] = TradedOf(m, t, BinEnd(t, 1, ss))
                                  /\ TradedOf(m, t, BinEnd(t, 1, ss)) # {}
        /\ \A t \in Int, p \in r.plan :
              /\ IsBin(ss, 1, t) /\ p.start <= t
              /\ BinEnd(t, 1, ss) <= r.blobs[p.label].until
              /\ TradedOf(m, t, BinEnd(t, 1, ss)) # {}
              => t \in DOMAIN base
    BY JoinedAre
  <1>2. step \in Timeframes /\ step \in Nat \ {0} BY Steps DEF Planned
  <1>3. \A t \in Int : IsBin(ss, 1, t) =>
            /\ BinEnd(t, 1, ss) = t + 1 /\ \E i \in DOMAIN ss : In(ss[i], t)
            /\ TradedOf(m, t, t + 1) = {x \in {t} : x \in m.traded}
    <2>1. TAKE t \in Int
    <2>2. IsBin(ss, 1, t) => BinEnd(t, 1, ss) = t + 1 /\ \E i \in DOMAIN ss : In(ss[i], t) BY <1>0, BaseBins
    <2>3. TradedOf(m, t, t + 1) = {x \in {t} : x \in m.traded} BY <1>0 DEF TradedOf
    <2> QED BY <2>2, <2>3
  <1>4. \A t \in DOMAIN base : t \in Int /\ IsBin(ss, 1, t) /\ base[t] = {t} /\ t \in m.traded BY <1>1, <1>3
  <1>5. frame = Rebinned(base, step, ss)
    <2>1. DOMAIN base \subseteq Int BY <1>4
    <2> QED BY <1>0, <1>2, <2>1, ResampledAre
  <1>6. \A t \in Int, p \in r.plan :
           /\ \E i \in DOMAIN ss : In(ss[i], t)
           /\ p.start <= t /\ t + 1 <= r.blobs[p.label].until /\ t \in m.traded
           => t \in DOMAIN base
    <2>1. ASSUME NEW t \in Int, NEW p \in r.plan, \E i \in DOMAIN ss : In(ss[i], t),
                 p.start <= t, t + 1 <= r.blobs[p.label].until, t \in m.traded
          PROVE  t \in DOMAIN base
      <3>1. IsBin(ss, 1, t) BY <1>0, <2>1, BaseBins
      <3>2. BinEnd(t, 1, ss) = t + 1 /\ TradedOf(m, t, t + 1) # {} BY <1>3, <2>1, <3>1
      <3> QED BY <1>1, <2>1, <3>1, <3>2
    <2> QED BY <2>1
  <1> HIDE DEF frame, base
  <1>7. OnBins(frame, step, ss) BY <1>5 DEF OnBins, Rebinned
  <1>8. ASSUME NEW o \in Int, IsBin(ss, step, o), r.start <= o, o < r.ask.end, BinEnd(o, step, ss) <= AsOf(r)
        PROVE  OfBin(base, ss, step, o) = T(o)
    <2>1. BinEnd(o, step, ss) \in Int BY <1>0, <1>2, <1>8, BinEndType DEF Calendar
    <2>2. PICK p \in r.plan : /\ p.start \in Int /\ p.start <= o /\ r.blobs[p.label].until \in Int
                              /\ BinEnd(o, step, ss) <= r.blobs[p.label].until
      BY <1>8, BinCovered
    <2>3. OfBin(base, ss, step, o) \subseteq T(o) BY <1>4 DEF OfBin, TradedOf
    <2>4. ASSUME NEW t \in T(o) PROVE t \in OfBin(base, ss, step, o)
      <3>1. t \in m.traded /\ t \in Int /\ o <= t /\ t < BinEnd(o, step, ss) BY <1>0 DEF TradedOf
      <3>2. PICK i \in DOMAIN ss : In(ss[i], o) BY <1>8 DEF IsBin
      <3>3. BinEnd(o, step, ss) = Least(o + step, ss[i].close) BY <1>0, <1>2, <3>2, BinIn
      <3>4. ss[i].open \in Int /\ ss[i].close \in Int /\ ss[i].open <= o BY <1>0, <3>2, SessionType DEF In
      <3>5. BinEnd(o, step, ss) <= ss[i].close BY <1>2, <3>3, <3>4 DEF Least
      <3>6. In(ss[i], t) BY <2>1, <3>1, <3>4, <3>5 DEF In
      <3>7. p.start <= t /\ t + 1 <= r.blobs[p.label].until BY <2>1, <2>2, <3>1
      <3>8. t \in DOMAIN base BY <1>6, <3>1, <3>6, <3>7
      <3> QED BY <3>1, <3>8 DEF OfBin
    <2> QED BY <2>3, <2>4
  <1>9. ASSUME NEW o \in Int, IsBin(ss, step, o), r.start <= o, o < r.ask.end, BinEnd(o, step, ss) <= AsOf(r)
        PROVE  /\ o \in DOMAIN frame <=> T(o) # {}
               /\ o \in DOMAIN frame => frame[o] = T(o)
    <2>1. OfBin(base, ss, step, o) = T(o) BY <1>8, <1>9
    <2>2. o \in DOMAIN frame <=> T(o) # {} BY <1>5, <1>9, <2>1 DEF Rebinned
    <2>3. o \in DOMAIN frame => frame[o] = UNION {base[t] : t \in T(o)} BY <1>5, <2>1 DEF Rebinned
    <2>4. \A t \in T(o) : base[t] = {t} BY <1>4, <2>1 DEF OfBin
    <2>5. UNION {base[t] : t \in T(o)} = T(o)
      <3> HIDE DEF T
      <3> QED BY <2>4
    <2> QED BY <2>2, <2>3, <2>5
  <1> QED BY <1>7, <1>9 DEF HasAll, frame, base

\* What SetIsWhole says of one request.
ExpectedOf(m, r) == ExpectedBins(r.start, r.ask.end, r.ask.step, m.sessions, AsOf(r))
WholeSet(m, r) ==
    LET T(t) == TradedOf(m, t, BinEnd(t, r.ask.step, m.sessions))
        missing == ExpectedOf(m, r) \ DOMAIN r.set.frame
    IN  /\ DOMAIN r.set.frame = {t \in ExpectedOf(m, r) : T(t) # {}}
        /\ \A t \in DOMAIN r.set.frame : r.set.frame[t] = T(t)
        /\ r.set.gaps.total = Cardinality(missing)
        /\ \A g \in r.set.gaps.ranges : \A t \in ExpectedOf(m, r) :
               g[1] <= t /\ t < g[2] => t \in missing
        /\ Cardinality(r.set.gaps.ranges) < MaxGapRanges =>
               \A t \in missing : \E g \in r.set.gaps.ranges : g[1] <= t /\ t < g[2]

\* The closed candles of the period of a frame that has them all are what is expected of it.
LEMMA ClosedHave ==
  ASSUME NEW m, Market(m), NEW step \in Timeframes, NEW start \in Int, NEW end \in Int, NEW asOf \in Int,
         NEW frame, OnBins(frame, step, m.sessions), HasAll(m, step, start, end, asOf, frame)
  PROVE  LET closed == ClosedOnly(SliceRange(frame, start, end), step, asOf, m.sessions)
             expected == ExpectedBins(start, end, step, m.sessions, asOf)
         IN  /\ DOMAIN closed = {t \in expected : TradedOf(m, t, BinEnd(t, step, m.sessions)) # {}}
             /\ \A t \in DOMAIN closed : closed[t] = TradedOf(m, t, BinEnd(t, step, m.sessions))
             /\ Bounded(expected) /\ \A t \in expected : IsBin(m.sessions, step, t)
  <1> DEFINE ss == m.sessions
             slice == SliceRange(frame, start, end)
             closed == ClosedOnly(slice, step, asOf, ss)
             expected == ExpectedBins(start, end, step, ss, asOf)
             T(t) == TradedOf(m, t, BinEnd(t, step, ss))
  <1>1. Calendar(ss) /\ step \in Nat \ {0} BY Steps DEF Market
  <1>2. expected = {t \in Int : /\ IsBin(ss, step, t) /\ start <= t /\ t < end
                                /\ BinEnd(t, step, ss) <= asOf}
    BY <1>1, ExpectedAre
  <1>3. slice = [t \in {u \in DOMAIN frame : start <= u /\ u < end} |-> frame[t]]
    BY DEF SliceRange, Restricted
  <1>4. OnBins(slice, step, ss) BY <1>3 DEF OnBins
  <1>5. closed = ClosedPart(slice, step, asOf, ss) BY <1>1, <1>4, ClosedAre
  <1> HIDE DEF slice, closed, expected
  <1>6. DOMAIN closed = {u \in DOMAIN frame : start <= u /\ u < end /\ BinEnd(u, step, ss) <= asOf}
    BY <1>3, <1>5 DEF ClosedPart
  <1>7. \A t \in DOMAIN closed : closed[t] = frame[t] BY <1>3, <1>5, <1>6 DEF ClosedPart
  <1>8. \A t \in DOMAIN closed : t \in expected BY <1>2, <1>6 DEF OnBins
  <1>9. \A t \in expected : (t \in DOMAIN closed <=> T(t) # {}) /\ (t \in DOMAIN closed => closed[t] = T(t))
    <2>1. TAKE t \in expected
    <2>2. t \in Int /\ IsBin(ss, step, t) /\ start <= t /\ t < end /\ BinEnd(t, step, ss) <= asOf BY <1>2
    <2>3. (t \in DOMAIN frame <=> T(t) # {}) /\ (t \in DOMAIN frame => frame[t] = T(t))
      BY <2>2 DEF HasAll
    <2>4. t \in DOMAIN closed <=> t \in DOMAIN frame BY <1>6, <2>2
    <2> HIDE DEF T
    <2> QED BY <1>7, <2>3, <2>4
  <1>10. Bounded(expected)
    <2>1. expected \subseteq Int /\ \A t \in expected : start <= t /\ t <= end BY <1>2
    <2> QED BY <2>1 DEF Bounded
  <1>11. \A t \in expected : IsBin(ss, step, t) BY <1>2
  <1> HIDE DEF T
  <1>12. DOMAIN closed = {t \in expected : T(t) # {}} BY <1>8, <1>9
  <1>13. \A t \in DOMAIN closed : closed[t] = T(t) BY <1>8, <1>9
  <1> QED BY <1>10, <1>11, <1>12, <1>13 DEF closed, slice, expected, T

LEMMA SetsAreWhole ==
  ASSUME market \in Markets, NEW r, Planned(market, r, BaseTimeframe(r.ask.step)),
         AllRead(market, r, BaseTimeframe(r.ask.step)), r.set = AssembledSet(r)
  PROVE  WholeSet(market, r)
  <1> DEFINE step == r.ask.step
             ss == market.sessions
             base == BaseTimeframe(step)
             frame == IF ss # Absent /\ step # base
                        THEN ResampleSessions(Joined(r), step, ss) ELSE Joined(r)
             closed == ClosedOnly(SliceRange(frame, r.start, r.ask.end), step, AsOf(r), ss)
             expected == ExpectedOf(market, r)
             gaps == FindGaps(DOMAIN closed, expected, step, ss)
             missing == expected \ DOMAIN closed
  <1>1. Market(market) /\ Calendar(ss) BY MarketsAreGood DEF Market
  <1>2. step \in Timeframes /\ r.start \in Int /\ r.ask.end \in Int BY DEF Planned
  <1>3. step \in Nat \ {0} BY <1>2, Steps
  <1>4. AsOf(r) \in Int BY <1>1, AsOfIs
  <1>5. OnBins(frame, step, ss) /\ HasAll(market, step, r.start, r.ask.end, AsOf(r), frame)
    <2>1. CASE ss = Absent \/ step = base
      <3>1. base = step BY <1>2, <2>1, BasesAre
      <3>2. frame = Joined(r) BY <2>1
      <3>3. Planned(market, r, step) /\ AllRead(market, r, step) BY <3>1
      <3> QED BY <1>1, <3>2, <3>3, JoinedHasAll
    <2>2. CASE ss # Absent /\ step # base
      <3>1. base = 1 BY <1>2, <2>2, BasesAre
      <3>2. frame = ResampleSessions(Joined(r), step, ss) BY <2>2
      <3>3. Planned(market, r, 1) /\ AllRead(market, r, 1) BY <3>1
      <3> QED BY <1>1, <2>2, <3>2, <3>3, RebinnedHasAll
    <2> QED BY <2>1, <2>2
  <1>6. r.set = [frame |-> closed, gaps |-> gaps] BY DEF AssembledSet, ExpectedOf
  <1>7. r.set.frame = closed /\ r.set.gaps = gaps BY <1>6
  <1> HIDE DEF frame
  <1>8. /\ DOMAIN closed = {t \in expected : TradedOf(market, t, BinEnd(t, step, ss)) # {}}
        /\ \A t \in DOMAIN closed : closed[t] = TradedOf(market, t, BinEnd(t, step, ss))
        /\ Bounded(expected) /\ \A t \in expected : IsBin(ss, step, t)
    BY <1>1, <1>2, <1>4, <1>5, ClosedHave DEF ExpectedOf
  <1> HIDE DEF closed, expected
  <1>9. GapsOf(gaps, expected, missing) BY <1>1, <1>3, <1>8, GapsTell
  <1> HIDE DEF gaps
  <1> QED BY <1>7, <1>8, <1>9 DEF WholeSet, GapsOf, expected


-----------------------------------------------------------------------------
\* Folds: there is a function by which they go through a finite set

\* f goes through the subsets of U, by the steps h of the elements that are picked.
GoesThrough(f, U, X, base, h, pick) ==
    /\ f \in [SUBSET U -> X] /\ f[{}] = base
    /\ \A s \in SUBSET U : s # {} => f[s] = h[pick[s]][f[s \ {pick[s]}]]

LEMMA SmallestSubset ==
  ASSUME NEW U, IsFiniteSet(U), NEW T, T \subseteq SUBSET U, T # {}
  PROVE  \E s \in T : \A t \in T : t \subseteq s => t = s
  <1>1. T \subseteq FiniteSubsetsOf(U) BY FS_FiniteSubsetsOfFinite
  <1>2. \E s \in T : \A t \in T : <<t, s>> \notin StrictSubsetOrdering(U)
    BY <1>1, FS_StrictSubsetOrderingWellFounded, WFMin
  <1> QED BY <1>2 DEF StrictSubsetOrdering

LEMMA WaysAgree ==
  ASSUME NEW S, IsFiniteSet(S), NEW X, NEW base, NEW h, NEW pick,
         \A s \in SUBSET S : s # {} => pick[s] \in s,
         NEW U \in SUBSET S, NEW V \in SUBSET S, NEW f, NEW g,
         GoesThrough(f, U, X, base, h, pick), GoesThrough(g, V, X, base, h, pick)
  PROVE  \A s \in (SUBSET U) \cap (SUBSET V) : f[s] = g[s]
  <1> DEFINE Differ == {s \in (SUBSET U) \cap (SUBSET V) : f[s] # g[s]}
  <1> SUFFICES ASSUME Differ # {} PROVE FALSE OBVIOUS
  <1>1. Differ \subseteq SUBSET S OBVIOUS
  <1>2. \A s \in Differ : s \in SUBSET U /\ s \in SUBSET V /\ s \in SUBSET S /\ f[s] # g[s]
    <2>1. TAKE s \in Differ
    <2>2. s \in (SUBSET U) \cap (SUBSET V) /\ f[s] # g[s] OBVIOUS
    <2>3. s \in SUBSET U /\ s \in SUBSET V BY <2>2
    <2>4. s \in SUBSET S BY <2>3
    <2> QED BY <2>2, <2>3, <2>4
  <1>3. \A s \in (SUBSET U) \cap (SUBSET V) : s \notin Differ => f[s] = g[s] OBVIOUS
  <1> HIDE DEF Differ
  <1>4. PICK s \in Differ : \A t \in Differ : t \subseteq s => t = s BY <1>1, SmallestSubset
  <1>5. s # {} BY <1>2 DEF GoesThrough
  <1> DEFINE t == s \ {pick[s]}
  <1>6. pick[s] \in s BY <1>2, <1>5
  <1>10. t \subseteq s /\ t # s BY <1>6
  <1>11. s \in SUBSET U /\ s \in SUBSET V BY <1>2
  <1>7. t \in (SUBSET U) \cap (SUBSET V) /\ t \subseteq s /\ t # s BY <1>10, <1>11
  <1>8. f[s] = h[pick[s]][f[t]] /\ g[s] = h[pick[s]][g[t]] BY <1>2, <1>5 DEF GoesThrough
  <1> HIDE DEF t
  <1>9. f[t] = g[t] BY <1>3, <1>4, <1>7
  <1> QED BY <1>2, <1>8, <1>9

LEMMA GoingThrough ==
  ASSUME NEW S, IsFiniteSet(S), NEW X, NEW base \in X, NEW h \in [S -> [X -> X]], NEW pick,
         \A s \in SUBSET S : s # {} => pick[s] \in s
  PROVE  \E f : GoesThrough(f, S, X, base, h, pick)
  <1> DEFINE Without == {U \in SUBSET S : ~ \E f : GoesThrough(f, U, X, base, h, pick)}
             way(U) == CHOOSE f : GoesThrough(f, U, X, base, h, pick)
             G(U) == GoesThrough(way(U), U, X, base, h, pick)
  <1> SUFFICES ASSUME Without # {} PROVE FALSE OBVIOUS
  <1>1. Without \subseteq SUBSET S OBVIOUS
  <1>2. \A U \in SUBSET S : U \notin Without => G(U) OBVIOUS
  <1>3. \A U \in Without : \A f : ~ GoesThrough(f, U, X, base, h, pick) OBVIOUS
  <1> HIDE DEF Without, way
  <1>4. PICK U \in Without : \A V \in Without : V \subseteq U => V = U BY <1>1, SmallestSubset
  <1>5. U \in SUBSET S BY <1>1
  <1>6. \A V \in SUBSET U : V # U => V \in SUBSET S /\ G(V) BY <1>2, <1>4, <1>5
  <1> DEFINE rest(t) == t \ {pick[t]}
             F == [t \in SUBSET U |-> IF t = {} THEN base ELSE h[pick[t]][way(rest(t))[rest(t)]]]
  <1>7. \A t \in SUBSET U : t # {} => pick[t] \in t /\ pick[t] \in S /\ rest(t) \in SUBSET t /\ rest(t) # U /\ rest(t) \in SUBSET U
    BY <1>5
  <1>8. \A t \in SUBSET U : t # {} => G(rest(t)) BY <1>6, <1>7
  <1>9. ASSUME NEW t \in SUBSET U, t # {} PROVE h[pick[t]][way(rest(t))[rest(t)]] \in X
    <2>1. G(rest(t)) /\ pick[t] \in S BY <1>7, <1>8, <1>9
    <2>2. way(rest(t))[rest(t)] \in X
      <3> HIDE DEF rest
      <3> QED BY <2>1 DEF GoesThrough
    <2>3. h[pick[t]] \in [X -> X] BY <2>1
    <2> QED BY <2>2, <2>3
  <1>10. F \in [SUBSET U -> X] BY <1>9
  <1>11. F[{}] = base OBVIOUS
  <1>12. ASSUME NEW t \in SUBSET U, t # {} PROVE F[t] = h[pick[t]][F[rest(t)]]
    <2>1. F[t] = h[pick[t]][way(rest(t))[rest(t)]] BY <1>12
    <2>2. rest(t) \in SUBSET U /\ rest(t) \in SUBSET S /\ G(rest(t)) BY <1>5, <1>7, <1>8, <1>12
    <2>3. PICK r \in SUBSET U : r = rest(t) BY <2>2
    <2>4. way(r)[r] = F[r]
      <3>1. CASE r = {} BY <1>11, <2>2, <2>3, <3>1 DEF GoesThrough
      <3>2. CASE r # {}
        <4>1. way(r)[r] = h[pick[r]][way(r)[rest(r)]]
          <5>1. G(r) /\ r \in SUBSET r BY <2>2, <2>3
          <5> QED BY <3>2, <5>1 DEF GoesThrough
        <4>2. F[r] = h[pick[r]][way(rest(r))[rest(r)]] BY <3>2
        <4>3. G(r) /\ G(rest(r)) /\ r \in SUBSET S /\ rest(r) \in SUBSET S
              /\ rest(r) \in (SUBSET r) \cap (SUBSET (rest(r)))
          <5>1. rest(r) \in SUBSET r /\ rest(r) \in SUBSET U BY <1>7, <2>3, <3>2
          <5>2. r \in SUBSET S /\ rest(r) \in SUBSET S BY <1>5, <2>3, <5>1
          <5>3. G(r) /\ G(rest(r)) BY <1>8, <2>2, <2>3, <3>2
          <5>4. rest(r) \in SUBSET (rest(r)) OBVIOUS
          <5> HIDE DEF rest
          <5> QED BY <5>1, <5>2, <5>3, <5>4
        <4> HIDE DEF F, rest
        <4>4. way(r)[rest(r)] = way(rest(r))[rest(r)] BY <4>3, WaysAgree
        <4> QED BY <4>1, <4>2, <4>4
      <3> QED BY <3>1, <3>2
    <2> HIDE DEF F, rest
    <2> QED BY <2>1, <2>3, <2>4
  <1> HIDE DEF F
  <1>13. GoesThrough(F, U, X, base, h, pick) BY <1>10, <1>11, <1>12 DEF GoesThrough
  <1> QED BY <1>3, <1>13


\* The indices of a sequence, from either end.
LEMMA Indices ==
  ASSUME NEW n \in Nat
  PROVE  /\ \A i \in 1..n : Min(i..n) = i /\ i..n # {} /\ (i..n) \ {i} = (i + 1)..n /\ i..n \in SUBSET (1..n)
         /\ \A i \in 1..n : Max(1..i) = i /\ 1..i # {} /\ (1..i) \ {i} = 1..(i - 1) /\ 1..i \in SUBSET (1..n)
         /\ (n + 1)..n = {} /\ 1..0 = {}
         /\ \A s \in SUBSET (1..n) : s # {} => Min(s) \in s /\ Max(s) \in s
  <1>1. ASSUME NEW i \in 1..n
        PROVE  Min(i..n) = i /\ i..n # {} /\ (i..n) \ {i} = (i + 1)..n /\ i..n \in SUBSET (1..n)
    <2>1. i..n \in SUBSET Int /\ i \in i..n /\ \A y \in i..n : i <= y OBVIOUS
    <2>2. Min(i..n) = i BY <2>1, LeastIs
    <2>3. (i..n) \ {i} = (i + 1)..n OBVIOUS
    <2> QED BY <2>1, <2>2, <2>3
  <1>2. ASSUME NEW i \in 1..n
        PROVE  Max(1..i) = i /\ 1..i # {} /\ (1..i) \ {i} = 1..(i - 1) /\ 1..i \in SUBSET (1..n)
    <2>1. 1..i \in SUBSET Int /\ i \in 1..i /\ \A y \in 1..i : y <= i OBVIOUS
    <2>2. Max(1..i) = i BY <2>1, GreatestIs
    <2>3. (1..i) \ {i} = 1..(i - 1) OBVIOUS
    <2> QED BY <2>1, <2>2, <2>3
  <1>3. ASSUME NEW s \in SUBSET (1..n), s # {} PROVE Min(s) \in s /\ Max(s) \in s
    <2>1. s \subseteq Int /\ \A t \in s : 1 <= t /\ t <= n OBVIOUS
    <2>2. Bounded(s) BY <2>1 DEF Bounded
    <2> QED BY <1>3, <2>2, BoundedHas
  <1>4. (n + 1)..n = {} /\ 1..0 = {} OBVIOUS
  <1> QED BY <1>1, <1>2, <1>3, <1>4

-----------------------------------------------------------------------------
\* Counting back from the last of a set of times

From(S, t) == {u \in S : u >= t}

\* The last `count` of a set begin with one of it.
LEMMA CountedBack ==
  ASSUME NEW S, Bounded(S), NEW count \in Nat \ {0}, count <= Cardinality(S)
  PROVE  \E t \in S : Cardinality(From(S, t)) = count
  <1>1. IsFiniteSet(S) /\ Cardinality(S) \in Nat BY BoundedPart, FS_CardinalityType
  <1>2. \A T : T \subseteq S => IsFiniteSet(T) /\ Cardinality(T) \in Nat /\ Bounded(T)
    BY BoundedPart, FS_CardinalityType
  <1> DEFINE Bad == {k \in Nat \ {0} : k <= Cardinality(S) /\ \A t \in S : Cardinality(From(S, t)) # k}
  <1>3. SUFFICES ASSUME Bad # {} PROVE FALSE OBVIOUS
  <1>4. PICK k \in Bad : \A m \in Bad : k <= m
    <2>1. Bad \subseteq Nat OBVIOUS
    <2> HIDE DEF Bad
    <2> QED BY <1>3, <2>1, SmallestOfNat
  <1>5. k \in Nat \ {0} /\ k <= Cardinality(S) /\ \A t \in S : Cardinality(From(S, t)) # k OBVIOUS
  <1>6. S # {} BY <1>1, <1>5, FS_EmptySet
  <1>7. S \subseteq Int BY DEF Bounded
  <1>8. CASE k = 1
    <2>1. PICK t : t = Max(S) OBVIOUS
    <2>2. t \in S /\ \A u \in S : u <= t BY <1>6, <2>1, BoundedHas
    <2>5. \A u \in S : u >= t <=> u = t BY <1>7, <2>2
    <2>3. From(S, t) = {t} BY <2>2, <2>5 DEF From
    <2>4. Cardinality({t}) = 1 BY FS_Singleton
    <2> QED BY <1>5, <1>8, <2>2, <2>3, <2>4
  <1>9. CASE k > 1
    <2>1. k - 1 \in Nat \ {0} /\ k - 1 <= Cardinality(S) /\ ~(k <= k - 1) BY <1>1, <1>5, <1>9
    <2>2. PICK t \in S : Cardinality(From(S, t)) = k - 1 BY <1>4, <2>1
    <2> DEFINE rest == S \ From(S, t)
    <2>3. rest # {}
      <3>1. rest = {} => From(S, t) = S BY DEF From
      <3> QED BY <1>1, <1>5, <2>1, <2>2, <3>1
    <2>4. Bounded(rest) BY <1>2
    <2>5. PICK v : v = Max(rest) OBVIOUS
    <2>6. v \in rest /\ \A u \in rest : u <= v BY <2>3, <2>4, <2>5, BoundedHas
    <2>7. v \in S /\ v < t /\ v \notin From(S, t) BY <1>7, <2>6 DEF From
    <2>8. From(S, v) = From(S, t) \cup {v}
      <3>1. \A u \in S : u >= v <=> u >= t \/ u = v
        <4>1. TAKE u \in S
        <4>2. u \in Int /\ v \in Int /\ t \in Int BY <1>7, <2>7
        <4>3. ~(u >= t) => u \in rest BY DEF From
        <4> QED BY <2>6, <2>7, <4>2, <4>3
      <3> QED BY <2>7, <3>1 DEF From
    <2>9. IsFiniteSet(From(S, t)) BY <1>2 DEF From
    <2>10. Cardinality(From(S, v)) = Cardinality(From(S, t)) + 1 BY <2>7, <2>8, <2>9, FS_AddElement
    <2>11. Cardinality(From(S, v)) = k BY <1>5, <2>2, <2>10
    <2> QED BY <1>5, <2>7, <2>11
  <1> QED BY <1>5, <1>8, <1>9

\* Two sets with nothing in common.
LEMMA CardinalityAdds ==
  ASSUME NEW A, NEW B, IsFiniteSet(A), IsFiniteSet(B), A \cap B = {}
  PROVE  IsFiniteSet(A \cup B) /\ Cardinality(A \cup B) = Cardinality(A) + Cardinality(B)
  <1>1. Cardinality(A \cup B) = Cardinality(A) + Cardinality(B) - Cardinality(A \cap B) /\ IsFiniteSet(A \cup B)
    BY FS_Union
  <1>2. Cardinality(A \cap B) = 0 BY FS_EmptySet
  <1>3. Cardinality(A) \in Nat /\ Cardinality(B) \in Nat BY FS_CardinalityType
  <1> QED BY <1>1, <1>2, <1>3


-----------------------------------------------------------------------------
\* The first of the last ones, session after session backwards

OpensIn(s, step, end, now, lower) ==
    {b.opens : b \in {c \in SessionBins(s, step) :
                         lower <= c.opens /\ c.opens < end /\ c.closes <= now}}
BackOver(found, opens) ==
    IF found.left = 0 \/ opens = {} THEN found
    ELSE IF Cardinality(opens) >= found.left
    THEN [left |-> 0, first |-> CHOOSE t \in opens :
             Cardinality({u \in opens : u >= t}) = found.left]
    ELSE [left |-> found.left - Cardinality(opens), first |-> Min(opens)]

\* A function by which FirstOfLast goes back over the sessions.
GoesBack(f, sessions, step, end, now, lower, count) ==
    f = [s \in SUBSET (DOMAIN sessions) |->
            IF s = {} THEN [left |-> count, first |-> Absent]
            ELSE BackOver(f[s \ {Min(s)}], OpensIn(sessions[Min(s)], step, end, now, lower))]

LEMMA FirstGoesBack ==
  ASSUME NEW sessions, sessions # Absent, NEW step, NEW end, NEW now, NEW lower, NEW count
  PROVE  FirstOfLast(end, now, step, count, sessions, lower)
           = (CHOOSE f : GoesBack(f, sessions, step, end, now, lower, count))[DOMAIN sessions].first
  BY DEF FirstOfLast, FoldRight, MapThenFoldSet, GoesBack, BackOver, OpensIn

\* What the bins of a session are among all of them.
Within(S, s) == {t \in S : In(s, t)}

LEMMA OpensAre ==
  ASSUME NEW sessions, sessions # Absent, IsCalendar(sessions), NEW step \in Nat \ {0},
         NEW end \in Int, NEW now \in Int, NEW lower \in Int, NEW i \in DOMAIN sessions
  PROVE  OpensIn(sessions[i], step, end, now, lower)
           = Within(ExpectedBins(lower, end, step, sessions, now), sessions[i])
  <1> DEFINE s == sessions[i]
             opens == OpensIn(s, step, end, now, lower)
             expected == ExpectedBins(lower, end, step, sessions, now)
  <1>1. s.open \in Int /\ s.close \in Int BY SessionType
  <1>2. expected = {t \in Int : /\ IsBin(sessions, step, t) /\ lower <= t /\ t < end
                                /\ BinEnd(t, step, sessions) <= now}
    BY ExpectedAre DEF Calendar
  <1>3. SessionBins(s, step) = {[opens |-> o, closes |-> Least(o + step, s.close)] :
                                   o \in {t \in s.open..s.close - 1 : (t - s.open) % step = 0}}
    BY DEF SessionBins
  <1>4. ASSUME NEW t \in Int, In(s, t)
        PROVE  /\ BinEnd(t, step, sessions) = Least(t + step, s.close)
               /\ IsBin(sessions, step, t) <=> (t - s.open) % step = 0
    BY <1>4, BinIn
  <1> HIDE DEF s, expected
  <1>5. ASSUME NEW t \in opens PROVE t \in expected /\ In(s, t)
    <2>1. PICK c \in SessionBins(s, step) : t = c.opens /\ lower <= c.opens /\ c.opens < end /\ c.closes <= now
      BY DEF OpensIn
    <2>2. PICK o \in s.open..s.close - 1 : /\ (o - s.open) % step = 0
                                           /\ c = [opens |-> o, closes |-> Least(o + step, s.close)]
      BY <1>3, <2>1
    <2>3. t = o /\ c.closes = Least(t + step, s.close) /\ t \in Int /\ In(s, t) BY <1>1, <2>1, <2>2 DEF In
    <2>4. IsBin(sessions, step, t) /\ BinEnd(t, step, sessions) <= now BY <1>4, <2>1, <2>2, <2>3
    <2> QED BY <1>2, <2>1, <2>3, <2>4
  <1>6. ASSUME NEW t \in expected, In(s, t) PROVE t \in opens
    <2>1. t \in Int /\ IsBin(sessions, step, t) /\ lower <= t /\ t < end /\ BinEnd(t, step, sessions) <= now
      BY <1>2
    <2>2. (t - s.open) % step = 0 /\ Least(t + step, s.close) <= now BY <1>4, <1>6, <2>1
    <2>3. t \in s.open..s.close - 1 BY <1>1, <1>6, <2>1 DEF In
    <2> DEFINE c == [opens |-> t, closes |-> Least(t + step, s.close)]
    <2>4. c \in SessionBins(s, step) BY <1>3, <2>2, <2>3
    <2>5. c.opens = t /\ c.closes <= now BY <2>2
    <2> HIDE DEF c
    <2> QED BY <2>1, <2>4, <2>5 DEF OpensIn
  <1>7. opens = {t \in expected : In(s, t)} BY <1>5, <1>6
  <1> QED BY <1>7 DEF s, expected, Within

\* The first of the last `count` of a set, or of all when there are fewer.
Counted(first, S, count) ==
    /\ count = 0 => first = Absent
    /\ count > 0 /\ Cardinality(S) >= count => first \in S /\ Cardinality(From(S, first)) = count
    /\ Cardinality(S) < count => first = IF S = {} THEN Absent ELSE Min(S)
CountsBack(found, S, count) ==
    /\ found.left = IF Cardinality(S) >= count THEN 0 ELSE count - Cardinality(S)
    /\ Counted(found.first, S, count)

\* One session more.
LEMMA CountsOn ==
  ASSUME NEW S, Bounded(S), NEW count \in Nat, NEW found, CountsBack(found, S, count),
         NEW opens, Bounded(opens), \A t \in opens, u \in S : t < u
  PROVE  CountsBack(BackOver(found, opens), opens \cup S, count)
  <1> DEFINE all == opens \cup S
             back == BackOver(found, opens)
  <1> SUFFICES CountsBack(back, all, count) OBVIOUS
  <1>1. S \subseteq Int /\ opens \subseteq Int BY DEF Bounded
  <1>2. /\ IsFiniteSet(S) /\ IsFiniteSet(opens) /\ Cardinality(S) \in Nat /\ Cardinality(opens) \in Nat
    BY BoundedPart, FS_CardinalityType
  <1>3. opens \cap S = {} BY <1>1
  <1>4. IsFiniteSet(all) /\ Cardinality(all) = Cardinality(opens) + Cardinality(S)
    BY <1>2, <1>3, CardinalityAdds
  <1>5. CASE opens = {}
    <2>1. all = S /\ back = found BY <1>5 DEF BackOver
    <2> QED BY <2>1
  <1>6. CASE opens # {} /\ Cardinality(S) >= count
    <2>1. found.left = 0 /\ Counted(found.first, S, count) BY <1>6 DEF CountsBack
    <2>2. back = found BY <2>1 DEF BackOver
    <2>3. Cardinality(all) >= count /\ ~(Cardinality(all) < count) BY <1>2, <1>4, <1>6
    <2>4. ASSUME count > 0
          PROVE  found.first \in all /\ Cardinality(From(all, found.first)) = count
      <3>1. found.first \in S /\ Cardinality(From(S, found.first)) = count BY <1>6, <2>1, <2>4 DEF Counted
      <3>4. PICK x \in S : x = found.first BY <3>1
      <3>5. \A t \in opens : t < x /\ t \in Int /\ x \in Int BY <1>1, <3>4
      <3>2. \A t \in opens : ~(t >= found.first) BY <3>4, <3>5
      <3>3. From(all, found.first) = From(S, found.first) BY <3>2 DEF From
      <3> QED BY <3>1, <3>3
    <2>5. count = 0 => found.first = Absent BY <2>1 DEF Counted
    <2> HIDE DEF all, back
    <2>6. Counted(found.first, all, count) BY <2>3, <2>4, <2>5 DEF Counted
    <2> QED BY <2>1, <2>2, <2>3, <2>6 DEF CountsBack
  <1>7. CASE opens # {} /\ Cardinality(S) < count
    <2>1. /\ found.left = count - Cardinality(S) /\ found.left \in Nat \ {0} /\ count > 0
          /\ found.first = IF S = {} THEN Absent ELSE Min(S)
      BY <1>2, <1>7 DEF CountsBack, Counted
    <2>2. CASE Cardinality(opens) >= found.left
      <3> DEFINE t == CHOOSE t \in opens : Cardinality({u \in opens : u >= t}) = found.left
      <3>1. \E x \in opens : Cardinality(From(opens, x)) = found.left BY <1>2, <2>1, <2>2, CountedBack
      <3>2. t \in opens /\ Cardinality(From(opens, t)) = found.left BY <3>1 DEF From
      <3>3. back = [left |-> 0, first |-> t] BY <1>7, <2>1, <2>2 DEF BackOver
      <3> HIDE DEF t
      <3>4. From(all, t) = From(opens, t) \cup S
        <4>1. \A u \in S : u >= t BY <1>1, <3>2
        <4> QED BY <4>1 DEF From
      <3>5. From(opens, t) \cap S = {} /\ IsFiniteSet(From(opens, t)) BY <1>2, <1>3, FS_Subset DEF From
      <3>6. Cardinality(From(all, t)) = found.left + Cardinality(S) BY <1>2, <3>2, <3>4, <3>5, CardinalityAdds
      <3>7. Cardinality(From(all, t)) = count /\ t \in all BY <1>2, <2>1, <3>2, <3>6
      <3>8. Cardinality(all) >= count /\ ~(Cardinality(all) < count) BY <1>2, <1>4, <2>1, <2>2
      <3>9. back.left = 0 /\ back.first = t BY <3>3
      <3> HIDE DEF all, back
      <3>10. ~(count = 0) BY <2>1
      <3>11. Counted(t, all, count) BY <3>7, <3>8, <3>10 DEF Counted
      <3> QED BY <3>8, <3>9, <3>11 DEF CountsBack
    <2>3. CASE ~(Cardinality(opens) >= found.left)
      <3>1. back = [left |-> found.left - Cardinality(opens), first |-> Min(opens)]
        BY <1>7, <2>1, <2>3 DEF BackOver
      <3>2. Cardinality(all) < count /\ ~(Cardinality(all) >= count)
            /\ found.left - Cardinality(opens) = count - Cardinality(all)
        BY <1>2, <1>4, <2>1, <2>3
      <3>3. PICK t : t = Min(opens) OBVIOUS
      <3>4. t \in opens /\ \A u \in opens : t <= u BY <1>7, <3>3, BoundedHas
      <3>5. t \in all /\ all \in SUBSET Int /\ \A u \in all : t <= u BY <1>1, <3>4
      <3>6. Min(all) = t BY <3>5, LeastIs
      <3>7. back.left = count - Cardinality(all) /\ back.first = Min(all) /\ all # {} BY <3>1, <3>2, <3>3, <3>5, <3>6
      <3> HIDE DEF all, back
      <3>8. ~(count = 0) BY <2>1
      <3>9. Counted(Min(all), all, count) BY <3>2, <3>7, <3>8 DEF Counted
      <3> QED BY <3>2, <3>7, <3>9 DEF CountsBack
    <2> QED BY <2>2, <2>3
  <1> QED BY <1>2, <1>5, <1>6, <1>7


\* There is a function by which it goes back.
LEMMA GoingBack ==
  ASSUME NEW sessions, sessions # Absent, IsCalendar(sessions), NEW step \in Nat \ {0},
         NEW end \in Int, NEW now \in Int, NEW lower \in Int, NEW count \in Nat
  PROVE  \E f : GoesBack(f, sessions, step, end, now, lower, count)
  <1> DEFINE D == DOMAIN sessions
             X == [left : Nat, first : Int \cup {Absent}]
             base == [left |-> count, first |-> Absent]
             opens(i) == OpensIn(sessions[i], step, end, now, lower)
             h == [i \in D |-> [x \in X |-> BackOver(x, opens(i))]]
             pick == [s \in SUBSET D |-> Min(s)]
  <1>1. PICK n \in Nat : D = 1..n BY SessionType
  <1>2. IsFiniteSet(D) BY <1>1, FS_Interval
  <1>3. base \in X OBVIOUS
  <1>4. ASSUME NEW i \in D, NEW x \in X PROVE BackOver(x, opens(i)) \in X
    <2>1. Bounded(opens(i))
      <3> DEFINE expected == ExpectedBins(lower, end, step, sessions, now)
      <3>3. opens(i) = Within(expected, sessions[i]) BY OpensAre
      <3>4. expected = {t \in Int : /\ IsBin(sessions, step, t) /\ lower <= t /\ t < end
                                    /\ BinEnd(t, step, sessions) <= now}
        BY ExpectedAre DEF Calendar
      <3> HIDE DEF opens, expected
      <3>1. opens(i) \subseteq {t \in Int : lower <= t /\ t < end} BY <3>3, <3>4 DEF Within
      <3>2. opens(i) \subseteq Int /\ \A t \in opens(i) : lower <= t /\ t <= end BY <3>1
      <3> QED BY <3>2 DEF Bounded
    <2> HIDE DEF opens
    <2>2. opens(i) \subseteq Int /\ IsFiniteSet(opens(i)) /\ Cardinality(opens(i)) \in Nat
      BY <2>1, BoundedPart, FS_CardinalityType DEF Bounded
    <2>3. CASE x.left = 0 \/ opens(i) = {} BY <2>3 DEF BackOver
    <2>4. CASE x.left # 0 /\ opens(i) # {} /\ Cardinality(opens(i)) >= x.left
      <3>1. x.left \in Nat \ {0} /\ x.left <= Cardinality(opens(i)) BY <2>2, <2>4
      <3>2. \E t \in opens(i) : Cardinality({u \in opens(i) : u >= t}) = x.left
        BY <2>1, <3>1, CountedBack DEF From
      <3>3. BackOver(x, opens(i)) = [left |-> 0, first |-> CHOOSE t \in opens(i) :
                                        Cardinality({u \in opens(i) : u >= t}) = x.left]
        BY <2>4 DEF BackOver
      <3> QED BY <2>2, <3>2, <3>3
    <2>5. CASE x.left # 0 /\ opens(i) # {} /\ ~(Cardinality(opens(i)) >= x.left)
      <3>1. BackOver(x, opens(i)) = [left |-> x.left - Cardinality(opens(i)), first |-> Min(opens(i))]
        BY <2>5 DEF BackOver
      <3>2. Min(opens(i)) \in Int BY <2>1, <2>2, <2>5, BoundedHas
      <3>3. x.left - Cardinality(opens(i)) \in Nat BY <2>2, <2>5
      <3> QED BY <3>1, <3>2, <3>3
    <2> QED BY <2>3, <2>4, <2>5
  <1> HIDE DEF opens
  <1>5. h \in [D -> [X -> X]] BY <1>4
  <1>6. \A s \in SUBSET D : s # {} => pick[s] \in s BY <1>1, Indices
  <1>7. PICK f : GoesThrough(f, D, X, base, h, pick)
    <2> HIDE DEF D, X, base, h, pick
    <2> QED BY <1>2, <1>3, <1>5, <1>6, GoingThrough
  <1>8. f \in [SUBSET D -> X] /\ f[{}] = base BY <1>7 DEF GoesThrough
  <1>9. ASSUME NEW s \in SUBSET D, s # {}
        PROVE  f[s] = BackOver(f[s \ {Min(s)}], opens(Min(s)))
    <2>1. f[s] = h[pick[s]][f[s \ {pick[s]}]] BY <1>7, <1>9 DEF GoesThrough
    <2>2. Min(s) \in D /\ pick[s] = Min(s) BY <1>6, <1>9
    <2>3. f[s \ {Min(s)}] \in X BY <1>8
    <2> QED BY <2>1, <2>2, <2>3
  <1>10. \A s \in SUBSET D : f[s] = IF s = {} THEN base ELSE BackOver(f[s \ {Min(s)}], opens(Min(s)))
    BY <1>8, <1>9
  <1> HIDE DEF X, h, pick, base
  <1>11. f = [s \in SUBSET D |-> IF s = {} THEN base ELSE BackOver(f[s \ {Min(s)}], opens(Min(s)))]
    BY <1>8, <1>10
  <1> QED BY <1>11, Zenon DEF GoesBack, D, base, opens

\* The window of the last ones begins where as many as asked for begin.
LEMMA FirstOfLastIs ==
  ASSUME NEW sessions, sessions # Absent, IsCalendar(sessions), NEW step \in Nat \ {0},
         NEW end \in Int, NEW now \in Int, NEW lower \in Int, NEW count \in Nat
  PROVE  Counted(FirstOfLast(end, now, step, count, sessions, lower),
                 ExpectedBins(lower, end, step, sessions, now), count)
  <1> DEFINE f == CHOOSE f : GoesBack(f, sessions, step, end, now, lower, count)
             opens(i) == OpensIn(sessions[i], step, end, now, lower)
             all == ExpectedBins(lower, end, step, sessions, now)
  <1>1. GoesBack(f, sessions, step, end, now, lower, count) BY GoingBack
  <1>2. FirstOfLast(end, now, step, count, sessions, lower) = f[DOMAIN sessions].first BY FirstGoesBack
  <1>3. PICK n \in Nat : DOMAIN sessions = 1..n BY SessionType
  <1>4. \A s \in SUBSET (1..n) :
           f[s] = IF s = {} THEN [left |-> count, first |-> Absent]
                  ELSE BackOver(f[s \ {Min(s)}], opens(Min(s)))
    <2> HIDE DEF f
    <2> QED BY <1>1, <1>3, Zenon DEF GoesBack
  <1> HIDE DEF f
  <1>5. \A i \in 1..n : f[i..n] = BackOver(f[(i + 1)..n], opens(i))
    <2>1. TAKE i \in 1..n
    <2>2. Min(i..n) = i /\ i..n # {} /\ (i..n) \ {i} = (i + 1)..n /\ i..n \in SUBSET (1..n) BY Indices
    <2> HIDE DEF opens
    <2>3. f[i..n] = BackOver(f[(i..n) \ {Min(i..n)}], opens(Min(i..n))) BY <1>4, <2>2
    <2> QED BY <2>2, <2>3
  <1>6. f[(n + 1)..n] = [left |-> count, first |-> Absent]
    <2>1. (n + 1)..n = {} /\ {} \in SUBSET (1..n) OBVIOUS
    <2> QED BY <1>4, <2>1
  <1>14. all = {t \in Int : /\ IsBin(sessions, step, t) /\ lower <= t /\ t < end
                            /\ BinEnd(t, step, sessions) <= now}
    BY ExpectedAre DEF Calendar
  <1>15. \A i \in 1..n : opens(i) = Within(all, sessions[i]) BY <1>3, OpensAre
  <1> HIDE DEF opens, all
  <1>7. /\ all = {t \in Int : /\ IsBin(sessions, step, t) /\ lower <= t /\ t < end
                              /\ BinEnd(t, step, sessions) <= now}
        /\ \A i \in 1..n : opens(i) = {t \in all : In(sessions[i], t)}
    BY <1>14, <1>15 DEF Within
  <1>8. \A t \in all : t \in Int /\ \E i \in 1..n : In(sessions[i], t) BY <1>3, <1>7 DEF IsBin
  <1>9. Bounded(all)
    <2>1. all \subseteq Int /\ \A t \in all : lower <= t /\ t <= end BY <1>7
    <2> QED BY <2>1 DEF Bounded
  <1> DEFINE K(i) == {t \in all : \E j \in i..n : In(sessions[j], t)}
             Good(i) == CountsBack(f[i..n], K(i), count)
  <1>10. Good(n + 1)
    <2>1. K(n + 1) = {} OBVIOUS
    <2>2. Cardinality({}) = 0 BY FS_EmptySet
    <2>3. Counted(Absent, {}, count) BY <2>2 DEF Counted
    <2>4. CountsBack([left |-> count, first |-> Absent], {}, count) BY <2>2, <2>3 DEF CountsBack
    <2> QED BY <1>6, <2>1, <2>4
  <1>11. ASSUME NEW i \in 1..n, Good(i + 1) PROVE Good(i)
    <2>1. K(i) = opens(i) \cup K(i + 1)
      <3>1. \A t \in all : (\E j \in i..n : In(sessions[j], t))
                            <=> In(sessions[i], t) \/ \E j \in (i + 1)..n : In(sessions[j], t)
        <4>1. \A j : j \in i..n <=> j = i \/ j \in (i + 1)..n OBVIOUS
        <4> QED BY <4>1
      <3> QED BY <1>7, <3>1
    <2>2. Bounded(opens(i)) /\ Bounded(K(i + 1)) BY <1>7, <1>9, BoundedPart
    <2>3. ASSUME NEW t \in opens(i), NEW u \in K(i + 1) PROVE t < u
      <3>1. PICK j \in (i + 1)..n : In(sessions[j], u) OBVIOUS
      <3>2. j \in 1..n /\ i < j OBVIOUS
      <3>3. sessions[i].close <= sessions[j].open BY <1>3, <3>2, SessionsInTurn
      <3>4. /\ sessions[i].open \in Int /\ sessions[i].close \in Int /\ sessions[j].open \in Int
            /\ t \in Int /\ u \in Int
        BY <1>3, <1>7, <1>8, <3>2, SessionType
      <3>5. t < sessions[i].close /\ sessions[j].open <= u BY <1>7, <3>1 DEF In
      <3> QED BY <3>3, <3>4, <3>5
    <2> HIDE DEF K
    <2>4. CountsBack(BackOver(f[(i + 1)..n], opens(i)), opens(i) \cup K(i + 1), count)
      BY <1>11, <2>2, <2>3, CountsOn
    <2> QED BY <1>5, <2>1, <2>4
  <1> HIDE DEF K, Good
  <1>12. Good(1)
    <2> DEFINE Bad == {k \in Nat : k <= n /\ ~Good(n + 1 - k)}
    <2>1. SUFFICES ASSUME Bad # {} PROVE FALSE
      <3>1. n \in Nat /\ n <= n /\ n + 1 - n = 1 OBVIOUS
      <3>2. n \notin Bad => Good(n + 1 - n) BY <3>1
      <3>3. Good(n + 1 - n) => Good(1) BY <3>1
      <3> QED BY <3>2, <3>3
    <2>2. PICK k \in Bad : \A m \in Bad : k <= m
      <3>1. Bad \subseteq Nat OBVIOUS
      <3> HIDE DEF Bad
      <3> QED BY <2>1, <3>1, SmallestOfNat
    <2>3. k \in Nat /\ k <= n /\ ~Good(n + 1 - k) OBVIOUS
    <2>4. k # 0
      <3>1. n + 1 - 0 = n + 1 OBVIOUS
      <3> QED BY <1>10, <2>3, <3>1
    <2>5. k - 1 \in Nat /\ k - 1 <= n /\ ~(k <= k - 1) BY <2>3, <2>4
    <2>6. Good(n + 1 - (k - 1)) BY <2>2, <2>5
    <2>7. n + 1 - k \in 1..n /\ n + 1 - (k - 1) = (n + 1 - k) + 1 BY <2>3, <2>4
    <2>8. Good((n + 1 - k) + 1) BY <2>6, <2>7
    <2> QED BY <1>11, <2>3, <2>7, <2>8
  <1>13. K(1) = all BY <1>8 DEF K
  <1> QED BY <1>2, <1>3, <1>12, <1>13 DEF Good, CountsBack, all


-----------------------------------------------------------------------------
\* The state of the service

BaseOf(m, step) == IF m.sessions = Absent \/ step = Day THEN step ELSE Min(Timeframes)
Asking(ask) == ask \in [last : BOOLEAN, step : Timeframes, start : Int, limit : Nat, end : Int]

\* A request with all that is known of it.
Shaped(r) ==
    r = [at |-> r.at, ask |-> r.ask, why |-> r.why, now |-> r.now, first |-> r.first,
         start |-> r.start, plan |-> r.plan, blobs |-> r.blobs, set |-> r.set]

\* The window of the last candles is the one that is as of the live chunk.
WindowOf(m, r, asOf) ==
    LET start == FirstOfLast(r.ask.end, asOf, r.ask.step, r.ask.limit, m.sessions, r.first)
    IN  IF start = Absent THEN r.ask.end ELSE start
Windowed(m, r) ==
    /\ \A p \in r.plan : p.kind = "live" => p.label \in DOMAIN r.blobs
    /\ r.start = WindowOf(m, r, AsOf(r))

Loaded(m, r) ==
    LET base == BaseOf(m, r.ask.step)
    IN  IF r.first = Absent THEN r.plan = {}
        ELSE /\ Planned(m, r, base)
             /\ \A label \in DOMAIN r.blobs : ChunkOK(m, base, label, r.blobs[label])
             /\ r.ask.last => Windowed(m, r)

LookedUp(now, r) ==
    r.at \in {"found", "reading", "done"}
        => r.now \in Int /\ r.now <= now /\ r.first \in Int \cup {Absent}
RequestOK(m, now, r) ==
    /\ LookedUp(now, r)
    /\ r.at \in {"idle", "asked", "found", "reading", "done", "failed"}
    /\ r.at # "idle" => Shaped(r)
    /\ r.at = "failed" => r.why # "bug"
    /\ r.at \in {"asked", "found", "reading", "done"} => Asking(r.ask)
    /\ r.at \in {"asked", "found"} => r.blobs = <<>>
    /\ r.at \in {"reading", "done"} => Loaded(m, r)
    /\ r.at = "done" => /\ \A p \in r.plan : p.label \in DOMAIN r.blobs
                        /\ r.first # Absent => WholeSet(m, r)

CacheOK(m, chunks) == \A key \in DOMAIN chunks : ChunkOK(m, key[1], key[2], chunks[key])

ServiceInv ==
    /\ market \in Markets /\ clock \in Int /\ clock <= ClockMax
    /\ CacheOK(market, cache)
    /\ request = [c \in Callers |-> request[c]]
    /\ \A c \in Callers : RequestOK(market, clock, request[c])

LEMMA BasesOf ==
  ASSUME NEW step
  PROVE  BaseTimeframe(step) = BaseOf(market, step)
  BY DEF BaseTimeframe, BaseOf

LEMMA TimesOn ==
  ASSUME NEW m, NEW now \in Int, NEW later \in Int, now <= later, NEW r, RequestOK(m, now, r)
  PROVE  RequestOK(m, later, r)
  <1>0. LookedUp(now, r) BY DEF RequestOK
  <1>1. LookedUp(later, r)
    <2>1. SUFFICES ASSUME r.at \in {"found", "reading", "done"}
                   PROVE  r.now \in Int /\ r.now <= later /\ r.first \in Int \cup {Absent}
      BY DEF LookedUp
    <2>2. r.now \in Int /\ r.now <= now /\ r.first \in Int \cup {Absent} BY <1>0, <2>1 DEF LookedUp
    <2>3. PICK t \in Int : t = r.now BY <2>2
    <2>4. t <= now BY <2>2, <2>3
    <2>5. t <= later BY <2>3, <2>4
    <2> QED BY <2>2, <2>3, <2>5
  <1> QED BY <1>1 DEF RequestOK

\* What is left alone by a step of a caller.
LEMMA OthersStay ==
  ASSUME ServiceInv, NEW c \in Callers, market' = market, clock' = clock, CacheOK(market, cache'),
         NEW r, request' = [request EXCEPT ![c] = r], RequestOK(market, clock, r)
  PROVE  ServiceInv'
  <1>1. request = [d \in Callers |-> request[d]] BY DEF ServiceInv
  <1>2. request' = [d \in Callers |-> IF d = c THEN r ELSE request[d]] BY <1>1
  <1>3. \A d \in Callers : request'[d] = IF d = c THEN r ELSE request[d] BY <1>2
  <1>4. request' = [d \in Callers |-> request'[d]] BY <1>2
  <1>5. ASSUME NEW d \in Callers PROVE RequestOK(market, clock, request'[d])
    <2>1. CASE d = c BY <1>3, <2>1
    <2>2. CASE d # c
      <3>1. request'[d] = request[d] BY <1>3, <2>2
      <3>2. RequestOK(market, clock, request[d]) BY DEF ServiceInv
      <3> QED BY <3>1, <3>2
    <2> QED BY <2>1, <2>2
  <1>6. market' \in Markets /\ clock' \in Int /\ clock' <= ClockMax BY DEF ServiceInv
  <1>7. \A d \in Callers : RequestOK(market', clock', request'[d]) BY <1>5
  <1>8. CacheOK(market', cache') OBVIOUS
  <1> QED BY <1>4, <1>6, <1>7, <1>8 DEF ServiceInv

LEMMA InitOK == ServiceInit => ServiceInv
  <1> SUFFICES ASSUME ServiceInit PROVE ServiceInv OBVIOUS
  <1>1. market \in Markets /\ clock = market.opens BY DEF ServiceInit
  <1>2. market.opens \in 0..ClockMax /\ ClockMax \in Nat BY <1>1, CandleServiceAssumption
  <1>3. clock \in Int /\ clock <= ClockMax BY <1>1, <1>2
  <1>4. cache = <<>> /\ request = [c \in Callers |-> Idle] BY DEF ServiceInit
  <1>5. CacheOK(market, cache) BY <1>4 DEF CacheOK
  <1>6. \A c \in Callers : RequestOK(market, clock, Idle) BY DEF RequestOK, LookedUp, Idle
  <1>7. request = [c \in Callers |-> request[c]] /\ \A c \in Callers : request[c] = Idle BY <1>4
  <1> QED BY <1>1, <1>3, <1>5, <1>6, <1>7 DEF ServiceInv

LEMMA TickOK == ServiceInv /\ Tick => ServiceInv'
  <1> SUFFICES ASSUME ServiceInv, Tick PROVE ServiceInv' OBVIOUS
  <1>1. clock \in Int /\ ClockMax \in Nat BY CandleServiceAssumption DEF ServiceInv
  <1>2. clock' \in Int /\ clock' <= ClockMax /\ clock <= clock' BY <1>1 DEF Tick
  <1>3. market' = market /\ cache' = cache /\ request' = request BY DEF Tick
  <1>4. \A c \in Callers : RequestOK(market, clock', request[c]) BY <1>1, <1>2, TimesOn DEF ServiceInv
  <1> QED BY <1>2, <1>3, <1>4 DEF ServiceInv

LEMMA LoseOK == ASSUME NEW key \in DOMAIN cache PROVE ServiceInv /\ Lose(key) => ServiceInv'
  <1> SUFFICES ASSUME ServiceInv, Lose(key) PROVE ServiceInv' OBVIOUS
  <1>1. market' = market /\ clock' = clock /\ request' = request BY DEF Lose
  <1>2. CacheOK(market, cache') BY DEF Lose, ServiceInv, CacheOK
  <1> QED BY <1>1, <1>2 DEF ServiceInv

LEMMA AskOK == ASSUME NEW c \in Callers, NEW ask \in Asks(market) PROVE ServiceInv /\ Ask(c, ask) => ServiceInv'
  <1> SUFFICES ASSUME ServiceInv, Ask(c, ask) PROVE ServiceInv' OBVIOUS
  <1> DEFINE end == IF ask.end = Absent THEN clock ELSE ask.end
             r == [at |-> "asked", ask |-> [ask EXCEPT !.end = end], why |-> "",
                   now |-> Absent, first |-> Absent, start |-> ask.start,
                   plan |-> {}, blobs |-> <<>>, set |-> Absent]
  <1>1. ask \in [last : BOOLEAN, step : Timeframes, start : Int, limit : Nat, end : Int \cup {Absent}]
    BY CandleServiceAssumption DEF ServiceInv
  <1>2. clock \in Int BY DEF ServiceInv
  <1>3. end \in Int BY <1>1, <1>2
  <1> HIDE DEF end
  <1>4. Asking([ask EXCEPT !.end = end]) BY <1>1, <1>3 DEF Asking
  <1>5. request' = [request EXCEPT ![c] = r] /\ market' = market /\ clock' = clock /\ cache' = cache
    BY DEF Ask, end
  <1>6. RequestOK(market, clock, r) BY <1>4 DEF RequestOK, LookedUp, Shaped
  <1>7. CacheOK(market, cache') BY <1>5 DEF ServiceInv
  <1> HIDE DEF r
  <1> QED BY <1>5, <1>6, <1>7, OthersStay

\* What a caller's request is.
LEMMA RequestsAre ==
  ASSUME ServiceInv, NEW c \in Callers
  PROVE  /\ RequestOK(market, clock, request[c]) /\ Market(market) /\ clock \in Int
         /\ CacheOK(market, cache)
  BY MarketsAreGood DEF ServiceInv

LEMMA FailsOK ==
  ASSUME ServiceInv, NEW c \in Callers, NEW why, why # "bug", request[c].at # "idle",
         Fails(c, why), UNCHANGED <<market, clock, cache>>
  PROVE  ServiceInv'
  <1> DEFINE r == [request[c] EXCEPT !.at = "failed", !.why = why]
  <1>1. Shaped(request[c]) BY RequestsAre DEF RequestOK
  <1>2. request = [d \in Callers |-> request[d]] BY DEF ServiceInv
  <1>3. request' = [request EXCEPT ![c] = r] BY <1>2 DEF Fails
  <1>4. r = [at |-> "failed", ask |-> request[c].ask, why |-> why, now |-> request[c].now,
             first |-> request[c].first, start |-> request[c].start, plan |-> request[c].plan,
             blobs |-> request[c].blobs, set |-> request[c].set]
    <2>1. PICK at, ask, old, now, first, start, plan, blobs, set :
            request[c] = [at |-> at, ask |-> ask, why |-> old, now |-> now, first |-> first,
                          start |-> start, plan |-> plan, blobs |-> blobs, set |-> set]
      BY <1>1 DEF Shaped
    <2> DEFINE failed == [request[c] EXCEPT !.at = "failed"]
    <2>2. failed = [at |-> "failed", ask |-> ask, why |-> old, now |-> now, first |-> first,
                    start |-> start, plan |-> plan, blobs |-> blobs, set |-> set]
      BY <2>1
    <2>3. r = [failed EXCEPT !.why = why] BY Zenon
    <2> HIDE DEF failed, r
    <2>4. r = [at |-> "failed", ask |-> ask, why |-> why, now |-> now, first |-> first,
               start |-> start, plan |-> plan, blobs |-> blobs, set |-> set]
      BY <2>2, <2>3
    <2> QED BY <2>1, <2>4
  <1> HIDE DEF r
  <1>5. RequestOK(market, clock, r) BY <1>4 DEF RequestOK, LookedUp, Shaped
  <1>6. CacheOK(market, cache') BY RequestsAre
  <1> QED BY <1>3, <1>5, <1>6, OthersStay

LEMMA RefuseOK == ASSUME NEW c \in Callers PROVE ServiceInv /\ Refuse(c) => ServiceInv'
  <1> SUFFICES ASSUME ServiceInv, Refuse(c) PROVE ServiceInv' OBVIOUS
  <1>1. request[c].at # "idle" BY DEF Refuse
  <1>2. "period" # "bug" /\ "candles" # "bug" OBVIOUS
  <1> QED BY <1>1, <1>2, FailsOK DEF Refuse

LEMMA FailOK == ASSUME NEW c \in Callers PROVE ServiceInv /\ Fail(c) => ServiceInv'
  <1> SUFFICES ASSUME ServiceInv, Fail(c) PROVE ServiceInv' OBVIOUS
  <1>1. request[c].at # "idle" /\ "source" # "bug" BY DEF Fail
  <1> QED BY <1>1, FailsOK DEF Fail


-----------------------------------------------------------------------------
\* What a step makes of a request

LEMMA FailedShape ==
  ASSUME NEW r, Shaped(r), NEW newAt, NEW newWhy
  PROVE  [r EXCEPT !.at = newAt, !.why = newWhy]
           = [at |-> newAt, ask |-> r.ask, why |-> newWhy, now |-> r.now, first |-> r.first,
             start |-> r.start, plan |-> r.plan, blobs |-> r.blobs, set |-> r.set]
  <1>1. PICK at, ask, why, now, first, start, plan, blobs, set :
          r = [at |-> at, ask |-> ask, why |-> why, now |-> now, first |-> first,
               start |-> start, plan |-> plan, blobs |-> blobs, set |-> set]
    BY DEF Shaped
  <1> DEFINE s1 == [r EXCEPT !.at = newAt]
  <1>2. s1 = [at |-> newAt, ask |-> ask, why |-> why, now |-> now, first |-> first,
               start |-> start, plan |-> plan, blobs |-> blobs, set |-> set]
    BY <1>1
  <1> HIDE DEF s1
  <1> DEFINE s2 == [s1 EXCEPT !.why = newWhy]
  <1>3. s2 = [at |-> newAt, ask |-> ask, why |-> newWhy, now |-> now, first |-> first,
               start |-> start, plan |-> plan, blobs |-> blobs, set |-> set]
    BY <1>2
  <1> HIDE DEF s2
  <1>4. [r EXCEPT !.at = newAt, !.why = newWhy] = s2 BY Zenon DEF s1, s2
  <1> QED BY <1>1, <1>3, <1>4

\* What a request becomes that is looked up.
FoundAt(q, at, now, first) == [q EXCEPT !.at = at, !.now = now, !.first = first]

LEMMA FoundAre ==
  ASSUME NEW r, Shaped(r), NEW newAt, NEW newNow, NEW newFirst
  PROVE  FoundAt(r, newAt, newNow, newFirst)
           = [at |-> newAt, ask |-> r.ask, why |-> r.why, now |-> newNow, first |-> newFirst,
             start |-> r.start, plan |-> r.plan, blobs |-> r.blobs, set |-> r.set]
  <1>1. PICK at, ask, why, now, first, start, plan, blobs, set :
          r = [at |-> at, ask |-> ask, why |-> why, now |-> now, first |-> first,
               start |-> start, plan |-> plan, blobs |-> blobs, set |-> set]
    BY DEF Shaped
  <1> DEFINE s1 == [r EXCEPT !.at = newAt]
  <1>2. s1 = [at |-> newAt, ask |-> ask, why |-> why, now |-> now, first |-> first,
               start |-> start, plan |-> plan, blobs |-> blobs, set |-> set]
    BY <1>1
  <1> HIDE DEF s1
  <1> DEFINE s2 == [s1 EXCEPT !.now = newNow]
  <1>3. s2 = [at |-> newAt, ask |-> ask, why |-> why, now |-> newNow, first |-> first,
               start |-> start, plan |-> plan, blobs |-> blobs, set |-> set]
    BY <1>2
  <1> HIDE DEF s2
  <1> DEFINE s3 == [s2 EXCEPT !.first = newFirst]
  <1>4. s3 = [at |-> newAt, ask |-> ask, why |-> why, now |-> newNow, first |-> newFirst,
               start |-> start, plan |-> plan, blobs |-> blobs, set |-> set]
    BY <1>3
  <1> HIDE DEF s3
  <1>5. FoundAt(r, newAt, newNow, newFirst) = s3 BY Zenon DEF FoundAt, s1, s2, s3
  <1> QED BY <1>1, <1>4, <1>5

LEMMA LoadsShape ==
  ASSUME NEW r, Shaped(r), NEW newAt, NEW newStart, NEW newPlan
  PROVE  [r EXCEPT !.at = newAt, !.start = newStart, !.plan = newPlan]
           = [at |-> newAt, ask |-> r.ask, why |-> r.why, now |-> r.now, first |-> r.first,
             start |-> newStart, plan |-> newPlan, blobs |-> r.blobs, set |-> r.set]
  <1>1. PICK at, ask, why, now, first, start, plan, blobs, set :
          r = [at |-> at, ask |-> ask, why |-> why, now |-> now, first |-> first,
               start |-> start, plan |-> plan, blobs |-> blobs, set |-> set]
    BY DEF Shaped
  <1> DEFINE s1 == [r EXCEPT !.at = newAt]
  <1>2. s1 = [at |-> newAt, ask |-> ask, why |-> why, now |-> now, first |-> first,
               start |-> start, plan |-> plan, blobs |-> blobs, set |-> set]
    BY <1>1
  <1> HIDE DEF s1
  <1> DEFINE s2 == [s1 EXCEPT !.start = newStart]
  <1>3. s2 = [at |-> newAt, ask |-> ask, why |-> why, now |-> now, first |-> first,
               start |-> newStart, plan |-> plan, blobs |-> blobs, set |-> set]
    BY <1>2
  <1> HIDE DEF s2
  <1> DEFINE s3 == [s2 EXCEPT !.plan = newPlan]
  <1>4. s3 = [at |-> newAt, ask |-> ask, why |-> why, now |-> now, first |-> first,
               start |-> newStart, plan |-> newPlan, blobs |-> blobs, set |-> set]
    BY <1>3
  <1> HIDE DEF s3
  <1>5. [r EXCEPT !.at = newAt, !.start = newStart, !.plan = newPlan] = s3 BY Zenon DEF s1, s2, s3
  <1> QED BY <1>1, <1>4, <1>5

LEMMA BlobsShape ==
  ASSUME NEW r, Shaped(r), NEW newBlobs
  PROVE  [r EXCEPT !.blobs = newBlobs]
           = [at |-> r.at, ask |-> r.ask, why |-> r.why, now |-> r.now, first |-> r.first,
             start |-> r.start, plan |-> r.plan, blobs |-> newBlobs, set |-> r.set]
  <1>1. PICK at, ask, why, now, first, start, plan, blobs, set :
          r = [at |-> at, ask |-> ask, why |-> why, now |-> now, first |-> first,
               start |-> start, plan |-> plan, blobs |-> blobs, set |-> set]
    BY DEF Shaped
  <1> DEFINE s1 == [r EXCEPT !.blobs = newBlobs]
  <1>2. s1 = [at |-> at, ask |-> ask, why |-> why, now |-> now, first |-> first,
               start |-> start, plan |-> plan, blobs |-> newBlobs, set |-> set]
    BY <1>1
  <1> HIDE DEF s1
  <1> QED BY <1>1, <1>2 DEF s1

LEMMA DoneShape ==
  ASSUME NEW r, Shaped(r), NEW newAt, NEW newSet
  PROVE  [r EXCEPT !.at = newAt, !.set = newSet]
           = [at |-> newAt, ask |-> r.ask, why |-> r.why, now |-> r.now, first |-> r.first,
             start |-> r.start, plan |-> r.plan, blobs |-> r.blobs, set |-> newSet]
  <1>1. PICK at, ask, why, now, first, start, plan, blobs, set :
          r = [at |-> at, ask |-> ask, why |-> why, now |-> now, first |-> first,
               start |-> start, plan |-> plan, blobs |-> blobs, set |-> set]
    BY DEF Shaped
  <1> DEFINE s1 == [r EXCEPT !.at = newAt]
  <1>2. s1 = [at |-> newAt, ask |-> ask, why |-> why, now |-> now, first |-> first,
               start |-> start, plan |-> plan, blobs |-> blobs, set |-> set]
    BY <1>1
  <1> HIDE DEF s1
  <1> DEFINE s2 == [s1 EXCEPT !.set = newSet]
  <1>3. s2 = [at |-> newAt, ask |-> ask, why |-> why, now |-> now, first |-> first,
               start |-> start, plan |-> plan, blobs |-> blobs, set |-> newSet]
    BY <1>2
  <1> HIDE DEF s2
  <1>4. [r EXCEPT !.at = newAt, !.set = newSet] = s2 BY Zenon DEF s1, s2
  <1> QED BY <1>1, <1>3, <1>4


\* The first candle of an instrument, and the bin it is in.
LEMMA FirstIs ==
  ASSUME Market(market), NEW step \in Timeframes, FirstTimestamp # Absent
  PROVE  BinOpen(FirstTimestamp, step, market.sessions) \in Int
  <1> DEFINE ss == market.sessions
             opens == IF ss = Absent THEN market.traded
                      ELSE {s.open : s \in {x \in ToSet(ss) : Traded(x.open, x.close) # {}}}
  <1>1. step \in Nat \ {0} BY Steps
  <1>2. FirstTimestamp = IF opens = {} THEN Absent ELSE Min(opens) BY DEF FirstTimestamp
  <1>3. opens \subseteq Nat
    <2>1. CASE ss = Absent BY <2>1 DEF Market
    <2>2. CASE ss # Absent
      <3>1. IsCalendar(ss) BY <2>2 DEF Market, Calendar
      <3>2. \A s \in ToSet(ss) : s.open \in Nat BY <3>1, SessionType
      <3>3. opens = {s.open : s \in {x \in ToSet(ss) : Traded(x.open, x.close) # {}}} BY <2>2
      <3> HIDE DEF opens
      <3> QED BY <3>2, <3>3
    <2> QED BY <2>1, <2>2
  <1>4. opens # {} /\ FirstTimestamp = Min(opens) BY <1>2
  <1>5. Min(opens) \in opens
    <2>1. opens \in SUBSET Int /\ \A x \in opens : 0 <= x BY <1>3
    <2> HIDE DEF opens
    <2> QED BY <1>4, <2>1, LeastOf
  <1>6. PICK t \in Nat : t = FirstTimestamp BY <1>3, <1>4, <1>5
  <1> HIDE DEF opens
  <1>7. CASE ss = Absent
    <2>1. (t \div step) * step \in Int BY <1>1, Floors
    <2> QED BY <1>6, <1>7, <2>1 DEF BinOpen
  <1>8. CASE ss # Absent
    <2>1. IsCalendar(ss) BY <1>8 DEF Market, Calendar
    <2> DEFINE s == Begun(ss, t)
    <2>2. CASE s = Absent BY <1>6, <1>8, <2>2 DEF BinOpen
    <2>3. CASE s # Absent
      <3>1. PICK i \in DOMAIN ss : s = ss[i] BY <2>1, <2>3, BegunSome, BegunIs DEF LastBegun
      <3>2. s.open \in Int BY <2>1, <3>1, SessionType
      <3>3. t - s.open \in Int BY <3>2
      <3>4. ((t - s.open) \div step) * step \in Int BY <1>1, <3>3, Floors
      <3>5. BinOpen(t, step, ss) = IF t >= s.close THEN t ELSE s.open + ((t - s.open) \div step) * step
        BY <1>8, <2>3 DEF BinOpen
      <3> HIDE DEF s
      <3>6. s.open + ((t - s.open) \div step) * step \in Int BY <3>2, <3>4
      <3> QED BY <1>6, <3>5, <3>6
    <2> QED BY <2>2, <2>3
  <1> QED BY <1>7, <1>8

LEMMA LookUpOK == ASSUME NEW c \in Callers PROVE ServiceInv /\ LookUp(c) => ServiceInv'
  <1> SUFFICES ASSUME ServiceInv, LookUp(c) PROVE ServiceInv' OBVIOUS
  <1> DEFINE q == request[c]
             first == IF FirstTimestamp = Absent THEN Absent
                      ELSE BinOpen(FirstTimestamp, Asked(c).step, market.sessions)
             r == FoundAt(q, "found", clock, first)
  <1>1. request = [d \in Callers |-> request[d]] BY DEF ServiceInv
  <1>2. request' = [request EXCEPT ![c] = r] /\ UNCHANGED <<market, clock, cache>> BY <1>1 DEF LookUp, FoundAt
  <1>3. RequestOK(market, clock, q) /\ Market(market) /\ clock \in Int /\ CacheOK(market, cache') BY <1>2, RequestsAre
  <1>4. q.at = "asked" BY DEF LookUp
  <1>5. Shaped(q) /\ Asking(q.ask) /\ q.blobs = <<>> BY <1>3, <1>4 DEF RequestOK
  <1>6. first \in Int \cup {Absent}
    <2>1. Asked(c).step \in Timeframes BY <1>5 DEF Asked, Asking
    <2> QED BY <1>3, <2>1, FirstIs
  <1> HIDE DEF first, q
  <1>7. r = [at |-> "found", ask |-> q.ask, why |-> q.why, now |-> clock, first |-> first,
             start |-> q.start, plan |-> q.plan, blobs |-> q.blobs, set |-> q.set]
    <2>1. Shaped(q) BY <1>5
    <2> QED BY ONLY <2>1, FoundAre
  <1> HIDE DEF r
  <1>11. r.now = clock /\ r.first = first BY <1>7
  <1>12. clock <= clock BY <1>3
  <1>10. r.now = clock /\ r.first = first /\ clock <= clock BY <1>11, <1>12
  <1>8. LookedUp(clock, r) BY <1>3, <1>6, <1>10 DEF LookedUp
  <1>9. RequestOK(market, clock, r) BY <1>5, <1>7, <1>8 DEF RequestOK, Shaped
  <1> QED BY <1>2, <1>3, <1>9, OthersStay

\* What is planned when a request starts to read.
LEMMA LoadsAre ==
  ASSUME NEW q, Shaped(q), NEW start
  PROVE  Loads(q, start)
           = [at |-> "reading", ask |-> q.ask, why |-> q.why, now |-> q.now, first |-> q.first,
              start |-> start,
              plan |-> IF q.first = Absent THEN {}
                       ELSE Periods(BaseTimeframe(q.ask.step), start, q.ask.end, q.now),
              blobs |-> q.blobs, set |-> q.set]
  BY LoadsShape DEF Loads

\* A plan is one as of the time of the lookup.
LEMMA PlansAre ==
  ASSUME NEW r, Asking(r.ask), r.start \in Int, r.now \in Int, r.ask.end <= r.now,
         r.plan = Periods(BaseTimeframe(r.ask.step), r.start, r.ask.end, r.now)
  PROVE  Planned(market, r, BaseOf(market, r.ask.step))
  <1>1. r.ask.step \in Timeframes /\ r.ask.end \in Int BY DEF Asking
  <1>2. r.plan = PlanPeriods(r.start, r.ask.end, r.now - market.delay,
                             Yearly(market, BaseOf(market, r.ask.step)), market.daily)
    BY BasesOf DEF Periods, Yearly
  <1> QED BY <1>1, <1>2 DEF Planned

LEMMA LoadOK == ASSUME NEW c \in Callers PROVE ServiceInv /\ Load(c) => ServiceInv'
  <1> SUFFICES ASSUME ServiceInv, Load(c) PROVE ServiceInv' OBVIOUS
  <1> DEFINE q == request[c]
             start == IF q.ask.last THEN q.ask.end ELSE q.ask.start
             r == Loads(q, start)
  <1>1. request = [d \in Callers |-> request[d]] BY DEF ServiceInv
  <1>2. request' = [request EXCEPT ![c] = r] /\ UNCHANGED <<market, clock, cache>> BY <1>1 DEF Load
  <1>3. RequestOK(market, clock, q) /\ Market(market) /\ clock \in Int /\ CacheOK(market, cache') BY <1>2, RequestsAre
  <1>4. q.at = "found" /\ ~(q.ask.end > q.now) /\ (q.ask.last => q.first = Absent)
    BY DEF Load, OutOfRange, Asked
  <1>5. Shaped(q) /\ Asking(q.ask) /\ q.blobs = <<>> /\ LookedUp(clock, q) BY <1>3, <1>4 DEF RequestOK
  <1>6. q.now \in Int /\ q.now <= clock /\ q.first \in Int \cup {Absent} BY <1>4, <1>5 DEF LookedUp
  <1>7. q.ask.end \in Int /\ q.ask.start \in Int /\ q.ask.last \in BOOLEAN BY <1>5 DEF Asking
  <1>8. start \in Int BY <1>7
  <1>9. q.ask.end <= q.now
    <2>1. PICK end \in Int, now \in Int : end = q.ask.end /\ now = q.now BY <1>6, <1>7
    <2>2. ~(end > now) BY <1>4, <2>1
    <2>3. end <= now BY <2>1, <2>2
    <2> QED BY <2>1, <2>3
  <1> HIDE DEF start, q
  <1>10. r = [at |-> "reading", ask |-> q.ask, why |-> q.why, now |-> q.now, first |-> q.first,
              start |-> start,
              plan |-> IF q.first = Absent THEN {}
                       ELSE Periods(BaseTimeframe(q.ask.step), start, q.ask.end, q.now),
              blobs |-> q.blobs, set |-> q.set]
    BY <1>5, LoadsAre
  <1> HIDE DEF r
  <1>11. /\ r.at = "reading" /\ r.ask = q.ask /\ r.now = q.now /\ r.first = q.first /\ r.start = start
         /\ r.blobs = <<>> /\ Shaped(r)
    BY <1>5, <1>10 DEF Shaped
  <1>12. LookedUp(clock, r) BY <1>6, <1>11 DEF LookedUp
  <1>13. Loaded(market, r)
    <2>1. CASE q.first = Absent
      <3>1. r.plan = {} BY <1>10, <2>1
      <3> QED BY <1>11, <2>1, <3>1 DEF Loaded
    <2>2. CASE q.first # Absent
      <3>1. r.plan = Periods(BaseTimeframe(r.ask.step), r.start, r.ask.end, r.now) BY <1>10, <1>11, <2>2
      <3>2. Asking(r.ask) /\ r.start \in Int /\ r.now \in Int /\ r.ask.end <= r.now
        BY <1>5, <1>6, <1>8, <1>9, <1>11
      <3>3. Planned(market, r, BaseOf(market, r.ask.step)) BY <3>1, <3>2, PlansAre
      <3>4. ~r.ask.last BY <1>4, <1>11, <2>2 DEF q
      <3> QED BY <1>11, <2>2, <3>3, <3>4 DEF Loaded
    <2> QED BY <2>1, <2>2
  <1>14. RequestOK(market, clock, r) BY <1>5, <1>11, <1>12, <1>13 DEF RequestOK
  <1> QED BY <1>2, <1>3, <1>14, OthersStay


-----------------------------------------------------------------------------
\* Counting

LEMMA TimesOrder ==
  ASSUME NEW d \in Nat \ {0}, NEW a \in Int, NEW b \in Int
  PROVE  /\ a * d \in Int /\ b * d \in Int
         /\ a <= b => a * d <= b * d
         /\ a < b => a * d + d <= b * d
  <1>1. a * d \in Int /\ b * d \in Int OBVIOUS
  <1>2. ASSUME a <= b PROVE a * d <= b * d
    <2>1. PICK n \in Nat : b = a + n BY <1>2
    <2>2. b * d = a * d + n * d BY <2>1
    <2>3. n * d >= 0 BY <2>1
    <2> QED BY <1>1, <2>2, <2>3
  <1>3. ASSUME a < b PROVE a * d + d <= b * d
    <2>1. PICK n \in Nat : b = a + 1 + n BY <1>3
    <2>2. b * d = a * d + d + n * d BY <2>1
    <2>3. n * d >= 0 /\ n * d \in Int BY <2>1
    <2> QED BY <1>1, <2>2, <2>3
  <1> QED BY <1>1, <1>2, <1>3

\* What rounding up is.
LEMMA Ceil ==
  ASSUME NEW d \in Nat \ {0}, NEW a \in Int
  PROVE  CeilDiv(a, d) \in Int /\ \A q \in Int : q >= CeilDiv(a, d) <=> q * d >= a
  <1>1. -a \in Int OBVIOUS
  <1>2. PICK m \in Int : m = (-a) \div d BY <1>1, Divided
  <1>3. m * d \in Int /\ m * d <= -a /\ -a < m * d + d BY <1>1, <1>2, Floors
  <1>4. CeilDiv(a, d) = -m BY <1>2 DEF CeilDiv
  <1>5. ASSUME NEW q \in Int PROVE q >= -m <=> q * d >= a
    <2>1. -m \in Int /\ (-m) * d = -(m * d) OBVIOUS
    <2>2. q * d \in Int OBVIOUS
    <2>3. q >= -m => (-m) * d <= q * d BY <2>1, TimesOrder
    <2>4. q < -m => q * d + d <= (-m) * d BY <2>1, TimesOrder
    <2>5. q >= -m => q * d >= a BY <1>3, <2>1, <2>2, <2>3
    <2>6. q < -m => q * d < a BY <1>3, <2>1, <2>2, <2>4
    <2>7. ~(q < -m) => q >= -m OBVIOUS
    <2> QED BY <2>2, <2>5, <2>6, <2>7
  <1> QED BY <1>4, <1>5

\* Times a step apart, from one to another.
StepsFrom(o, d, lo, hi) == {o + k * d : k \in lo..hi - 1}

StepsCounted(o, d, lo, hi) ==
    IsFiniteSet(StepsFrom(o, d, lo, hi)) /\ Cardinality(StepsFrom(o, d, lo, hi)) = Most(0, hi - lo)

LEMMA CountOfSteps ==
  ASSUME NEW d \in Nat \ {0}, NEW o \in Int, NEW lo \in Int, NEW hi \in Int
  PROVE  StepsCounted(o, d, lo, hi)
  <1> DEFINE K == lo..hi - 1
             S == StepsFrom(o, d, lo, hi)
             f == [k \in K |-> o + k * d]
  <1>1. IsFiniteSet(K) /\ Cardinality(K) = Most(0, hi - lo)
    <2>1. IsFiniteSet(K) /\ Cardinality(K) = IF lo > hi - 1 THEN 0 ELSE (hi - 1) - lo + 1 BY FS_Interval
    <2> HIDE DEF K
    <2> QED BY <2>1 DEF Most
  <1>2. f \in [K -> S] /\ \A s \in S : \E k \in K : f[k] = s BY DEF StepsFrom
  <1>3. ASSUME NEW j \in K, NEW k \in K, j # k PROVE f[j] # f[k]
    <2>1. j \in Int /\ k \in Int /\ j * d \in Int /\ k * d \in Int OBVIOUS
    <2>2. j < k => j * d + d <= k * d BY <2>1, TimesOrder
    <2>3. k < j => k * d + d <= j * d BY <2>1, TimesOrder
    <2>4. f[j] = o + j * d /\ f[k] = o + k * d OBVIOUS
    <2>5. j * d # k * d BY <1>3, <2>1, <2>2, <2>3
    <2> HIDE DEF f, K
    <2> QED BY <2>1, <2>4, <2>5
  <1> HIDE DEF K, S, f
  <1>4. f \in Bijection(K, S)
    <2>1. f \in Surjection(K, S) BY <1>2 DEF Surjection
    <2>2. \A j, k \in K : f[j] = f[k] => j = k BY <1>3
    <2>3. f \in Injection(K, S) BY <1>2, <2>2 DEF Injection, IsInjective
    <2> QED BY <2>1, <2>3 DEF Bijection
  <1>5. ExistsBijection(K, S) BY <1>4 DEF ExistsBijection
  <1>6. IsFiniteSet(S) /\ Cardinality(S) = Cardinality(K) BY <1>1, <1>5, FS_Bijection
  <1> QED BY <1>1, <1>6 DEF S, K, StepsCounted

\* Bins in a period, whether they are closed or not.
BinsIn(sessions, step, start, end) == {t \in Int : IsBin(sessions, step, t) /\ start <= t /\ t < end}

LEMMA FixedCount ==
  ASSUME NEW step \in Nat \ {0}, NEW start \in Int, NEW end \in Int
  PROVE  /\ IsFiniteSet(BinsIn(Absent, step, start, end))
         /\ Cardinality(BinsIn(Absent, step, start, end)) = Most(0, CeilDiv(end, step) - CeilDiv(start, step))
  <1>1. PICK lo \in Int, hi \in Int : lo = CeilDiv(start, step) /\ hi = CeilDiv(end, step) BY Ceil
  <1>2. \A q \in Int : (q >= lo <=> q * step >= start) /\ (q >= hi <=> q * step >= end) BY <1>1, Ceil
  <1> DEFINE S == StepsFrom(0, step, lo, hi)
             B == BinsIn(Absent, step, start, end)
  <1>3. ASSUME NEW t \in S PROVE t \in B
    <2>1. PICK k \in lo..hi - 1 : t = 0 + k * step BY DEF StepsFrom
    <2>2. k \in Int /\ k * step \in Int /\ t = k * step BY <2>1
    <2>3. t % step = 0 BY <2>2, WholeTimes
    <2>4. start <= t /\ t < end BY <1>2, <2>1, <2>2
    <2> QED BY <2>2, <2>3, <2>4 DEF BinsIn, IsBin
  <1>4. ASSUME NEW t \in B PROVE t \in S
    <2>1. t \in Int /\ t % step = 0 /\ start <= t /\ t < end BY DEF BinsIn, IsBin
    <2>2. PICK k \in Int : t = k * step BY <2>1, WholeTimes
    <2>3. k >= lo /\ ~(k >= hi) BY <1>2, <2>1, <2>2
    <2>4. k \in lo..hi - 1 BY <2>3
    <2>5. t = 0 + k * step BY <2>2
    <2> QED BY <2>4, <2>5 DEF StepsFrom
  <1>5. B = S BY <1>3, <1>4
  <1>0. 0 \in Int /\ step \in Nat \ {0} OBVIOUS
  <1>6. IsFiniteSet(StepsFrom(0, step, lo, hi)) /\ Cardinality(StepsFrom(0, step, lo, hi)) = Most(0, hi - lo) BY <1>0, CountOfSteps, Zenon DEF StepsCounted
  <1> HIDE DEF S, B
  <1>7. IsFiniteSet(B) /\ Cardinality(B) = Most(0, hi - lo) BY <1>5, <1>6 DEF S
  <1> QED BY <1>1, <1>7 DEF B

\* The bins of a session that are in a period, by their numbers.
FirstStep(session, step, start) == Most(0, CeilDiv(start - session.open, step))
StepsEnd(session, step, end) == Least(CeilDiv(session.close - session.open, step), CeilDiv(end - session.open, step))

SessionSteps(sessions, i, step, start, end) ==
    LET lo == FirstStep(sessions[i], step, start)
        hi == StepsEnd(sessions[i], step, end)
    IN  /\ lo \in Int /\ hi \in Int
        /\ Within(BinsIn(sessions, step, start, end), sessions[i]) = StepsFrom(sessions[i].open, step, lo, hi)
        /\ SessionCount(sessions[i], step, start, end) = Most(0, hi - lo)

LEMMA SessionsAreSteps ==
  ASSUME NEW sessions, sessions # Absent, IsCalendar(sessions), NEW step \in Nat \ {0},
         NEW start \in Int, NEW end \in Int, NEW i \in DOMAIN sessions
  PROVE  SessionSteps(sessions, i, step, start, end)
  <1> DEFINE B == Within(BinsIn(sessions, step, start, end), sessions[i])
  <1>1. PICK open \in Int, close \in Int : open = sessions[i].open /\ close = sessions[i].close BY SessionType
  <1>2. PICK total \in Int, from \in Int, to \in Int :
           total = CeilDiv(close - open, step) /\ from = CeilDiv(start - open, step) /\ to = CeilDiv(end - open, step)
    BY Ceil
  <1>3. \A q \in Int : /\ q >= total <=> q * step >= close - open
                       /\ q >= from <=> q * step >= start - open
                       /\ q >= to <=> q * step >= end - open
    BY <1>2, Ceil
  <1>e. PICK lo \in Int, hi \in Int : lo = Most(0, from) /\ hi = Least(total, to) BY DEF Most, Least
  <1> DEFINE S == StepsFrom(open, step, lo, hi)
  <1>4. SessionCount(sessions[i], step, start, end) = Most(0, hi - lo)
    BY <1>1, <1>2, <1>e DEF SessionCount
  <1>5. lo \in Int /\ hi \in Int /\ \A k \in Int : k \in lo..hi - 1 <=> 0 <= k /\ from <= k /\ k < total /\ k < to
    BY <1>e DEF Most, Least
  <1>6. ASSUME NEW t \in S PROVE t \in B
    <2>1. PICK k \in lo..hi - 1 : t = open + k * step BY DEF StepsFrom
    <2>2. k \in Int /\ k * step \in Int /\ t \in Int /\ t - open = k * step BY <1>5, <2>1
    <2>3. 0 <= k /\ from <= k /\ k < total /\ k < to BY <1>5, <2>1, <2>2
    <2>0. k \in Int BY <2>2
    <2>a. /\ k >= total <=> k * step >= close - open
          /\ k >= from <=> k * step >= start - open
          /\ k >= to <=> k * step >= end - open
      BY <1>3, <2>0
    <2>4. k * step >= start - open /\ ~(k * step >= close - open) /\ ~(k * step >= end - open)
      BY <2>a, <2>0, <2>3
    <2>5. 0 * step <= k * step /\ 0 * step = 0 BY <2>2, <2>3, TimesOrder
    <2>6. start <= t /\ t < close /\ t < end /\ open <= t BY <2>2, <2>4, <2>5
    <2>7. (t - open) % step = 0 BY <2>2, WholeTimes
    <2>8. In(sessions[i], t) BY <1>1, <2>6 DEF In
    <2>9. IsBin(sessions, step, t) BY <1>1, <2>2, <2>7, <2>8, BinIn
    <2> QED BY <2>2, <2>6, <2>8, <2>9 DEF BinsIn, Within
  <1>7. ASSUME NEW t \in B PROVE t \in S
    <2>1. t \in Int /\ IsBin(sessions, step, t) /\ start <= t /\ t < end /\ In(sessions[i], t)
      BY DEF BinsIn, Within
    <2>2. (t - open) % step = 0 /\ open <= t /\ t < close BY <1>1, <2>1, BinIn DEF In
    <2>3. t - open \in Int BY <2>1
    <2>4. PICK k \in Int : t - open = k * step BY <2>2, <2>3, WholeTimes
    <2>5. k * step \in Int /\ k * step >= start - open /\ ~(k * step >= close - open) /\ ~(k * step >= end - open)
      BY <2>1, <2>2, <2>4
    <2>6. from <= k /\ k < total /\ k < to BY <1>3, <2>5
    <2>7. 0 <= k
      <3>1. k < 0 => k * step + step <= 0 * step BY TimesOrder
      <3>2. 0 * step = 0 /\ k * step >= 0 BY <2>1, <2>2, <2>4
      <3> QED BY <2>5, <3>1, <3>2
    <2>8. k \in lo..hi - 1 BY <1>5, <2>6, <2>7
    <2>9. t = open + k * step BY <2>1, <2>4
    <2> QED BY <2>8, <2>9 DEF StepsFrom
  <1>8. B = S BY <1>6, <1>7
  <1> HIDE DEF S, B
  <1>9. lo = FirstStep(sessions[i], step, start) /\ hi = StepsEnd(sessions[i], step, end)
    BY <1>1, <1>2, <1>e DEF FirstStep, StepsEnd
  <1> HIDE DEF B
  <1>10. B = StepsFrom(sessions[i].open, step, lo, hi) BY <1>1, <1>8 DEF S
  <1> QED BY <1>4, <1>9, <1>10 DEF B, SessionSteps

LEMMA SessionCounts ==
  ASSUME NEW sessions, sessions # Absent, IsCalendar(sessions), NEW step \in Nat \ {0},
         NEW start \in Int, NEW end \in Int, NEW i \in DOMAIN sessions
  PROVE  /\ IsFiniteSet(Within(BinsIn(sessions, step, start, end), sessions[i]))
         /\ Cardinality(Within(BinsIn(sessions, step, start, end), sessions[i]))
              = SessionCount(sessions[i], step, start, end)
  <1>0. SessionSteps(sessions, i, step, start, end) BY SessionsAreSteps
  <1>1. PICK lo \in Int, hi \in Int :
          /\ Within(BinsIn(sessions, step, start, end), sessions[i]) = StepsFrom(sessions[i].open, step, lo, hi)
          /\ SessionCount(sessions[i], step, start, end) = Most(0, hi - lo)
    BY <1>0 DEF SessionSteps
  <1>2. PICK open \in Int : open = sessions[i].open BY SessionType
  <1>3. StepsCounted(open, step, lo, hi) BY CountOfSteps
  <1> QED BY <1>1, <1>2, <1>3 DEF StepsCounted


-----------------------------------------------------------------------------
\* The number of candles of a period

\* A function by which CandleCount adds up the sessions.
CountsUp(f, sessions, step, start, end) ==
    f = [s \in SUBSET (DOMAIN sessions) |->
            IF s = {} THEN 0
            ELSE f[s \ {Max(s)}] + SessionCount(sessions[Max(s)], step, start, end)]

LEMMA CountGoesUp ==
  ASSUME NEW sessions, sessions # Absent, NEW step, NEW start, NEW end, ~(end <= start)
  PROVE  CandleCount(start, end, step, sessions)
           = (CHOOSE f : CountsUp(f, sessions, step, start, end))[DOMAIN sessions]
  BY DEF CandleCount, FoldLeft, MapThenFoldSet, CountsUp

\* The bins of a period are bounded, and those of a session counted.
LEMMA BinsOfPeriod ==
  ASSUME NEW sessions, NEW step, NEW start \in Int, NEW end \in Int
  PROVE  Bounded(BinsIn(sessions, step, start, end)) /\ IsFiniteSet(BinsIn(sessions, step, start, end))
  <1> DEFINE B == BinsIn(sessions, step, start, end)
  <1>1. B \subseteq Int /\ \A t \in B : start <= t /\ t <= end BY DEF BinsIn
  <1> HIDE DEF B
  <1>2. Bounded(B) BY <1>1 DEF Bounded
  <1> QED BY <1>2, BoundedPart DEF B

LEMMA CountingUp ==
  ASSUME NEW sessions, sessions # Absent, IsCalendar(sessions), NEW step \in Nat \ {0},
         NEW start \in Int, NEW end \in Int
  PROVE  \E f : CountsUp(f, sessions, step, start, end)
  <1> DEFINE D == DOMAIN sessions
             n(i) == SessionCount(sessions[i], step, start, end)
             h == [i \in D |-> [x \in Nat |-> x + n(i)]]
             pick == [s \in SUBSET D |-> Max(s)]
  <1>1. PICK k \in Nat : D = 1..k BY SessionType
  <1>2. IsFiniteSet(D) BY <1>1, FS_Interval
  <1>3. \A i \in D : n(i) \in Nat
    <2>1. TAKE i \in D
    <2>2. IsFiniteSet(Within(BinsIn(sessions, step, start, end), sessions[i]))
          /\ Cardinality(Within(BinsIn(sessions, step, start, end), sessions[i])) = n(i)
      BY SessionCounts
    <2> HIDE DEF n
    <2> QED BY <2>2, FS_CardinalityType
  <1> HIDE DEF n
  <1>4. h \in [D -> [Nat -> Nat]] BY <1>3
  <1>5. \A s \in SUBSET D : s # {} => pick[s] \in s BY <1>1, Indices
  <1>6. PICK f : GoesThrough(f, D, Nat, 0, h, pick)
    <2>1. 0 \in Nat OBVIOUS
    <2> HIDE DEF D, h, pick
    <2> QED BY <1>2, <1>4, <1>5, <2>1, GoingThrough
  <1>7. f \in [SUBSET D -> Nat] /\ f[{}] = 0 BY <1>6 DEF GoesThrough
  <1>8. ASSUME NEW s \in SUBSET D, s # {}
        PROVE  f[s] = f[s \ {Max(s)}] + n(Max(s))
    <2>1. f[s] = h[pick[s]][f[s \ {pick[s]}]] BY <1>6, <1>8 DEF GoesThrough
    <2>2. Max(s) \in D /\ pick[s] = Max(s) BY <1>5, <1>8
    <2>3. f[s \ {Max(s)}] \in Nat BY <1>7
    <2> QED BY <2>1, <2>2, <2>3
  <1>9. \A s \in SUBSET D : f[s] = IF s = {} THEN 0 ELSE f[s \ {Max(s)}] + n(Max(s)) BY <1>7, <1>8
  <1> HIDE DEF h, pick
  <1>10. f = [s \in SUBSET D |-> IF s = {} THEN 0 ELSE f[s \ {Max(s)}] + n(Max(s))] BY <1>7, <1>9
  <1> QED BY <1>10, Zenon DEF CountsUp, D, n

LEMMA CountOfSessions ==
  ASSUME NEW sessions, sessions # Absent, IsCalendar(sessions), NEW step \in Nat \ {0},
         NEW start \in Int, NEW end \in Int, ~(end <= start)
  PROVE  CandleCount(start, end, step, sessions) = Cardinality(BinsIn(sessions, step, start, end))
  <1> DEFINE f == CHOOSE f : CountsUp(f, sessions, step, start, end)
             n(i) == SessionCount(sessions[i], step, start, end)
             B == BinsIn(sessions, step, start, end)
  <1>1. CountsUp(f, sessions, step, start, end) BY CountingUp
  <1>2. CandleCount(start, end, step, sessions) = f[DOMAIN sessions] BY CountGoesUp
  <1>3. PICK k \in Nat : DOMAIN sessions = 1..k BY SessionType
  <1>4. \A s \in SUBSET (1..k) : f[s] = IF s = {} THEN 0 ELSE f[s \ {Max(s)}] + n(Max(s))
    <2> HIDE DEF f
    <2> QED BY <1>1, <1>3, Zenon DEF CountsUp
  <1> HIDE DEF f
  <1>5. \A i \in 1..k : f[1..i] = f[1..(i - 1)] + n(i)
    <2>1. TAKE i \in 1..k
    <2>2. Max(1..i) = i /\ 1..i # {} /\ (1..i) \ {i} = 1..(i - 1) /\ 1..i \in SUBSET (1..k) BY Indices
    <2> HIDE DEF n
    <2>3. f[1..i] = f[(1..i) \ {Max(1..i)}] + n(Max(1..i)) BY <1>4, <2>2
    <2> QED BY <2>2, <2>3
  <1>6. f[1..0] = 0
    <2>1. 1..0 = {} /\ {} \in SUBSET (1..k) OBVIOUS
    <2> QED BY <1>4, <2>1
  <1>7. \A i \in 1..k : IsFiniteSet(Within(B, sessions[i])) /\ Cardinality(Within(B, sessions[i])) = n(i)
    BY <1>3, SessionCounts
  <1>8. \A t \in B : t \in Int /\ \E i \in 1..k : In(sessions[i], t) BY <1>3 DEF BinsIn, IsBin
  <1>9. IsFiniteSet(B) BY BinsOfPeriod
  <1> HIDE DEF n, B
  <1> DEFINE K(i) == {t \in B : \E j \in 1..i : In(sessions[j], t)}
             Good(i) == f[1..i] = Cardinality(K(i))
  <1>10. Good(0)
    <2>1. K(0) = {} OBVIOUS
    <2> QED BY <1>6, <2>1, FS_EmptySet
  <1>11. ASSUME NEW i \in 1..k, Good(i - 1) PROVE Good(i)
    <2>1. K(i) = K(i - 1) \cup Within(B, sessions[i])
      <3>1. \A j : j \in 1..i <=> j = i \/ j \in 1..(i - 1) OBVIOUS
      <3> QED BY <3>1 DEF Within
    <2>2. IsFiniteSet(K(i - 1)) BY <1>9, FS_Subset
    <2>3. K(i - 1) \cap Within(B, sessions[i]) = {}
      <3>1. SUFFICES ASSUME NEW t \in B, NEW j \in 1..(i - 1), In(sessions[j], t), In(sessions[i], t)
                     PROVE FALSE
        BY DEF Within
      <3>2. j \in 1..k /\ j # i OBVIOUS
      <3>3. t \in Int BY <1>8
      <3> QED BY <1>3, <3>1, <3>2, <3>3, OneSession
    <2> HIDE DEF K
    <2>4. Cardinality(K(i)) = Cardinality(K(i - 1)) + n(i) BY <1>7, <2>1, <2>2, <2>3, CardinalityAdds
    <2> QED BY <1>5, <1>11, <2>4
  <1> HIDE DEF K, Good
  <1>12. Good(k)
    <2> DEFINE Bad == {i \in Nat : i <= k /\ ~Good(i)}
    <2>1. SUFFICES ASSUME Bad # {} PROVE FALSE OBVIOUS
    <2>2. PICK i \in Bad : \A m \in Bad : i <= m
      <3>1. Bad \subseteq Nat OBVIOUS
      <3> HIDE DEF Bad
      <3> QED BY <2>1, <3>1, SmallestOfNat
    <2>3. i \in Nat /\ i <= k /\ ~Good(i) OBVIOUS
    <2>4. i # 0 BY <1>10, <2>3
    <2>5. i - 1 \in Nat /\ i - 1 <= k /\ ~(i <= i - 1) /\ i \in 1..k BY <2>3, <2>4
    <2>6. Good(i - 1) BY <2>2, <2>5
    <2> QED BY <1>11, <2>3, <2>5, <2>6
  <1>13. K(k) = B BY <1>8 DEF K
  <1> QED BY <1>2, <1>3, <1>12, <1>13 DEF Good, B

\* What is counted is what there is.
LEMMA CountIs ==
  ASSUME NEW sessions, Calendar(sessions), NEW step \in Nat \ {0}, NEW start \in Int, NEW end \in Int
  PROVE  CandleCount(start, end, step, sessions) = Cardinality(BinsIn(sessions, step, start, end))
  <1>1. CASE end <= start
    <2>1. BinsIn(sessions, step, start, end) = {} BY <1>1 DEF BinsIn
    <2>2. CandleCount(start, end, step, sessions) = 0 BY <1>1 DEF CandleCount
    <2> QED BY <2>1, <2>2, FS_EmptySet
  <1>2. CASE ~(end <= start) /\ sessions = Absent
    <2>1. PICK lo \in Int, hi \in Int : lo = CeilDiv(start, step) /\ hi = CeilDiv(end, step) BY Ceil
    <2>2. lo <= hi
      <3>1. hi * step >= end /\ hi * step \in Int /\ (hi >= lo <=> hi * step >= start)
        <4>1. hi >= hi /\ hi * step \in Int OBVIOUS
        <4> QED BY <2>1, <4>1, Ceil
      <3> QED BY <1>2, <3>1
    <2>3. Cardinality(BinsIn(Absent, step, start, end)) = Most(0, hi - lo) BY <2>1, FixedCount
    <2>4. CandleCount(start, end, step, Absent) = hi - lo BY <1>2, <2>1 DEF CandleCount
    <2>5. Most(0, hi - lo) = hi - lo BY <2>2 DEF Most
    <2> QED BY <1>2, <2>3, <2>4, <2>5
  <1>3. CASE ~(end <= start) /\ sessions # Absent BY <1>3, CountOfSessions DEF Calendar
  <1> QED BY <1>1, <1>2, <1>3


-----------------------------------------------------------------------------
\* The window of the last candles

\* It has as many closed bins as asked for, or all there are since the first one.
TakesLast(start, end, now, step, count, sessions, lower) ==
    LET newer == ExpectedBins(start, end, step, sessions, now)
        older == ExpectedBins(lower, start, step, sessions, now)
    IN  /\ start \in Int
        /\ IsFiniteSet(newer)
        /\ Cardinality(newer) = count \/ (Cardinality(newer) < count /\ older = {})

\* The window that begins with the first of the last ones, or is empty.
Beginning(first, end) == IF first = Absent THEN end ELSE first

LEMMA ExpectedFinite ==
  ASSUME NEW sessions, Calendar(sessions), NEW step \in Nat \ {0},
         NEW start \in Int, NEW end \in Int, NEW now \in Int
  PROVE  /\ Bounded(ExpectedBins(start, end, step, sessions, now))
         /\ IsFiniteSet(ExpectedBins(start, end, step, sessions, now))
         /\ Cardinality(ExpectedBins(start, end, step, sessions, now)) \in Nat
  <1> DEFINE E == ExpectedBins(start, end, step, sessions, now)
  <1>1. E = {t \in Int : /\ IsBin(sessions, step, t) /\ start <= t /\ t < end
                         /\ BinEnd(t, step, sessions) <= now}
    BY ExpectedAre
  <1> HIDE DEF E
  <1>2. E \subseteq Int /\ \A t \in E : start <= t /\ t <= end BY <1>1
  <1>3. Bounded(E) BY <1>2 DEF Bounded
  <1>4. IsFiniteSet(E) BY <1>3, BoundedPart
  <1> QED BY <1>3, <1>4, FS_CardinalityType DEF E

LEMMA SessionsTakeLast ==
  ASSUME NEW sessions, sessions # Absent, IsCalendar(sessions), NEW step \in Nat \ {0},
         NEW end \in Int, NEW now \in Int, NEW lower \in Int, NEW count \in Nat
  PROVE  TakesLast(Beginning(FirstOfLast(end, now, step, count, sessions, lower), end),
                   end, now, step, count, sessions, lower)
  <1> DEFINE first == FirstOfLast(end, now, step, count, sessions, lower)
             E == ExpectedBins(lower, end, step, sessions, now)
             Closed(a, b) == {t \in Int : /\ IsBin(sessions, step, t) /\ a <= t /\ t < b
                                          /\ BinEnd(t, step, sessions) <= now}
  <1>1. Counted(first, E, count) BY FirstOfLastIs
  <1>2. \A a, b \in Int : ExpectedBins(a, b, step, sessions, now) = Closed(a, b) BY ExpectedAre DEF Calendar
  <1>3. Bounded(E) /\ IsFiniteSet(E) /\ Cardinality(E) \in Nat BY ExpectedFinite DEF Calendar
  <1>4. E = Closed(lower, end) BY <1>2
  <1>5. Absent \notin Int BY BinsAssumption
  <1>6. CASE first = Absent
    <2>1. Closed(end, end) = {} OBVIOUS
    <2>2. ExpectedBins(end, end, step, sessions, now) = {} BY <1>2, <2>1
    <2>3. count = 0 \/ E = {}
      <3>1. SUFFICES ASSUME count # 0, E # {} PROVE FALSE OBVIOUS
      <3>2. first \notin E BY <1>4, <1>5, <1>6
      <3> HIDE DEF E, first
      <3>3. Cardinality(E) < count BY <1>1, <1>3, <3>1, <3>2 DEF Counted
      <3>4. first = Min(E) BY <1>1, <3>1, <3>3 DEF Counted
      <3> QED BY <1>3, <3>1, <3>2, <3>4, BoundedHas
    <2>4. Cardinality({}) = 0 /\ IsFiniteSet({}) BY FS_EmptySet
    <2>5. Beginning(first, end) = end BY <1>6 DEF Beginning
    <2>6. 0 = count \/ (0 < count /\ ExpectedBins(lower, end, step, sessions, now) = {}) BY <2>3
    <2> HIDE DEF first, Closed
    <2>7. TakesLast(end, end, now, step, count, sessions, lower)
      BY <2>2, <2>4, <2>6 DEF TakesLast
    <2> QED BY <2>5, <2>7 DEF first
  <1>7. CASE first # Absent
    <2>1. count > 0 BY <1>1, <1>7 DEF Counted
    <2> HIDE DEF first
    <2>2. /\ first \in E
          /\ \/ Cardinality(From(E, first)) = count
             \/ Cardinality(E) < count /\ \A t \in E : first <= t
      <3> HIDE DEF E
      <3>1. CASE Cardinality(E) >= count BY <1>1, <2>1, <3>1 DEF Counted
      <3>2. CASE Cardinality(E) < count
        <4>1. E # {} /\ first = Min(E) BY <1>1, <1>7, <3>2 DEF Counted
        <4> QED BY <1>3, <3>2, <4>1, BoundedHas
      <3> QED BY <1>3, <3>1, <3>2
    <2>3. first \in Int /\ lower <= first /\ first < end BY <1>4, <2>2
    <2>4. ExpectedBins(first, end, step, sessions, now) = From(E, first)
      <3>1. Closed(first, end) = From(Closed(lower, end), first) BY <2>3 DEF From
      <3> HIDE DEF Closed, E
      <3> QED BY <1>2, <1>4, <2>3, <3>1
    <2>5. ExpectedBins(lower, first, step, sessions, now) = Closed(lower, first) BY <1>2, <2>3
    <2>6. Cardinality(From(E, first)) = count \/ (Cardinality(From(E, first)) < count /\ Closed(lower, first) = {})
      <3>1. SUFFICES ASSUME Cardinality(E) < count, \A t \in E : first <= t
                     PROVE  Cardinality(From(E, first)) < count /\ Closed(lower, first) = {}
        BY <2>2
      <3>2. \A t \in E : t \in Int BY <1>4
      <3>3. From(E, first) = E BY <2>3, <3>1, <3>2 DEF From
      <3>4. \A t \in Closed(lower, first) : t \in Closed(lower, end) /\ t < first BY <2>3
      <3>5. Closed(lower, first) = {}
        <4>1. SUFFICES ASSUME NEW t \in Closed(lower, first) PROVE FALSE OBVIOUS
        <4>2. t \in Int /\ t \in E /\ t < first BY <1>4, <3>4
        <4> HIDE DEF E, Closed
        <4>3. first <= t BY <3>1, <4>2
        <4> QED BY <2>3, <4>2, <4>3
      <3> HIDE DEF E, Closed
      <3> QED BY <3>1, <3>3, <3>5
    <2>7. IsFiniteSet(From(E, first)) BY <1>3, FS_Subset DEF From
    <2>8. Beginning(first, end) = first BY <1>7 DEF Beginning
    <2> HIDE DEF E, Closed
    <2>9. TakesLast(first, end, now, step, count, sessions, lower)
      BY <2>3, <2>4, <2>5, <2>6, <2>7 DEF TakesLast
    <2> QED BY <2>8, <2>9 DEF first
  <1> QED BY <1>6, <1>7

LEMMA FixedTakeLast ==
  ASSUME NEW step \in Nat \ {0},
         NEW end \in Int, NEW now \in Int, NEW lower \in Int, NEW count \in Nat
  PROVE  TakesLast(Beginning(FirstOfLast(end, now, step, count, Absent, lower), end),
                   end, now, step, count, Absent, lower)
  <1>1. PICK last \in Int : last = Least(end - 1, now - step) BY DEF Least
  <1>2. PICK m \in Int : m = last \div step BY <1>1, Divided
  <1>3. m * step \in Int /\ m * step <= last /\ last < m * step + step BY <1>2, Floors
  <1>4. PICK newest \in Int : newest = m * step BY <1>3
  <1>5. FirstOfLast(end, now, step, count, Absent, lower)
          = IF newest < lower THEN Absent ELSE Most(lower, newest - (count - 1) * step)
    BY <1>1, <1>2, <1>4 DEF FirstOfLast
  <1>6. \A a \in Int : \A t \in Int : t % step = 0 => ((t < a /\ t < end /\ t + step <= now) <=> (t < a /\ t <= newest))
    <2>1. TAKE a \in Int
    <2>2. TAKE t \in Int
    <2>3. HAVE t % step = 0
    <2>4. PICK k \in Int : t = k * step BY <2>3, WholeTimes
    <2>5. (t < end /\ t + step <= now) <=> t <= last BY <1>1 DEF Least
    <2>6. t <= last => t <= newest
      <3>1. SUFFICES ASSUME t <= last, m < k PROVE FALSE
        <4>1. k <= m => k * step <= m * step BY TimesOrder
        <4> QED BY <1>4, <2>4, <4>1
      <3>2. m * step + step <= k * step BY <3>1, TimesOrder
      <3> QED BY <1>3, <2>4, <3>1, <3>2
    <2>7. t <= newest => t <= last BY <1>3, <1>4
    <2> QED BY <2>5, <2>6, <2>7
  <1>7. ASSUME NEW a \in Int, NEW b \in Int, b <= end
        PROVE  ExpectedBins(a, b, step, Absent, now)
                 = {t \in Int : t % step = 0 /\ a <= t /\ t < b /\ t <= newest}
    <2>1. ExpectedBins(a, b, step, Absent, now)
            = {t \in Int : /\ IsBin(Absent, step, t) /\ a <= t /\ t < b
                           /\ BinEnd(t, step, Absent) <= now}
      BY ExpectedAre DEF Calendar
    <2>2. \A t \in Int : (/\ IsBin(Absent, step, t) /\ a <= t /\ t < b /\ BinEnd(t, step, Absent) <= now)
                          <=> (t % step = 0 /\ a <= t /\ t < b /\ t <= newest)
      <3>1. TAKE t \in Int
      <3>2. (IsBin(Absent, step, t) <=> t % step = 0) /\ BinEnd(t, step, Absent) = t + step BY BinFixed
      <3>3. t < b => t < end BY <1>7
      <3>4. t % step = 0 => ((t < b /\ t < end /\ t + step <= now) <=> (t < b /\ t <= newest)) BY <1>6
      <3> QED BY <3>2, <3>3, <3>4
    <2> QED BY <2>1, <2>2
  <1>8. newest < end BY <1>1, <1>3, <1>4 DEF Least
  <1>9. CASE newest < lower
    <2>1. ExpectedBins(end, end, step, Absent, now) = {} BY <1>7
    <2>2. ExpectedBins(lower, end, step, Absent, now) = {} BY <1>7, <1>9
    <2>3. Beginning(FirstOfLast(end, now, step, count, Absent, lower), end) = end BY <1>5, <1>9 DEF Beginning
    <2>4. Cardinality({}) = 0 /\ IsFiniteSet({}) BY FS_EmptySet
    <2>5. 0 = count \/ 0 < count OBVIOUS
    <2>6. TakesLast(end, end, now, step, count, Absent, lower) BY <2>1, <2>2, <2>4, <2>5 DEF TakesLast
    <2> QED BY <2>3, <2>6
  <1>10. CASE ~(newest < lower)
    <2>1. PICK from \in Int : from = newest - (count - 1) * step
      <3>1. (count - 1) * step \in Int OBVIOUS
      <3> QED BY <3>1
    <2>2. from = (m - count + 1) * step
      <3>1. (m - count + 1) * step = m * step - (count - 1) * step OBVIOUS
      <3> QED BY <1>4, <2>1, <3>1
    <2>3. PICK start \in Int : start = Most(lower, from) BY DEF Most
    <2>4. FirstOfLast(end, now, step, count, Absent, lower) = start BY <1>5, <1>10, <2>1, <2>3
    <2>5. Beginning(FirstOfLast(end, now, step, count, Absent, lower), end) = start
      BY <2>4, BinsAssumption DEF Beginning
    <2>6. ExpectedBins(start, end, step, Absent, now) = BinsIn(Absent, step, start, newest + 1)
      <3>1. BinsIn(Absent, step, start, newest + 1) = {t \in Int : t % step = 0 /\ start <= t /\ t < newest + 1}
        BY DEF BinsIn, IsBin
      <3>2. \A t \in Int : (t < end /\ t <= newest) <=> t < newest + 1 BY <1>8
      <3>3. ExpectedBins(start, end, step, Absent, now)
              = {t \in Int : t % step = 0 /\ start <= t /\ t < end /\ t <= newest} BY <1>7
      <3> QED BY <3>1, <3>2, <3>3
    <2>7. PICK hi \in Int, lo \in Int : hi = CeilDiv(newest + 1, step) /\ lo = CeilDiv(start, step) BY Ceil
    <2>8. /\ IsFiniteSet(BinsIn(Absent, step, start, newest + 1))
          /\ Cardinality(BinsIn(Absent, step, start, newest + 1)) = Most(0, hi - lo)
      <3>1. newest + 1 \in Int OBVIOUS
      <3> QED BY <2>7, <3>1, FixedCount
    <2>9. hi = m + 1
      <3>1. newest + 1 \in Int /\ m + 1 \in Int OBVIOUS
      <3>2. (m >= hi <=> m * step >= newest + 1) /\ (m + 1 >= hi <=> (m + 1) * step >= newest + 1)
        BY <2>7, <3>1, Ceil
      <3>3. (m + 1) * step = m * step + step OBVIOUS
      <3> QED BY <1>3, <1>4, <3>2, <3>3
    <2>10. m - count + 1 \in Int /\ m - count \in Int OBVIOUS
    <2>11. CASE lower <= from
      <3>1. start = from BY <2>3, <2>11 DEF Most
      <3>2. (m - count + 1 >= lo <=> (m - count + 1) * step >= start)
            /\ (m - count >= lo <=> (m - count) * step >= start)
        BY <2>7, <2>10, Ceil
      <3>3. (m - count) * step + step <= (m - count + 1) * step /\ (m - count) * step \in Int
        BY <2>10, TimesOrder
      <3>4. lo = m - count + 1 BY <2>2, <2>10, <3>1, <3>2, <3>3
      <3>5. Most(0, hi - lo) = count BY <2>9, <3>4 DEF Most
      <3>6. TakesLast(start, end, now, step, count, Absent, lower) BY <2>6, <2>8, <3>5 DEF TakesLast
      <3> QED BY <2>5, <3>6
    <2>12. CASE ~(lower <= from)
      <3>1. start = lower BY <2>3, <2>12 DEF Most
      <3>2. m - count + 1 >= lo <=> (m - count + 1) * step >= start BY <2>7, <2>10, Ceil
      <3>3. lo > m - count + 1 BY <2>2, <2>10, <2>12, <3>1, <3>2
      <3>4. hi - lo < count BY <2>9, <3>3
      <3>5. Most(0, hi - lo) = count \/ Most(0, hi - lo) < count BY <3>4 DEF Most
      <3>6. lower <= end BY <1>8, <1>10
      <3>7. ExpectedBins(lower, start, step, Absent, now) = {} BY <1>7, <3>1, <3>6
      <3>8. TakesLast(start, end, now, step, count, Absent, lower) BY <2>6, <2>8, <3>5, <3>7 DEF TakesLast
      <3> QED BY <2>5, <3>8
    <2> QED BY <2>11, <2>12
  <1> QED BY <1>9, <1>10

LEMMA LastAreTaken ==
  ASSUME NEW sessions, Calendar(sessions), NEW step \in Nat \ {0},
         NEW end \in Int, NEW now \in Int, NEW lower \in Int, NEW count \in Nat
  PROVE  TakesLast(Beginning(FirstOfLast(end, now, step, count, sessions, lower), end),
                   end, now, step, count, sessions, lower)
  BY FixedTakeLast, SessionsTakeLast DEF Calendar

\* At most one bin more has begun.
LEMMA FewAreBegun ==
  ASSUME NEW sessions, Calendar(sessions), NEW step \in Nat \ {0},
         NEW end \in Int, NEW now \in Int, NEW lower, NEW count \in Nat, NEW start,
         TakesLast(start, end, now, step, count, sessions, lower)
  PROVE  ~(CandleCount(start, Least(end, now), step, sessions) > count + 1)
  <1> DEFINE B == BinsIn(sessions, step, start, Least(end, now))
             E == ExpectedBins(start, end, step, sessions, now)
  <1>1. start \in Int /\ IsFiniteSet(E) /\ (Cardinality(E) = count \/ Cardinality(E) < count) BY DEF TakesLast
  <1>2. Least(end, now) \in Int /\ Least(end, now) <= end /\ Least(end, now) <= now BY DEF Least
  <1>3. CandleCount(start, Least(end, now), step, sessions) = Cardinality(B) BY <1>1, <1>2, CountIs
  <1>4. Bounded(B) /\ IsFiniteSet(B) BY <1>1, <1>2, BinsOfPeriod
  <1>5. Cardinality(B) \in Nat /\ Cardinality(E) \in Nat BY <1>1, <1>4, FS_CardinalityType
  <1>6. E = {t \in Int : /\ IsBin(sessions, step, t) /\ start <= t /\ t < end
                         /\ BinEnd(t, step, sessions) <= now}
    BY <1>1, ExpectedAre
  <1>7. \A t \in B : t \in Int /\ IsBin(sessions, step, t) /\ start <= t /\ t < end /\ t < now
    BY <1>1, <1>2 DEF BinsIn
  <1> HIDE DEF B, E
  <1>8. CASE B = {}
    <2>1. Cardinality(B) = 0 BY <1>8, FS_EmptySet
    <2> QED BY <1>3, <2>1
  <1>9. CASE B # {}
    <2>1. PICK u \in B : \A t \in B : t <= u
      <3>1. Max(B) \in B /\ \A t \in B : t <= Max(B) BY <1>4, <1>9, BoundedHas
      <3> QED BY <3>1
    <2> DEFINE rest == B \ {u}
    <2>2. rest \subseteq E
      <3>1. SUFFICES ASSUME NEW t \in rest PROVE t \in E OBVIOUS
      <3>2. t \in B /\ t # u /\ t <= u BY <2>1
      <3>3. t < u /\ t \in Int /\ u \in Int /\ IsBin(sessions, step, t) /\ IsBin(sessions, step, u) /\ u < now
            /\ start <= t /\ t < end
        BY <1>7, <2>1, <3>2
      <3>4. BinEnd(t, step, sessions) <= u /\ BinEnd(t, step, sessions) \in Int BY <3>3, BinsInTurn, BinEndType
      <3>5. BinEnd(t, step, sessions) <= now BY <1>2, <3>3, <3>4
      <3> QED BY <1>6, <3>3, <3>5
    <2> HIDE DEF rest
    <2>3. IsFiniteSet(rest) /\ Cardinality(rest) = Cardinality(B) - 1 BY <1>4, <2>1, FS_RemoveElement DEF rest
    <2>4. Cardinality(rest) <= Cardinality(E) BY <1>1, <2>2, FS_Subset
    <2> QED BY <1>1, <1>3, <1>5, <2>3, <2>4
  <1> QED BY <1>8, <1>9


-----------------------------------------------------------------------------
\* A chunk that is read

\* It is what its label says, whichever request fetched it.
LEMMA ChunksAreOK ==
  ASSUME ServiceInv, NEW step \in Timeframes, NEW p, IsPeriod(Yearly(market, BaseTimeframe(step)), p),
         p.end <= clock - market.delay
  PROVE  LET base == BaseTimeframe(step)
         IN  /\ ChunkOK(market, base, p.label, Chunk(base, p))
             /\ CacheOK(market, With(cache, Key(base, p), Chunk(base, p)))
  <1> DEFINE base == BaseTimeframe(step)
             key == Key(base, p)
             chunk == Chunk(base, p)
  <1>1. market \in Markets /\ clock \in Int /\ clock <= ClockMax /\ CacheOK(market, cache) BY DEF ServiceInv
  <1>2. key[1] = base /\ key[2] = p.label BY DEF Key
  <1>3. ChunkOK(market, base, p.label, chunk)
    <2>1. CASE Current(key)
      <3>1. key \in DOMAIN cache /\ chunk = cache[key] BY <2>1 DEF Current, Chunk
      <3> HIDE DEF key, chunk, base
      <3> QED BY <1>1, <1>2, <3>1 DEF CacheOK
    <2>2. CASE ~Current(key)
      <3>1. chunk = [frame |-> Fetched(base, p), until |-> p.end,
                     expires |-> IF p.kind = "live" THEN clock + LiveTtl ELSE Absent]
        BY <2>2 DEF Chunk
      <3>2. chunk.until = p.end /\ chunk.frame = Fetched(base, p) BY <3>1
      <3>3. IsBase(market, base) BY BasesAre
      <3>4. p.start \in Int /\ p.end \in Int BY DEF IsPeriod
      <3> HIDE DEF base
      <3>5. Whole(market, base, p.start, p.end, Fetched(base, p)) BY <1>1, <3>3, <3>4, FetchedIsWhole
      <3> HIDE DEF chunk
      <3>6. Whole(market, base, p.start, p.end, chunk.frame) BY <3>2, <3>5
      <3>7. IsPeriod(Yearly(market, base), p) BY DEF base
      <3>8. ChunkOK(market, base, p.label, chunk) BY <3>2, <3>6, <3>7 DEF ChunkOK
      <3> QED BY <3>8 DEF chunk
    <2> QED BY <2>1, <2>2
  <1> HIDE DEF base, key, chunk
  <1>4. ASSUME NEW k \in DOMAIN With(cache, key, chunk)
        PROVE  ChunkOK(market, k[1], k[2], With(cache, key, chunk)[k])
    <2>0. DOMAIN With(cache, key, chunk) = DOMAIN cache \cup {key} BY DEF With
    <2>1. k \in DOMAIN cache \cup {key} /\ With(cache, key, chunk)[k] = IF k = key THEN chunk ELSE cache[k]
      BY DEF With
    <2>2. CASE k = key BY <1>2, <1>3, <2>1, <2>2
    <2>3. CASE k # key
      <3>1. k \in DOMAIN cache /\ With(cache, key, chunk)[k] = cache[k] BY <2>1, <2>3
      <3> QED BY <1>1, <3>1 DEF CacheOK
    <2> QED BY <2>2, <2>3
  <1>5. CacheOK(market, With(cache, key, chunk)) BY <1>4 DEF CacheOK
  <1> QED BY <1>3, <1>5 DEF base, key, chunk

\* The periods of a plan have ended, for a source with its delay.
LEMMA PlansEnded ==
  ASSUME Market(market), clock \in Int, NEW r, LookedUp(clock, r), r.at \in {"found", "reading", "done"},
         NEW base, Planned(market, r, base), NEW p \in r.plan
  PROVE  IsPeriod(Yearly(market, base), p) /\ p.end <= clock - market.delay
  <1>1. IsPeriod(Yearly(market, base), p) /\ p.end <= r.now - market.delay BY PlannedAre
  <1>2. r.now \in Int /\ r.now <= clock BY DEF LookedUp
  <1>3. p.end \in Int BY <1>1 DEF IsPeriod
  <1>4. market.delay \in Int BY DEF Market
  <1>5. PICK now \in Int, end \in Int, delay \in Int : now = r.now /\ end = p.end /\ delay = market.delay
    BY <1>2, <1>3, <1>4
  <1>6. end <= now - delay /\ now <= clock BY <1>1, <1>2, <1>5
  <1>7. end <= clock - delay BY <1>6
  <1> QED BY <1>1, <1>5, <1>7

LEMMA ReadOK == ASSUME NEW c \in Callers PROVE ServiceInv /\ Read(c) => ServiceInv'
  <1> SUFFICES ASSUME ServiceInv, Read(c) PROVE ServiceInv' OBVIOUS
  <1> DEFINE q == request[c]
             base == BaseTimeframe(q.ask.step)
  <1>1. request = [d \in Callers |-> request[d]] BY DEF ServiceInv
  <1>2. RequestOK(market, clock, q) /\ Market(market) /\ clock \in Int BY RequestsAre
  <1>3. q.at = "reading" BY DEF Read
  <1>4. Shaped(q) /\ Asking(q.ask) /\ LookedUp(clock, q) /\ Loaded(market, q) BY <1>2, <1>3 DEF RequestOK
  <1>5. q.ask.step \in Timeframes BY <1>4 DEF Asking
  <1>6. PICK p \in Unread(c) :
          /\ cache' = With(cache, Key(base, p), Chunk(base, p))
          /\ request' = [request EXCEPT ![c] = Knows(q, p.label, Chunk(base, p))]
    BY <1>1 DEF Read, Base, Asked
  <1>7. p \in q.plan /\ p.label \notin DOMAIN q.blobs BY DEF Unread
  <1> DEFINE chunk == Chunk(base, p)
             blobs == With(q.blobs, p.label, chunk)
             r == [q EXCEPT !.blobs = blobs]
  <1>8. market' = market /\ clock' = clock BY DEF Read
  <1>9. base = BaseOf(market, q.ask.step) BY BasesOf
  <1>10. /\ q.first # Absent /\ Planned(market, q, base)
         /\ \A label \in DOMAIN q.blobs : ChunkOK(market, base, label, q.blobs[label])
         /\ q.ask.last => Windowed(market, q)
    BY <1>4, <1>7, <1>9 DEF Loaded
  <1>11. IsPeriod(Yearly(market, base), p) /\ p.end <= clock - market.delay
    BY <1>2, <1>3, <1>4, <1>7, <1>10, PlansEnded
  <1>12. ChunkOK(market, base, p.label, chunk) /\ CacheOK(market, cache') BY <1>5, <1>6, <1>11, ChunksAreOK
  <1>13. /\ DOMAIN blobs = DOMAIN q.blobs \cup {p.label}
         /\ \A k \in DOMAIN blobs : blobs[k] = IF k = p.label THEN chunk ELSE q.blobs[k]
    <2> HIDE DEF q, base, chunk
    <2>1. DOMAIN With(q.blobs, p.label, chunk) = DOMAIN q.blobs \cup {p.label} BY DEF With
    <2>2. \A k \in DOMAIN q.blobs \cup {p.label} :
             With(q.blobs, p.label, chunk)[k] = IF k = p.label THEN chunk ELSE q.blobs[k]
      BY DEF With
    <2> QED BY <2>1, <2>2
  <1> HIDE DEF q, base, chunk, blobs
  <1>14. r = [at |-> q.at, ask |-> q.ask, why |-> q.why, now |-> q.now, first |-> q.first,
              start |-> q.start, plan |-> q.plan, blobs |-> blobs, set |-> q.set]
    BY <1>4, BlobsShape
  <1>15. request' = [request EXCEPT ![c] = r]
    <2>1. Knows(q, p.label, chunk) = r BY DEF Knows, blobs, r
    <2> QED BY <1>6, <2>1 DEF chunk
  <1> HIDE DEF r
  <1>16. /\ r.at = "reading" /\ r.ask = q.ask /\ r.now = q.now /\ r.first = q.first /\ r.start = q.start
         /\ r.plan = q.plan /\ r.blobs = blobs /\ Shaped(r)
    BY <1>3, <1>14 DEF Shaped
  <1>17. LookedUp(clock, r)
    <2>1. q.now \in Int /\ q.now <= clock /\ q.first \in Int \cup {Absent} BY <1>3, <1>4 DEF LookedUp
    <2> QED BY <1>16, <2>1 DEF LookedUp
  <1>18. \A label \in DOMAIN r.blobs : ChunkOK(market, base, label, r.blobs[label])
    <2>1. SUFFICES ASSUME NEW label \in DOMAIN blobs PROVE ChunkOK(market, base, label, blobs[label])
      BY <1>16
    <2>2. CASE label = p.label BY <1>12, <1>13, <2>2
    <2>3. CASE label # p.label
      <3>1. label \in DOMAIN q.blobs /\ blobs[label] = q.blobs[label] BY <1>13, <2>3
      <3> QED BY <1>10, <3>1
    <2> QED BY <2>2, <2>3
  <1>19. ASSUME Windowed(market, q) PROVE Windowed(market, r)
    <2> DEFINE live == {x \in q.plan : x.kind = "live"}
    <2>1. \A x \in live : x.label \in DOMAIN q.blobs BY <1>19 DEF Windowed
    <2>2. \A x \in live : x.label \in DOMAIN blobs /\ blobs[x.label] = q.blobs[x.label]
      BY <1>7, <1>13, <2>1 DEF q
    <2>3. {q.blobs[x.label].until : x \in live} = {blobs[x.label].until : x \in live} BY <2>2
    <2>4. AsOf(q) = Min({q.now} \cup {q.blobs[x.label].until : x \in live}) BY DEF AsOf
    <2>5. AsOf(r) = Min({q.now} \cup {blobs[x.label].until : x \in live}) BY <1>16 DEF AsOf
    <2>6. AsOf(r) = AsOf(q) BY <2>3, <2>4, <2>5
    <2>7. WindowOf(market, r, AsOf(r)) = WindowOf(market, q, AsOf(q)) BY <1>16, <2>6 DEF WindowOf
    <2>8. q.start = WindowOf(market, q, AsOf(q)) BY <1>19 DEF Windowed
    <2>9. \A x \in r.plan : x.kind = "live" => x.label \in DOMAIN r.blobs BY <1>16, <2>2
    <2> QED BY <1>16, <2>7, <2>8, <2>9 DEF Windowed
  <1>20. Planned(market, r, base) BY <1>10, <1>16 DEF Planned
  <1>21. Loaded(market, r)
    <2>1. r.first # Absent /\ base = BaseOf(market, r.ask.step) BY <1>9, <1>10, <1>16 DEF q
    <2>2. r.ask.last => Windowed(market, r) BY <1>10, <1>16, <1>19
    <2> QED BY <1>18, <1>20, <2>1, <2>2 DEF Loaded
  <1>22. RequestOK(market, clock, r) BY <1>4, <1>16, <1>17, <1>21 DEF RequestOK
  <1> QED BY <1>8, <1>12, <1>15, <1>22, OthersStay

LEMMA AssembleOK == ASSUME NEW c \in Callers PROVE ServiceInv /\ Assemble(c) => ServiceInv'
  <1> SUFFICES ASSUME ServiceInv, Assemble(c) PROVE ServiceInv' OBVIOUS
  <1> DEFINE q == request[c]
             base == BaseTimeframe(q.ask.step)
             r == [q EXCEPT !.at = "done", !.set = AssembledSet(q)]
  <1>1. request = [d \in Callers |-> request[d]] BY DEF ServiceInv
  <1>2. RequestOK(market, clock, q) /\ Market(market) /\ clock \in Int /\ CacheOK(market, cache)
        /\ market \in Markets
    BY RequestsAre DEF ServiceInv
  <1>3. q.at = "reading" /\ Unread(c) = {} BY DEF Assemble
  <1>4. Shaped(q) /\ Asking(q.ask) /\ LookedUp(clock, q) /\ Loaded(market, q) BY <1>2, <1>3 DEF RequestOK
  <1>5. request' = [request EXCEPT ![c] = r] /\ UNCHANGED <<market, clock, cache>>
    BY <1>1 DEF Assemble
  <1>6. \A p \in q.plan : p.label \in DOMAIN q.blobs BY <1>3 DEF Unread
  <1>7. base = BaseOf(market, q.ask.step) BY BasesOf
  <1>8. q.ask.step \in Timeframes BY <1>4 DEF Asking
  <1> HIDE DEF q, base
  <1>9. r = [at |-> "done", ask |-> q.ask, why |-> q.why, now |-> q.now, first |-> q.first,
             start |-> q.start, plan |-> q.plan, blobs |-> q.blobs, set |-> AssembledSet(q)]
    BY <1>4, DoneShape
  <1> HIDE DEF r
  <1>10. /\ r.at = "done" /\ r.ask = q.ask /\ r.now = q.now /\ r.first = q.first /\ r.start = q.start
         /\ r.plan = q.plan /\ r.blobs = q.blobs /\ r.set = AssembledSet(q) /\ Shaped(r)
    BY <1>9 DEF Shaped
  <1>11. LookedUp(clock, r)
    <2>1. q.now \in Int /\ q.now <= clock /\ q.first \in Int \cup {Absent} BY <1>3, <1>4 DEF LookedUp
    <2> QED BY <1>10, <2>1 DEF LookedUp
  <1>12. AsOf(r) = AsOf(q) /\ Joined(r) = Joined(q) BY <1>10 DEF AsOf, Joined
  <1>13. AssembledSet(r) = AssembledSet(q) BY <1>10, <1>12 DEF AssembledSet
  <1>14. WindowOf(market, r, AsOf(r)) = WindowOf(market, q, AsOf(q)) BY <1>10, <1>12 DEF WindowOf
  <1>15. Windowed(market, q) => Windowed(market, r) BY <1>10, <1>14 DEF Windowed
  <1>16. Planned(market, q, base) => Planned(market, r, base) BY <1>10 DEF Planned
  <1>17. Loaded(market, r)
    <2>1. CASE q.first = Absent BY <1>4, <1>10, <2>1 DEF Loaded
    <2>2. CASE q.first # Absent
      <3>1. /\ Planned(market, q, base)
            /\ \A label \in DOMAIN q.blobs : ChunkOK(market, base, label, q.blobs[label])
            /\ q.ask.last => Windowed(market, q)
        BY <1>4, <1>7, <2>2 DEF Loaded, q
      <3>2. base = BaseOf(market, r.ask.step) BY <1>7, <1>10 DEF q
      <3>3. r.ask.last => Windowed(market, r) BY <1>10, <1>15, <3>1
      <3>4. \A label \in DOMAIN r.blobs : ChunkOK(market, base, label, r.blobs[label]) BY <1>10, <3>1
      <3>5. r.first # Absent BY <1>10, <2>2
      <3> QED BY <1>16, <3>1, <3>2, <3>3, <3>4, <3>5 DEF Loaded
    <2> QED BY <2>1, <2>2
  <1>18. ASSUME r.first # Absent PROVE WholeSet(market, r)
    <2>1. /\ Planned(market, r, base)
          /\ \A label \in DOMAIN q.blobs : ChunkOK(market, base, label, q.blobs[label])
      BY <1>4, <1>7, <1>10, <1>16, <1>18 DEF Loaded, q
    <2>2. base = BaseTimeframe(r.ask.step) BY <1>10 DEF base
    <2>3. AllRead(market, r, base) BY <1>6, <1>10, <2>1 DEF AllRead
    <2>4. r.set = AssembledSet(r) BY <1>10, <1>13
    <2> QED BY <1>2, <2>1, <2>2, <2>3, <2>4, SetsAreWhole
  <1>19. \A p \in r.plan : p.label \in DOMAIN r.blobs BY <1>6, <1>10
  <1>20. RequestOK(market, clock, r)
    <2>1. Asking(r.ask) BY <1>4, <1>10
    <2> QED BY <1>10, <1>11, <1>17, <1>18, <1>19, <2>1 DEF RequestOK
  <1>21. CacheOK(market, cache') BY <1>2, <1>5
  <1> QED BY <1>5, <1>20, <1>21, OthersStay


-----------------------------------------------------------------------------
\* The step that counts the last candles

\* A plan has a live period when its end is in today, wherever it starts.
LEMMA LivePlanned ==
  ASSUME NEW start, NEW end, NEW now, NEW yearly, NEW daily
  PROVE  {p \in PlanPeriods(start, end, now, yearly, daily) : p.kind = "live"}
           = IF end > DayOf(now) THEN {Today(now)} ELSE {}
  <1> DEFINE plan == PlanPeriods(start, end, now, yearly, daily)
  <1>1. \A p : p \in plan <=>
            \/ p \in ClosedSpans(start, end, now, yearly)
            \/ /\ start < DayOf(now) /\ end > SpanOf(DayOf(now), yearly).start
               /\ \/ daily /\ p \in DaysBefore(start, end, now, yearly)
                  \/ ~daily /\ SpanOf(DayOf(now), yearly).start < DayOf(now) /\ p = AllBefore(now, yearly)
            \/ end > DayOf(now) /\ p = Today(now)
    BY PlanIs
  <1>2. \A p \in ClosedSpans(start, end, now, yearly) : p.kind # "live" BY DEF ClosedSpans
  <1>3. \A p \in DaysBefore(start, end, now, yearly) : p.kind # "live" BY DEF DaysBefore
  <1>4. AllBefore(now, yearly).kind # "live" BY DEF AllBefore
  <1>5. Today(now).kind = "live" BY DEF Today
  <1> HIDE DEF plan
  <1>6. \A p : p \in plan /\ p.kind = "live" <=> end > DayOf(now) /\ p = Today(now)
    BY <1>1, <1>2, <1>3, <1>4, <1>5
  <1>7. {p \in plan : p.kind = "live"} = IF end > DayOf(now) THEN {Today(now)} ELSE {}
    BY <1>6
  <1> QED BY <1>7 DEF plan

\* What a request becomes whose last candles are counted.
LEMMA Reads ==
  ASSUME ServiceInv, NEW c \in Callers, request[c].at = "found", request[c].first # Absent, ~OutOfRange(c),
         request[c].ask.last, NEW blobs,
         LET q == request[c]
             live == {p \in Periods(Base(c), q.ask.end - 1, q.ask.end, q.now) : p.kind = "live"}
         IN  /\ DOMAIN blobs = {p.label : p \in live}
             /\ \A p \in live : ChunkOK(market, Base(c), p.label, blobs[p.label]),
         CacheOK(market, cache'), Window(c, blobs), market' = market, clock' = clock
  PROVE  ServiceInv'
  <1> DEFINE q == request[c]
             base == BaseTimeframe(q.ask.step)
             live == {p \in Periods(base, q.ask.end - 1, q.ask.end, q.now) : p.kind = "live"}
             asOf == Min({q.now} \cup {blobs[label].until : label \in DOMAIN blobs})
             start == WindowOf(market, q, asOf)
             s == [q EXCEPT !.blobs = blobs]
             r == Loads(s, start)
  <1>1. request = [d \in Callers |-> request[d]] BY DEF ServiceInv
  <1>2. RequestOK(market, clock, q) /\ Market(market) /\ clock \in Int BY RequestsAre
  <1>3. q.at = "found" /\ q.first # Absent /\ q.ask.last /\ ~(q.ask.end > q.now)
    BY DEF OutOfRange
  <1>4. Shaped(q) /\ Asking(q.ask) /\ LookedUp(clock, q) BY <1>2, <1>3 DEF RequestOK
  <1>5. q.now \in Int /\ q.now <= clock /\ q.first \in Int BY <1>3, <1>4 DEF LookedUp
  <1>6. q.ask.end \in Int /\ q.ask.limit \in Nat /\ q.ask.step \in Timeframes BY <1>4 DEF Asking
  <1>7. q.ask.end <= q.now
    <2>1. PICK end \in Int, now \in Int : end = q.ask.end /\ now = q.now BY <1>5, <1>6
    <2>2. ~(end > now) BY <1>3, <2>1
    <2>3. end <= now BY <2>1, <2>2
    <2> QED BY <2>1, <2>3
  <1>8. DOMAIN blobs = {p.label : p \in live} /\ \A p \in live : ChunkOK(market, base, p.label, blobs[p.label])
    BY DEF Base, Asked
  <1>9. base = BaseOf(market, q.ask.step) BY BasesOf
  <1> DEFINE known == q.now - market.delay
             yearly == Yearly(market, base)
  <1>10. known \in Int BY <1>2, <1>5 DEF Market
  <1>11. \A from : Periods(base, from, q.ask.end, q.now)
                     = PlanPeriods(from, q.ask.end, known, yearly, market.daily)
    BY DEF Periods, Yearly
  <1> HIDE DEF known, yearly
  <1>12. \A from : {p \in Periods(base, from, q.ask.end, q.now) : p.kind = "live"}
                     = IF q.ask.end > DayOf(known) THEN {Today(known)} ELSE {}
    BY <1>11, LivePlanned
  <1>13. live = IF q.ask.end > DayOf(known) THEN {Today(known)} ELSE {} BY <1>12
  <1>14. Window(c, blobs)
           <=> IF start # q.ask.end
                   /\ CandleCount(start, Least(q.ask.end, asOf), q.ask.step, market.sessions) > q.ask.limit + 1
                 THEN Fails(c, "bug") ELSE request' = [request EXCEPT ![c] = r]
    <2>1. WindowStart(q, asOf) = start BY DEF WindowStart, WindowOf
    <2> QED BY <2>1, Zenon DEF Window
  <1> HIDE DEF q, base, live
  <1>15. asOf \in Int
    <2>1. \A p \in live : blobs[p.label].until \in Int
      <3>1. TAKE p \in live
      <3>2. PICK x : IsPeriod(Yearly(market, base), x) /\ blobs[p.label].until = x.end
        BY <1>8 DEF ChunkOK
      <3> QED BY <3>2 DEF IsPeriod
    <2>2. CASE live = {}
      <3>1. {q.now} \cup {blobs[label].until : label \in DOMAIN blobs} = {q.now} BY <1>8, <2>2
      <3>2. q.now \in {q.now} /\ {q.now} \in SUBSET Int /\ \A y \in {q.now} : q.now <= y BY <1>5
      <3>3. Min({q.now}) = q.now BY <3>2, LeastIs
      <3> QED BY <1>5, <3>1, <3>3
    <2>3. CASE live # {}
      <3>1. live = {Today(known)} BY <1>13, <2>3
      <3>2. PICK until \in Int : until = blobs[Today(known).label].until BY <2>1, <3>1
      <3>3. {q.now} \cup {blobs[label].until : label \in DOMAIN blobs} = {q.now, until}
        BY <1>8, <3>1, <3>2
      <3>4. PICK now \in Int : now = q.now BY <1>5
      <3>5. Min({now, until}) \in Int
        <4>1. CASE now <= until
          <5>1. now \in {now, until} /\ {now, until} \in SUBSET Int /\ \A y \in {now, until} : now <= y BY <4>1
          <5>2. Min({now, until}) = now BY <5>1, LeastIs
          <5> QED BY <5>2
        <4>2. CASE until <= now
          <5>1. until \in {now, until} /\ {now, until} \in SUBSET Int /\ \A y \in {now, until} : until <= y BY <4>2
          <5>2. Min({now, until}) = until BY <5>1, LeastIs
          <5> QED BY <5>2
        <4> QED BY <4>1, <4>2
      <3> QED BY <3>3, <3>4, <3>5
    <2> QED BY <2>2, <2>3
  <1> HIDE DEF asOf
  <1>16. TakesLast(start, q.ask.end, asOf, q.ask.step, q.ask.limit, market.sessions, q.first)
    <2>1. Calendar(market.sessions) /\ q.ask.step \in Nat \ {0} BY <1>2, <1>6, Steps DEF Market
    <2>2. start = Beginning(FirstOfLast(q.ask.end, asOf, q.ask.step, q.ask.limit, market.sessions, q.first), q.ask.end)
      BY DEF WindowOf, Beginning
    <2> HIDE DEF start
    <2> QED BY <1>5, <1>6, <1>15, <2>1, <2>2, LastAreTaken
  <1>17. start \in Int BY <1>16 DEF TakesLast
  <1> HIDE DEF start
  <1>18. ~(CandleCount(start, Least(q.ask.end, asOf), q.ask.step, market.sessions) > q.ask.limit + 1)
    <2>1. Calendar(market.sessions) /\ q.ask.step \in Nat \ {0} BY <1>2, <1>6, Steps DEF Market
    <2> QED BY <1>5, <1>6, <1>15, <1>16, <2>1, FewAreBegun
  <1>19. request' = [request EXCEPT ![c] = r] BY <1>14, <1>18
  <1>20. s = [at |-> q.at, ask |-> q.ask, why |-> q.why, now |-> q.now, first |-> q.first,
              start |-> q.start, plan |-> q.plan, blobs |-> blobs, set |-> q.set]
    BY <1>4, BlobsShape
  <1> HIDE DEF s
  <1>21. /\ Shaped(s) /\ s.ask = q.ask /\ s.now = q.now /\ s.first = q.first /\ s.blobs = blobs
    BY <1>20 DEF Shaped
  <1>22. r = [at |-> "reading", ask |-> s.ask, why |-> s.why, now |-> s.now, first |-> s.first,
              start |-> start,
              plan |-> IF s.first = Absent THEN {}
                       ELSE Periods(BaseTimeframe(s.ask.step), start, s.ask.end, s.now),
              blobs |-> s.blobs, set |-> s.set]
    BY <1>21, LoadsAre
  <1> HIDE DEF r
  <1>23. /\ r.at = "reading" /\ r.ask = q.ask /\ r.now = q.now /\ r.first = q.first /\ r.start = start
         /\ r.blobs = blobs /\ Shaped(r)
         /\ r.plan = Periods(base, start, q.ask.end, q.now)
    BY <1>3, <1>21, <1>22 DEF Shaped, base
  <1>24. LookedUp(clock, r) BY <1>5, <1>23 DEF LookedUp
  <1>25. Planned(market, r, base)
    <2>1. /\ Asking(r.ask) /\ r.start \in Int /\ r.now \in Int /\ r.ask.end <= r.now
          /\ r.plan = Periods(BaseTimeframe(r.ask.step), r.start, r.ask.end, r.now)
      BY <1>4, <1>5, <1>7, <1>17, <1>23 DEF base
    <2>2. Planned(market, r, BaseOf(market, r.ask.step)) BY <2>1, PlansAre
    <2> QED BY <1>9, <1>23, <2>2 DEF q
  <1>26. {p \in r.plan : p.kind = "live"} = live BY <1>12, <1>13, <1>23
  <1>27. AsOf(r) = asOf
    <2>1. {blobs[label].until : label \in DOMAIN blobs} = {blobs[p.label].until : p \in live}
      <3>1. \A x \in DOMAIN blobs : \E p \in live : x = p.label BY <1>8
      <3>2. \A p \in live : p.label \in DOMAIN blobs BY <1>8
      <3> QED BY <3>1, <3>2
    <2> QED BY <1>23, <1>26, <2>1 DEF AsOf, asOf
  <1>28. Windowed(market, r)
    <2>1. \A p \in r.plan : p.kind = "live" => p.label \in DOMAIN r.blobs
      <3>1. SUFFICES ASSUME NEW p \in r.plan, p.kind = "live" PROVE p.label \in DOMAIN r.blobs OBVIOUS
      <3>2. p \in live BY <1>26, <3>1
      <3> QED BY <1>8, <1>23, <3>2
    <2>2. r.start = WindowOf(market, r, AsOf(r)) BY <1>23, <1>27 DEF WindowOf, start
    <2> QED BY <2>1, <2>2 DEF Windowed
  <1>29. \A label \in DOMAIN r.blobs : ChunkOK(market, base, label, r.blobs[label]) BY <1>8, <1>23
  <1>30. Loaded(market, r)
    <2>1. r.first # Absent /\ base = BaseOf(market, r.ask.step) BY <1>3, <1>9, <1>23 DEF q
    <2> QED BY <1>25, <1>28, <1>29, <2>1 DEF Loaded
  <1>31. RequestOK(market, clock, r) BY <1>4, <1>23, <1>24, <1>30 DEF RequestOK
  <1> QED BY <1>19, <1>31, OthersStay

LEMMA CountLastOK == ASSUME NEW c \in Callers PROVE ServiceInv /\ CountLast(c) => ServiceInv'
  <1> SUFFICES ASSUME ServiceInv, CountLast(c) PROVE ServiceInv' OBVIOUS
  <1> DEFINE q == request[c]
             base == Base(c)
             live == {p \in Periods(base, q.ask.end - 1, q.ask.end, q.now) : p.kind = "live"}
  <1>1. /\ q.at = "found" /\ q.ask.last /\ q.first # Absent /\ ~OutOfRange(c)
        /\ market' = market /\ clock' = clock
    BY DEF CountLast, Asked
  <1>2. RequestOK(market, clock, q) /\ Market(market) /\ clock \in Int /\ CacheOK(market, cache)
    BY RequestsAre
  <1>3. Asking(q.ask) /\ LookedUp(clock, q) BY <1>1, <1>2 DEF RequestOK
  <1>4. live = LivePeriods(c) BY DEF LivePeriods, Asked
  <1>5. base = BaseTimeframe(q.ask.step) /\ q.ask.step \in Timeframes /\ q.ask.end \in Int
        /\ q.now \in Int /\ q.now <= clock
    BY <1>1, <1>3 DEF Base, Asked, Asking, LookedUp
  <1>6. CASE live = {}
    <2>1. Window(c, <<>>) /\ cache' = cache BY <1>4, <1>6 DEF CountLast
    <2>2. DOMAIN <<>> = {p.label : p \in live} /\ CacheOK(market, cache') BY <1>2, <1>6, <2>1
    <2>3. \A p \in live : ChunkOK(market, base, p.label, <<>>[p.label]) BY <1>6
    <2> QED BY <1>1, <2>1, <2>2, <2>3, Reads
  <1>7. CASE live # {}
    <2> DEFINE p == CHOOSE x \in live : TRUE
               chunk == Chunk(base, p)
               blobs == With(<<>>, p.label, chunk)
    <2>1. /\ cache' = With(cache, Key(base, p), chunk)
          /\ Window(c, blobs)
      BY <1>4, <1>7 DEF CountLast
    <2>2. live = {p}
      <3>1. Periods(base, q.ask.end - 1, q.ask.end, q.now)
              = PlanPeriods(q.ask.end - 1, q.ask.end, q.now - market.delay, Yearly(market, base), market.daily)
        BY DEF Periods, Yearly
      <3>2. live = IF q.ask.end > DayOf(q.now - market.delay) THEN {Today(q.now - market.delay)} ELSE {}
        BY <3>1, LivePlanned
      <3> HIDE DEF live
      <3> QED BY <1>7, <3>2
    <2>3. p \in live BY <1>7
    <2> HIDE DEF p
    <2>4. p \in PlanPeriods(q.ask.end - 1, q.ask.end, q.now - market.delay, Yearly(market, base), market.daily)
      BY <2>3 DEF Periods, Yearly
    <2>5. q.ask.end - 1 \in Int /\ q.now - market.delay \in Int BY <1>2, <1>5 DEF Market
    <2>6. IsPeriod(Yearly(market, base), p) /\ p.end <= q.now - market.delay
      <3> DEFINE from == q.ask.end - 1
                 to == q.ask.end
                 now == q.now - market.delay
                 yearly == Yearly(market, base)
                 daily == market.daily
      <3>1. from \in Int /\ to \in Int /\ now \in Int /\ p \in PlanPeriods(from, to, now, yearly, daily)
        BY <1>5, <2>4, <2>5
      <3> HIDE DEF from, to, now, yearly, daily
      <3>2. IsPeriod(yearly, p) /\ p.end <= now BY <3>1, PlannedArePeriods
      <3> QED BY <3>2 DEF now, yearly
    <2>7. p.end <= clock - market.delay
      <3>1. p.end \in Int BY <2>6 DEF IsPeriod
      <3>2. PICK end \in Int, now \in Int, delay \in Int : end = p.end /\ now = q.now /\ delay = market.delay
        BY <1>2, <1>5, <3>1 DEF Market
      <3>3. end <= now - delay /\ now <= clock BY <1>5, <2>6, <3>2
      <3>4. end <= clock - delay BY <1>2, <3>3
      <3> QED BY <3>2, <3>4
    <2>8. ChunkOK(market, base, p.label, chunk) /\ CacheOK(market, cache')
      BY <1>5, <2>1, <2>6, <2>7, ChunksAreOK
    <2> HIDE DEF q, base, live, chunk
    <2>9. DOMAIN blobs = {p.label} /\ blobs[p.label] = chunk BY DEF With
    <2> HIDE DEF blobs
    <2>10. DOMAIN blobs = {x.label : x \in live} /\ \A x \in live : ChunkOK(market, base, x.label, blobs[x.label])
      BY <2>2, <2>8, <2>9
    <2> QED BY <1>1, <2>1, <2>8, <2>10, Reads DEF q, base, live
  <1> QED BY <1>6, <1>7


-----------------------------------------------------------------------------
\* The candle sets

\* What is known of the cache and of every request holds after each step.
THEOREM ServiceInvariant == ServiceSpec => []ServiceInv
  <1>1. ServiceInv /\ [ServiceNext]_service => ServiceInv'
    <2>1. SUFFICES ASSUME ServiceInv, [ServiceNext]_service PROVE ServiceInv' OBVIOUS
    <2>2. CASE Tick BY <2>1, <2>2, TickOK
    <2>3. ASSUME NEW key \in DOMAIN cache, Lose(key) PROVE ServiceInv' BY <2>1, <2>3, LoseOK
    <2>4. ASSUME NEW c \in Callers, NEW ask \in Asks(market), Ask(c, ask) PROVE ServiceInv'
      BY <2>1, <2>4, AskOK
    <2>5. ASSUME NEW c \in Callers, LookUp(c) PROVE ServiceInv' BY <2>1, <2>5, LookUpOK
    <2>6. ASSUME NEW c \in Callers, Refuse(c) PROVE ServiceInv' BY <2>1, <2>6, RefuseOK
    <2>7. ASSUME NEW c \in Callers, Load(c) PROVE ServiceInv' BY <2>1, <2>7, LoadOK
    <2>8. ASSUME NEW c \in Callers, CountLast(c) PROVE ServiceInv' BY <2>1, <2>8, CountLastOK
    <2>9. ASSUME NEW c \in Callers, Read(c) PROVE ServiceInv' BY <2>1, <2>9, ReadOK
    <2>10. ASSUME NEW c \in Callers, Fail(c) PROVE ServiceInv' BY <2>1, <2>10, FailOK
    <2>11. ASSUME NEW c \in Callers, Assemble(c) PROVE ServiceInv' BY <2>1, <2>11, AssembleOK
    <2>12. CASE UNCHANGED service BY <2>1, <2>12 DEF service, ServiceInv
    <2> QED BY <2>1, <2>2, <2>3, <2>4, <2>5, <2>6, <2>7, <2>8, <2>9, <2>10, <2>11, <2>12 DEF ServiceNext
  <1> QED BY <1>1, InitOK, PTL DEF ServiceSpec

\* A candle set is whole, whichever requests fetched its chunks and however the
\* clock moved meanwhile.
THEOREM SetsStayWhole == ServiceSpec => []SetIsWhole
  <1>1. ServiceInv => SetIsWhole
    <2>1. SUFFICES ASSUME ServiceInv, NEW c \in Callers, Done(c), request[c].first # Absent
                   PROVE  WholeSet(market, request[c])
      BY DEF SetIsWhole, WholeSet, Expected, ExpectedOf, Traded, TradedOf
    <2>2. RequestOK(market, clock, request[c]) BY <2>1, RequestsAre
    <2> QED BY <2>1, <2>2 DEF RequestOK, Done
  <1> QED BY <1>1, ServiceInvariant, PTL

\* The last candles are as many as asked for, or all there are.
THEOREM LastStayCounted == ServiceSpec => []LastAreCounted
  <1>1. ServiceInv => LastAreCounted
    <2>1. SUFFICES ASSUME ServiceInv, NEW c \in Callers
                   PROVE  /\ request[c].at = "failed" => request[c].why # "bug"
                          /\ Done(c) /\ Asked(c).last /\ request[c].first # Absent =>
                                LET r == request[c]
                                    n == Cardinality(Expected(r))
                                    older == ExpectedBins(r.first, r.start, r.ask.step, market.sessions, AsOf(r))
                                IN  n = r.ask.limit \/ (n < r.ask.limit /\ older = {})
      BY DEF LastAreCounted
    <2> DEFINE r == request[c]
    <2>2. RequestOK(market, clock, r) /\ Market(market) BY <2>1, RequestsAre
    <2>3. r.at = "failed" => r.why # "bug" BY <2>2 DEF RequestOK
    <2>4. ASSUME r.at = "done", r.ask.last, r.first # Absent
          PROVE  TakesLast(r.start, r.ask.end, AsOf(r), r.ask.step, r.ask.limit, market.sessions, r.first)
      <3> HIDE DEF r
      <3> DEFINE base == BaseOf(market, r.ask.step)
      <3>1. Asking(r.ask) /\ LookedUp(clock, r) /\ Loaded(market, r) /\ \A p \in r.plan : p.label \in DOMAIN r.blobs
        BY <2>2, <2>4 DEF RequestOK
      <3>2. /\ Planned(market, r, base) /\ Windowed(market, r)
            /\ \A label \in DOMAIN r.blobs : ChunkOK(market, base, label, r.blobs[label])
        BY <2>4, <3>1 DEF Loaded
      <3>3. AllRead(market, r, base) BY <3>1, <3>2 DEF AllRead
      <3>4. AsOf(r) \in Int BY <2>2, <3>2, <3>3, AsOfIs
      <3>5. r.first \in Int /\ r.ask.step \in Nat \ {0} /\ r.ask.end \in Int /\ r.ask.limit \in Nat
            /\ Calendar(market.sessions)
        BY <2>2, <2>4, <3>1, Steps DEF LookedUp, Asking, Market
      <3>6. r.start = Beginning(FirstOfLast(r.ask.end, AsOf(r), r.ask.step, r.ask.limit, market.sessions, r.first),
                                r.ask.end)
        BY <3>2 DEF Windowed, WindowOf, Beginning
      <3> QED BY <3>4, <3>5, <3>6, LastAreTaken
    <2> QED BY <2>3, <2>4 DEF TakesLast, Done, Asked, Expected
  <1> QED BY <1>1, ServiceInvariant, PTL


-----------------------------------------------------------------------------
\* The chunks of a plan

\* A period is what its fields are.
LEMMA PeriodsAreRecords ==
  ASSUME NEW start, NEW end, NEW now, NEW yearly, NEW daily,
         NEW p \in PlanPeriods(start, end, now, yearly, daily)
  PROVE  p = [kind |-> p.kind, start |-> p.start, end |-> p.end, label |-> p.label]
  <1>1. \/ p \in ClosedSpans(start, end, now, yearly)
        \/ p \in DaysBefore(start, end, now, yearly)
        \/ p = AllBefore(now, yearly)
        \/ p = Today(now)
    BY PlanIs
  <1>2. CASE p \in ClosedSpans(start, end, now, yearly) BY <1>2 DEF ClosedSpans
  <1>3. CASE p \in DaysBefore(start, end, now, yearly) BY <1>3 DEF DaysBefore
  <1>4. CASE p = AllBefore(now, yearly) BY <1>4 DEF AllBefore
  <1>5. CASE p = Today(now) BY <1>5 DEF Today
  <1> QED BY <1>1, <1>2, <1>3, <1>4, <1>5

\* Multiples of a length are that far apart.
LEMMA SpansApart ==
  ASSUME NEW d \in Nat \ {0}, NEW a \in Int, NEW b \in Int, a % d = 0, b % d = 0
  PROVE  a < b => a + d <= b
  <1>1. PICK m \in Int : a = m * d BY WholeTimes
  <1>2. PICK n \in Int : b = n * d BY WholeTimes
  <1>3. m < n => m * d + d <= n * d BY TimesOrder
  <1>4. n <= m => n * d <= m * d BY TimesOrder
  <1>5. m * d \in Int /\ n * d \in Int OBVIOUS
  <1> QED BY <1>1, <1>2, <1>3, <1>4, <1>5

\* A closed span of a plan is over before the current one starts.
LEMMA ClosedSpansAre ==
  ASSUME NEW start \in Int, NEW end \in Int, NEW now \in Int, NEW yearly,
         NEW p \in ClosedSpans(start, end, now, yearly)
  PROVE  /\ p.start \in Int /\ p.end = p.start + SpanLength(yearly) /\ p.start % SpanLength(yearly) = 0
         /\ p.end \in Int /\ p.end <= SpanOf(DayOf(now), yearly).start
         /\ p = [kind |-> "closed", start |-> p.start, end |-> p.start + SpanLength(yearly),
                 label |-> <<"span", p.start>>]
  <1>1. PICK current \in Int : current = SpanOf(DayOf(now), yearly).start BY Days, SpansAre
  <1>2. PICK from \in Int : from = SpanOf(start, yearly).start BY SpansAre
  <1>3. PICK t \in from..Least(end, current) - 1 :
          p = [kind |-> "closed", start |-> SpanOf(t, yearly).start, end |-> SpanOf(t, yearly).next,
               label |-> <<"span", SpanOf(t, yearly).start>>]
    BY <1>1, <1>2 DEF ClosedSpans
  <1>4. t \in Int /\ t < current BY <1>3 DEF Least
  <1>5. PICK length \in Nat \ {0} : length = SpanLength(yearly) BY SpanLengths
  <1>6. PICK a \in Int : a = SpanOf(t, yearly).start BY <1>4, SpansAre
  <1>7. a <= t /\ a % length = 0 /\ SpanOf(t, yearly).next = a + length BY <1>4, <1>5, <1>6, SpansAre
  <1>8. DayOf(now) \in Int BY Days
  <1>9. current % length = 0 BY <1>1, <1>5, <1>8, SpansAre
  <1>10. a + length <= current BY <1>4, <1>7, <1>9, SpansApart
  <1>11. p = [kind |-> "closed", start |-> a, end |-> a + length, label |-> <<"span", a>>] BY <1>3, <1>6, <1>7
  <1>12. p.start = a /\ p.end = a + length BY <1>11
  <1> QED BY <1>1, <1>5, <1>7, <1>10, <1>11, <1>12

\* A part of the current span is in it, before today.
LEMMA PartsBefore ==
  ASSUME NEW start \in Int, NEW end \in Int, NEW now \in Int, NEW yearly,
         NEW p \in DaysBefore(start, end, now, yearly)
  PROVE  /\ p.start \in Int /\ p.start % Day = 0 /\ p.end = p.start + Day /\ p.end \in Int
         /\ SpanOf(DayOf(now), yearly).start <= p.start /\ p.end <= DayOf(now)
         /\ p = [kind |-> "current", start |-> p.start, end |-> p.start + Day, label |-> <<"day", p.start>>]
  <1>1. PICK current \in Int, today \in Int : current = SpanOf(DayOf(now), yearly).start /\ today = DayOf(now)
    BY Days, SpansAre
  <1>2. PICK first \in Int : first = DayOf(start) BY Days
  <1>3. PICK d \in {x \in Most(first, current)..Least(end, today) - 1 : x % Day = 0} :
          p = [kind |-> "current", start |-> d, end |-> d + Day, label |-> <<"day", d>>]
    BY <1>1, <1>2 DEF DaysBefore
  <1>4. d \in Int /\ current <= d /\ d < today /\ d % Day = 0 BY <1>3 DEF Most, Least
  <1>5. today % Day = 0 /\ Day \in Nat \ {0} BY <1>1, Days, Steps
  <1>6. d + Day <= today BY <1>4, <1>5, SpansApart
  <1>7. p.start = d /\ p.end = d + Day /\ d + Day \in Int BY <1>3, <1>4, <1>5
  <1> QED BY <1>1, <1>3, <1>4, <1>6, <1>7

\* No time is in two periods of a plan.
LEMMA PlanApart ==
  ASSUME NEW start \in Int, NEW end \in Int, NEW now \in Int, NEW yearly, NEW daily,
         NEW p \in PlanPeriods(start, end, now, yearly, daily),
         NEW q \in PlanPeriods(start, end, now, yearly, daily),
         NEW t \in Int, p.start <= t, t < p.end, q.start <= t, t < q.end
  PROVE  p = q
  <1>1. PICK current \in Int, today \in Int : current = SpanOf(DayOf(now), yearly).start /\ today = DayOf(now)
    BY Days, SpansAre
  <1>2. PICK length \in Nat \ {0} : length = SpanLength(yearly) BY SpanLengths
  <1>3. Day \in Nat \ {0} BY Steps
  <1> DEFINE Kind(x) == \/ x \in ClosedSpans(start, end, now, yearly)
                        \/ daily /\ x \in DaysBefore(start, end, now, yearly)
                        \/ ~daily /\ x = AllBefore(now, yearly)
                        \/ x = Today(now)
             Spanned(x) == /\ x.start \in Int /\ x.start % length = 0 /\ x.start + length <= current
                           /\ x.end = x.start + length
                           /\ x = [kind |-> "closed", start |-> x.start, end |-> x.start + length,
                                   label |-> <<"span", x.start>>]
             Dayed(x) == /\ x.start \in Int /\ x.start % Day = 0 /\ x.start + Day <= today /\ current <= x.start
                         /\ x.end = x.start + Day
                         /\ x = [kind |-> "current", start |-> x.start, end |-> x.start + Day,
                                 label |-> <<"day", x.start>>]
  <1>4. \A x \in PlanPeriods(start, end, now, yearly, daily) : Kind(x) BY PlanIs
  <1>5. \A x \in ClosedSpans(start, end, now, yearly) : Spanned(x) BY <1>1, <1>2, ClosedSpansAre
  <1>6. \A x \in DaysBefore(start, end, now, yearly) : Dayed(x) BY <1>1, PartsBefore
  <1>7. AllBefore(now, yearly).start = current /\ AllBefore(now, yearly).end = today BY <1>1 DEF AllBefore
  <1>8. Today(now).start = today BY <1>1 DEF Today
  <1>9. \A x \in PlanPeriods(start, end, now, yearly, daily) :
           \/ Spanned(x)
           \/ daily /\ Dayed(x)
           \/ ~daily /\ x = AllBefore(now, yearly)
           \/ x = Today(now)
    BY <1>4, <1>5, <1>6
  <1> DEFINE Placed(x) == \/ Spanned(x) /\ t < current
                          \/ daily /\ Dayed(x) /\ current <= t /\ t < today
                          \/ ~daily /\ x = AllBefore(now, yearly) /\ current <= t /\ t < today
                          \/ x = Today(now) /\ today <= t
  <1>10. current <= today BY <1>1, Days, SpansAre
  <1>11. ASSUME NEW x \in PlanPeriods(start, end, now, yearly, daily), x.start <= t, t < x.end PROVE Placed(x)
    <2>1. CASE Spanned(x)
      <3>1. t < current BY <1>11, <2>1
      <3> QED BY <2>1, <3>1
    <2>2. CASE daily /\ Dayed(x)
      <3>1. current <= t /\ t < today BY <1>3, <1>11, <2>2
      <3> QED BY <2>2, <3>1
    <2>3. CASE ~daily /\ x = AllBefore(now, yearly)
      <3>1. current <= t /\ t < today BY <1>7, <1>11, <2>3
      <3> QED BY <2>3, <3>1
    <2>4. CASE x = Today(now)
      <3>1. today <= t BY <1>8, <1>11, <2>4
      <3> QED BY <2>4, <3>1
    <2> HIDE DEF Spanned, Dayed
    <2> QED BY <1>9, <2>1, <2>2, <2>3, <2>4
  <1>12. Placed(p) /\ Placed(q)
    <2> HIDE DEF Placed
    <2> QED BY <1>11
  <1>13. ASSUME Spanned(p), Spanned(q) PROVE p = q
    <2>1. PICK a \in Int, b \in Int : a = p.start /\ b = q.start BY <1>13
    <2>2. a <= t /\ t < a + length /\ b <= t /\ t < b + length BY <1>13, <2>1
    <2>3. a < b => a + length <= b BY <1>13, <2>1, SpansApart
    <2>4. b < a => b + length <= a BY <1>13, <2>1, SpansApart
    <2>5. a = b BY <2>2, <2>3, <2>4
    <2> QED BY <1>13, <2>1, <2>5
  <1>14. ASSUME Dayed(p), Dayed(q) PROVE p = q
    <2>1. PICK a \in Int, b \in Int : a = p.start /\ b = q.start BY <1>14
    <2>2. a <= t /\ t < a + Day /\ b <= t /\ t < b + Day BY <1>14, <2>1
    <2>3. a < b => a + Day <= b BY <1>3, <1>14, <2>1, SpansApart
    <2>4. b < a => b + Day <= a BY <1>3, <1>14, <2>1, SpansApart
    <2>5. a = b BY <1>3, <2>2, <2>3, <2>4
    <2> QED BY <1>14, <2>1, <2>5
  <1> HIDE DEF Spanned, Dayed
  <1> QED BY <1>10, <1>12, <1>13, <1>14

\* Plans cover their periods, and a shared label names the same chunk.
THEOREM PlansStayCovering == ServiceSpec => []PlansCover
  <1>1. ServiceInv => PlansCover
    <2> SUFFICES ASSUME ServiceInv PROVE PlansCover OBVIOUS
    <2>1. ASSUME NEW c \in Callers, request[c].at \in {"reading", "done"}, request[c].plan # {}
          PROVE  /\ Planned(market, request[c], Base(c)) /\ Market(market)
                 /\ \A p \in request[c].plan :
                        /\ IsPeriod(Yearly(market, Base(c)), p) /\ p.end <= request[c].now - market.delay
                        /\ p = [kind |-> p.kind, start |-> p.start, end |-> p.end, label |-> p.label]
      <3> DEFINE r == request[c]
                 base == Base(c)
      <3>1. RequestOK(market, clock, r) /\ Market(market) BY RequestsAre
      <3>2. Loaded(market, r) BY <2>1, <3>1 DEF RequestOK
      <3>3. base = BaseOf(market, r.ask.step) BY BasesOf DEF Base, Asked
      <3>4. Planned(market, r, base) BY <2>1, <3>2, <3>3 DEF Loaded
      <3> HIDE DEF r, base
      <3>5. \A p \in r.plan : IsPeriod(Yearly(market, base), p) /\ p.end <= r.now - market.delay
        BY <3>1, <3>4, PlannedAre
      <3>6. r.plan = PlanPeriods(r.start, r.ask.end, r.now - market.delay, Yearly(market, base), market.daily)
        BY <3>4 DEF Planned
      <3>7. \A p \in r.plan : p = [kind |-> p.kind, start |-> p.start, end |-> p.end, label |-> p.label]
        BY <3>6, PeriodsAreRecords
      <3> QED BY <3>1, <3>4, <3>5, <3>7 DEF r, base
    <2>2. ASSUME NEW c \in Callers, request[c].at \in {"reading", "done"}, request[c].plan # {},
                 NEW t \in request[c].start..Least(request[c].ask.end, request[c].now - market.delay) - 1
          PROVE  Cardinality({p \in request[c].plan : p.start <= t /\ t < p.end}) = 1
      <3> DEFINE r == request[c]
                 start == r.start
                 end == r.ask.end
                 now == r.now - market.delay
                 yearly == Yearly(market, Base(c))
                 daily == market.daily
                 plan == PlanPeriods(start, end, now, yearly, daily)
      <3>1. Planned(market, r, Base(c)) /\ Market(market) BY <2>1, <2>2
      <3>2. start \in Int /\ end \in Int /\ now \in Int /\ r.plan = plan BY <3>1 DEF Planned, Market
      <3>3. t \in start..Least(end, now) - 1 OBVIOUS
      <3> HIDE DEF start, end, now, yearly, daily
      <3>4. t \in Int /\ start <= t /\ t < end /\ t < now BY <3>2, <3>3 DEF Least
      <3>5. DayOf(t) \in Int /\ DayOf(t) <= t /\ t < DayOf(t) + Day /\ Day \in Nat BY <3>4, Days, Steps
      <3>6. \E p \in plan : p.start <= t /\ t < p.end
        <4>1. CASE t < DayOf(now)
          <5>1. PICK p \in plan : p.start <= DayOf(t) /\ DayOf(t) + Day <= p.end BY <3>2, <3>4, <4>1, PlanCovers
          <5>2. p.start \in Int /\ p.end \in Int BY <3>2, PlannedArePeriods DEF IsPeriod
          <5> HIDE DEF plan
          <5>3. p.start <= t /\ t < p.end BY <3>4, <3>5, <5>1, <5>2
          <5> QED BY <5>3
        <4>2. CASE DayOf(now) <= t
          <5>1. start <= t /\ t < end /\ t \in Int /\ start \in Int /\ end \in Int /\ now \in Int
            BY <3>2, <3>4
          <5>2. \E p \in PlanPeriods(start, end, now, yearly, daily) : p.kind = "live" /\ p.start = DayOf(now)
            <6>1. DayOf(now) \in Int BY <5>1, Days
            <6>2. end > DayOf(now) BY <4>2, <5>1, <6>1
            <6>3. Today(now) \in PlanPeriods(start, end, now, yearly, daily) BY <6>2, PlanIs
            <6>4. Today(now).kind = "live" /\ Today(now).start = DayOf(now) BY DEF Today
            <6> HIDE DEF plan
            <6> QED BY <6>3, <6>4
          <5>3. PICK p \in plan : p.kind = "live" /\ p.start = DayOf(now) BY <5>2
          <5>4. p.end = now
            <6>1. p \in PlanPeriods(start, end, now, yearly, daily) OBVIOUS
            <6> HIDE DEF plan
            <6>2. \A x \in PlanPeriods(start, end, now, yearly, daily) : x.kind = "live" => x.end = now
              BY <5>1, PlannedArePeriods
            <6> QED BY <5>3, <6>1, <6>2
          <5> QED BY <3>4, <4>2, <5>3, <5>4
        <4>3. DayOf(now) \in Int BY <3>2, Days
        <4> QED BY <3>4, <4>1, <4>2, <4>3
      <3>7. ASSUME NEW p \in plan, NEW q \in plan, p.start <= t, t < p.end, q.start <= t, t < q.end PROVE p = q
        BY <3>2, <3>4, <3>7, PlanApart
      <3> HIDE DEF plan
      <3>8. PICK p : {x \in plan : x.start <= t /\ t < x.end} = {p} BY <3>6, <3>7
      <3> QED BY <3>2, <3>8, FS_Singleton
    <2>3. ASSUME NEW c \in Callers, NEW d \in Callers, request[c].at = "reading", request[d].at = "reading",
                 NEW p \in request[c].plan, NEW q \in request[d].plan, p.label = q.label, Base(c) = Base(d)
          PROVE  p.start = q.start /\ (p.kind # "live" => p = q)
      <3>1. IsPeriod(Yearly(market, Base(c)), p) /\ IsPeriod(Yearly(market, Base(c)), q)
            /\ p = [kind |-> p.kind, start |-> p.start, end |-> p.end, label |-> p.label]
            /\ q = [kind |-> q.kind, start |-> q.start, end |-> q.end, label |-> q.label]
        BY <2>1, <2>3
      <3>2. p.kind = q.kind /\ p.start = q.start /\ (p.kind # "live" => p.end = q.end)
        BY <2>3, <3>1, LabelsName
      <3> QED BY <2>3, <3>1, <3>2
    <2> QED BY <2>1, <2>2, <2>3 DEF PlansCover
  <1> QED BY <1>1, ServiceInvariant, PTL


-----------------------------------------------------------------------------
\* The latest end of a period that fits

PastOver(found, s, step, start, end) ==
    LET n == SessionCount(s, step, start, end)
        first == Most(0, CeilDiv(start - s.open, step))
    IN  IF found.end # Absent THEN found
        ELSE IF found.left < n THEN [left |-> 0, end |-> s.open + (first + found.left) * step]
        ELSE [left |-> found.left - n, end |-> Absent]

\* A function by which LatestEnd goes over the sessions.
GoesPast(f, sessions, step, start, end, maximum) ==
    f = [s \in SUBSET (DOMAIN sessions) |->
            IF s = {} THEN [left |-> maximum, end |-> Absent]
            ELSE PastOver(f[s \ {Max(s)}], sessions[Max(s)], step, start, end)]

LEMMA LatestGoesPast ==
  ASSUME NEW sessions, sessions # Absent, NEW step, NEW start, NEW end, NEW maximum
  PROVE  LatestEnd(start, end, step, maximum, sessions)
           = LET found == (CHOOSE f : GoesPast(f, sessions, step, start, end, maximum))[DOMAIN sessions]
             IN  IF found.end = Absent THEN end ELSE found.end
  BY DEF LatestEnd, FoldLeft, MapThenFoldSet, GoesPast, PastOver

LEMMA GoingPast ==
  ASSUME NEW sessions, sessions # Absent, IsCalendar(sessions), NEW step \in Nat \ {0},
         NEW start \in Int, NEW end \in Int, NEW maximum \in Nat
  PROVE  \E f : GoesPast(f, sessions, step, start, end, maximum)
  <1> DEFINE D == DOMAIN sessions
             X == [left : Int, end : Int \cup {Absent}]
             base == [left |-> maximum, end |-> Absent]
             past(x, i) == PastOver(x, sessions[i], step, start, end)
             h == [i \in D |-> [x \in X |-> past(x, i)]]
             pick == [s \in SUBSET D |-> Max(s)]
  <1>1. PICK k \in Nat : D = 1..k BY SessionType
  <1>2. IsFiniteSet(D) BY <1>1, FS_Interval
  <1>3. base \in X OBVIOUS
  <1>4. ASSUME NEW i \in D, NEW x \in X PROVE past(x, i) \in X
    <2>s. SessionSteps(sessions, i, step, start, end) BY SessionsAreSteps
    <2>a. /\ FirstStep(sessions[i], step, start) \in Int /\ StepsEnd(sessions[i], step, end) \in Int
          /\ SessionCount(sessions[i], step, start, end)
               = Most(0, StepsEnd(sessions[i], step, end) - FirstStep(sessions[i], step, start))
      BY <2>s DEF SessionSteps
    <2>0. PICK lo \in Int, hi \in Int : /\ lo = FirstStep(sessions[i], step, start)
                                        /\ SessionCount(sessions[i], step, start, end) = Most(0, hi - lo)
      BY <2>a
    <2>1. /\ lo = Most(0, CeilDiv(start - sessions[i].open, step))
          /\ SessionCount(sessions[i], step, start, end) = Most(0, hi - lo)
      BY <2>0 DEF FirstStep
    <2>2. PICK n \in Int : n = SessionCount(sessions[i], step, start, end) BY <2>1 DEF Most
    <2>3. PICK open \in Int : open = sessions[i].open BY SessionType
    <2>4. past(x, i) = IF x.end # Absent THEN x
                       ELSE IF x.left < n THEN [left |-> 0, end |-> open + (lo + x.left) * step]
                       ELSE [left |-> x.left - n, end |-> Absent]
      BY <2>1, <2>2, <2>3 DEF PastOver
    <2>5. PICK left \in Int : left = x.left OBVIOUS
    <2>6. open + (lo + left) * step \in Int OBVIOUS
    <2>7. left - n \in Int OBVIOUS
    <2> HIDE DEF past
    <2> QED BY <2>4, <2>5, <2>6, <2>7
  <1> HIDE DEF past
  <1>5. h \in [D -> [X -> X]] BY <1>4
  <1>6. \A s \in SUBSET D : s # {} => pick[s] \in s BY <1>1, Indices
  <1>7. PICK f : GoesThrough(f, D, X, base, h, pick)
    <2> HIDE DEF D, X, base, h, pick
    <2> QED BY <1>2, <1>3, <1>5, <1>6, GoingThrough
  <1>8. f \in [SUBSET D -> X] /\ f[{}] = base BY <1>7 DEF GoesThrough
  <1>9. ASSUME NEW s \in SUBSET D, s # {} PROVE f[s] = past(f[s \ {Max(s)}], Max(s))
    <2>1. f[s] = h[pick[s]][f[s \ {pick[s]}]] BY <1>7, <1>9 DEF GoesThrough
    <2>2. Max(s) \in D /\ pick[s] = Max(s) BY <1>6, <1>9
    <2>3. f[s \ {Max(s)}] \in X BY <1>8
    <2> QED BY <2>1, <2>2, <2>3
  <1>10. \A s \in SUBSET D : f[s] = IF s = {} THEN base ELSE past(f[s \ {Max(s)}], Max(s)) BY <1>8, <1>9
  <1> HIDE DEF X, h, pick, base
  <1>11. f = [s \in SUBSET D |-> IF s = {} THEN base ELSE past(f[s \ {Max(s)}], Max(s))] BY <1>8, <1>10
  <1> QED BY <1>11, Zenon DEF GoesPast, D, base, past

\* The times of a set before one of it, or how many more may be there.
Before(S, t) == {u \in S : u < t}
Passed(found, S, maximum) ==
    IF Cardinality(S) > maximum
      THEN found.end \in S /\ Cardinality(Before(S, found.end)) = maximum
      ELSE found.end = Absent /\ found.left = maximum - Cardinality(S)

\* One session more.
LEMMA PastOn ==
  ASSUME NEW S, Bounded(S), NEW maximum \in Nat, NEW found, Passed(found, S, maximum),
         NEW s, NEW step \in Nat \ {0}, NEW start, NEW end, NEW lo \in Int, NEW hi \in Int, NEW open \in Int,
         open = s.open, lo = Most(0, CeilDiv(start - s.open, step)),
         SessionCount(s, step, start, end) = Most(0, hi - lo),
         \A u \in S, t \in StepsFrom(open, step, lo, hi) : u < t
  PROVE  Passed(PastOver(found, s, step, start, end), S \cup StepsFrom(open, step, lo, hi), maximum)
  <1> DEFINE opens == StepsFrom(open, step, lo, hi)
             all == S \cup opens
             past == PastOver(found, s, step, start, end)
  <1>1. PICK n \in Nat : n = Most(0, hi - lo) BY DEF Most
  <1>2. IsFiniteSet(opens) /\ Cardinality(opens) = n
    <2>1. StepsCounted(open, step, lo, hi) BY CountOfSteps
    <2> QED BY <1>1, <2>1 DEF StepsCounted
  <1>3. S \subseteq Int /\ IsFiniteSet(S) /\ Cardinality(S) \in Nat BY BoundedPart, FS_CardinalityType DEF Bounded
  <1>4. past = IF found.end # Absent THEN found
               ELSE IF found.left < n THEN [left |-> 0, end |-> open + (lo + found.left) * step]
               ELSE [left |-> found.left - n, end |-> Absent]
    BY <1>1 DEF PastOver
  <1>5. opens \subseteq Int
    <2>1. SUFFICES ASSUME NEW k \in lo..hi - 1 PROVE open + k * step \in Int BY DEF StepsFrom
    <2>2. k * step \in Int OBVIOUS
    <2> QED BY <2>2
  <1>6. S \cap opens = {}
    <2>1. SUFFICES ASSUME NEW u \in S, u \in opens PROVE FALSE OBVIOUS
    <2>2. u < u /\ u \in Int BY <1>3, <2>1
    <2> QED BY <2>2
  <1>7. Cardinality(all) = Cardinality(S) + n
    <2> HIDE DEF opens
    <2> QED BY <1>2, <1>3, <1>6, CardinalityAdds
  <1>8. CASE Cardinality(S) > maximum
    <2>1. found.end \in S /\ Cardinality(Before(S, found.end)) = maximum BY <1>8 DEF Passed
    <2>2. found.end # Absent BY <1>3, <2>1, BinsAssumption
    <2>3. past = found BY <1>4, <2>2
    <2>4. Cardinality(all) > maximum BY <1>3, <1>7, <1>8
    <2>5. Before(all, found.end) = Before(S, found.end)
      <3>1. PICK e \in S : e = found.end BY <2>1
      <3>2. \A t \in opens : ~(t < e) BY <1>3, <1>5
      <3> HIDE DEF all, opens
      <3>3. all = S \cup opens BY DEF all
      <3> QED BY <3>1, <3>2, <3>3 DEF Before
    <2> HIDE DEF all, past, opens
    <2>6. found.end \in all BY <2>1 DEF all
    <2>7. Passed(past, all, maximum) BY <2>1, <2>3, <2>4, <2>5, <2>6 DEF Passed
    <2> QED BY <2>7 DEF past, all, opens
  <1>9. CASE ~(Cardinality(S) > maximum)
    <2>1. found.end = Absent /\ found.left = maximum - Cardinality(S) BY <1>9 DEF Passed
    <2>2. PICK left \in Nat : left = found.left BY <1>3, <1>9, <2>1
    <2>3. CASE left < n
      <3>1. PICK e \in Int : e = open + (lo + left) * step
        <4>1. (lo + left) * step \in Int OBVIOUS
        <4> QED BY <4>1
      <3>2. past = [left |-> 0, end |-> e] BY <1>4, <2>1, <2>2, <2>3, <3>1
      <3>3. n = hi - lo /\ lo + left \in lo..hi - 1 BY <1>1, <2>3 DEF Most
      <3>4. e \in opens BY <3>1, <3>3 DEF StepsFrom
      <3>5. Cardinality(all) > maximum BY <1>3, <1>7, <2>1, <2>2, <2>3
      <3> DEFINE some == StepsFrom(open, step, lo, lo + left)
      <3>6. Before(opens, e) = some
        <4>1. ASSUME NEW k \in lo..hi - 1 PROVE open + k * step < e <=> k \in lo..lo + left - 1
          <5>1. k \in Int /\ lo + left \in Int /\ k * step \in Int /\ (lo + left) * step \in Int OBVIOUS
          <5>2. k < lo + left => k * step + step <= (lo + left) * step BY <5>1, TimesOrder
          <5>3. lo + left <= k => (lo + left) * step <= k * step BY <5>1, TimesOrder
          <5>4. k < lo + left <=> k \in lo..lo + left - 1 OBVIOUS
          <5> QED BY <3>1, <5>1, <5>2, <5>3, <5>4
        <4>2. \A k \in lo..lo + left - 1 : k \in lo..hi - 1 BY <1>1, <2>3, <3>3
        <4>3. \A t : t \in Before(opens, e) <=> t \in some BY <4>1, <4>2 DEF StepsFrom, Before
        <4> QED BY <4>3 DEF Before, StepsFrom
      <3>7. Cardinality(some) = left /\ IsFiniteSet(some)
        <4>1. lo + left \in Int OBVIOUS
        <4>2. StepsCounted(open, step, lo, lo + left) BY <4>1, CountOfSteps
        <4>3. Most(0, (lo + left) - lo) = left BY DEF Most
        <4> QED BY <4>2, <4>3 DEF StepsCounted
      <3> HIDE DEF opens, some
      <3>8. Before(all, e) = S \cup some
        <4>1. \A u \in S : u < e BY <3>4 DEF opens
        <4> QED BY <3>6, <4>1 DEF Before
      <3>9. S \cap some = {} BY <1>6, <3>6 DEF Before
      <3>10. Cardinality(Before(all, e)) = maximum
        <4>1. Cardinality(S \cup some) = Cardinality(S) + left BY <1>3, <3>7, <3>9, CardinalityAdds
        <4>2. left = maximum - Cardinality(S) BY <2>1, <2>2
        <4>3. PICK m \in Nat : m = Cardinality(S) BY <1>3
        <4>4. m + left = maximum BY <4>2, <4>3
        <4> QED BY <3>8, <4>1, <4>3, <4>4
      <3>11. past.end = e /\ e \in all BY <3>2, <3>4
      <3> HIDE DEF all, past
      <3>12. Passed(past, all, maximum) BY <3>5, <3>10, <3>11 DEF Passed
      <3> QED BY <3>12 DEF past, all, opens
    <2>4. CASE ~(left < n)
      <3>1. past = [left |-> left - n, end |-> Absent] BY <1>4, <2>1, <2>2, <2>4
      <3>2. ~(Cardinality(all) > maximum) /\ left - n = maximum - Cardinality(all)
        BY <1>3, <1>7, <2>1, <2>2, <2>4
      <3>3. past.end = Absent /\ past.left = maximum - Cardinality(all) BY <3>1, <3>2
      <3> HIDE DEF all, past
      <3>4. Passed(past, all, maximum) BY <3>2, <3>3 DEF Passed
      <3> QED BY <3>4 DEF past, all
    <2> QED BY <2>3, <2>4
  <1> QED BY <1>8, <1>9


\* When there are too many, the latest end is the open of the first one too many.
LEMMA LatestInSessions ==
  ASSUME NEW sessions, sessions # Absent, IsCalendar(sessions), NEW step \in Nat \ {0},
         NEW start \in Int, NEW end \in Int, NEW maximum \in Nat,
         Cardinality(BinsIn(sessions, step, start, end)) > maximum
  PROVE  /\ LatestEnd(start, end, step, maximum, sessions) \in BinsIn(sessions, step, start, end)
         /\ Cardinality(Before(BinsIn(sessions, step, start, end),
                               LatestEnd(start, end, step, maximum, sessions))) = maximum
  <1> DEFINE f == CHOOSE f : GoesPast(f, sessions, step, start, end, maximum)
             past(x, i) == PastOver(x, sessions[i], step, start, end)
             B == BinsIn(sessions, step, start, end)
  <1>1. GoesPast(f, sessions, step, start, end, maximum) BY GoingPast
  <1>2. LatestEnd(start, end, step, maximum, sessions)
          = IF f[DOMAIN sessions].end = Absent THEN end ELSE f[DOMAIN sessions].end
    BY LatestGoesPast
  <1>3. PICK k \in Nat : DOMAIN sessions = 1..k BY SessionType
  <1>4. \A s \in SUBSET (1..k) : f[s] = IF s = {} THEN [left |-> maximum, end |-> Absent]
                                        ELSE past(f[s \ {Max(s)}], Max(s))
    <2> HIDE DEF f
    <2> QED BY <1>1, <1>3, Zenon DEF GoesPast
  <1> HIDE DEF f
  <1>5. \A i \in 1..k : f[1..i] = past(f[1..(i - 1)], i)
    <2>1. TAKE i \in 1..k
    <2>2. Max(1..i) = i /\ 1..i # {} /\ (1..i) \ {i} = 1..(i - 1) /\ 1..i \in SUBSET (1..k) BY Indices
    <2> HIDE DEF past
    <2>3. f[1..i] = past(f[(1..i) \ {Max(1..i)}], Max(1..i)) BY <1>4, <2>2
    <2> QED BY <2>2, <2>3
  <1>6. f[1..0] = [left |-> maximum, end |-> Absent]
    <2>1. 1..0 = {} /\ {} \in SUBSET (1..k) OBVIOUS
    <2> QED BY <1>4, <2>1
  <1>8. \A t \in B : t \in Int /\ \E i \in 1..k : In(sessions[i], t) BY <1>3 DEF BinsIn, IsBin
  <1>9. Bounded(B) BY BinsOfPeriod
  <1> DEFINE K(i) == {t \in B : \E j \in 1..i : In(sessions[j], t)}
             Good(i) == Passed(f[1..i], K(i), maximum)
  <1> HIDE DEF B
  <1>10. Good(0)
    <2>1. K(0) = {} OBVIOUS
    <2>2. Cardinality({}) = 0 /\ ~(0 > maximum) /\ maximum - 0 = maximum BY FS_EmptySet
    <2>3. Passed([left |-> maximum, end |-> Absent], {}, maximum) BY <2>2 DEF Passed
    <2> QED BY <1>6, <2>1, <2>3
  <1>11. ASSUME NEW i \in 1..k, Good(i - 1) PROVE Good(i)
    <2>0. i \in DOMAIN sessions BY <1>3
    <2>1. SessionSteps(sessions, i, step, start, end) BY <2>0, SessionsAreSteps
    <2>2. PICK lo \in Int, hi \in Int : lo = FirstStep(sessions[i], step, start) /\ hi = StepsEnd(sessions[i], step, end)
      BY <2>1 DEF SessionSteps
    <2>3. PICK open \in Int : open = sessions[i].open BY <2>0, SessionType
    <2>4. /\ Within(B, sessions[i]) = StepsFrom(open, step, lo, hi)
          /\ SessionCount(sessions[i], step, start, end) = Most(0, hi - lo)
          /\ lo = Most(0, CeilDiv(start - sessions[i].open, step))
      BY <2>1, <2>2, <2>3 DEF SessionSteps, FirstStep, B
    <2>5. K(i) = K(i - 1) \cup StepsFrom(open, step, lo, hi)
      <3>1. \A j : j \in 1..i <=> j = i \/ j \in 1..(i - 1) OBVIOUS
      <3>2. K(i) = K(i - 1) \cup Within(B, sessions[i]) BY <3>1 DEF Within
      <3> QED BY <2>4, <3>2
    <2>6. Bounded(K(i - 1)) BY <1>9, BoundedPart
    <2>7. ASSUME NEW u \in K(i - 1), NEW t \in StepsFrom(open, step, lo, hi) PROVE u < t
      <3>1. t \in B /\ In(sessions[i], t) BY <2>4 DEF Within
      <3>2. PICK j \in 1..(i - 1) : In(sessions[j], u) OBVIOUS
      <3>3. u \in B /\ j \in 1..k /\ j < i OBVIOUS
      <3>4. j \in DOMAIN sessions BY <1>3, <3>3
      <3>5. sessions[j].close <= sessions[i].open BY <2>0, <3>3, <3>4, SessionsInTurn
      <3>6. sessions[j].close \in Int /\ sessions[i].open \in Int BY <2>0, <3>4, SessionType
      <3>7. u < sessions[j].close /\ sessions[i].open <= t BY <3>1, <3>2 DEF In
      <3>8. u \in Int /\ t \in Int BY <1>8, <3>1, <3>3
      <3> QED BY <3>5, <3>6, <3>7, <3>8
    <2> HIDE DEF K
    <2>8. Passed(PastOver(f[1..(i - 1)], sessions[i], step, start, end), K(i - 1) \cup StepsFrom(open, step, lo, hi), maximum)
      BY <1>11, <2>3, <2>4, <2>6, <2>7, PastOn
    <2> QED BY <1>5, <2>5, <2>8
  <1> HIDE DEF K, Good
  <1>12. Good(k)
    <2> DEFINE Bad == {i \in Nat : i <= k /\ ~Good(i)}
    <2>1. SUFFICES ASSUME Bad # {} PROVE FALSE OBVIOUS
    <2>2. PICK i \in Bad : \A m \in Bad : i <= m
      <3>1. Bad \subseteq Nat OBVIOUS
      <3> HIDE DEF Bad
      <3> QED BY <2>1, <3>1, SmallestOfNat
    <2>3. i \in Nat /\ i <= k /\ ~Good(i) OBVIOUS
    <2>4. i # 0 BY <1>10, <2>3
    <2>5. i - 1 \in Nat /\ i - 1 <= k /\ ~(i <= i - 1) /\ i \in 1..k BY <2>3, <2>4
    <2>6. Good(i - 1) BY <2>2, <2>5
    <2> QED BY <1>11, <2>3, <2>5, <2>6
  <1>13. K(k) = B BY <1>8 DEF K
  <1>14. f[1..k].end \in B /\ Cardinality(Before(B, f[1..k].end)) = maximum
    BY <1>12, <1>13 DEF Good, Passed, B
  <1>15. f[1..k].end # Absent BY <1>8, <1>14, BinsAssumption
  <1> QED BY <1>2, <1>3, <1>14, <1>15 DEF B

\* A period that has too many is told the latest end that fits.
LatestFits(sessions, step, start, end, maximum, latest) ==
    /\ latest \in Int /\ start < latest
    /\ CandleCount(start, latest, step, sessions) <= maximum
    /\ \A e \in latest + 1..end : CandleCount(start, e, step, sessions) > maximum

LEMMA LatestIsIn ==
  ASSUME NEW sessions, sessions # Absent, IsCalendar(sessions), NEW step \in Nat \ {0},
         NEW start \in Int, NEW end \in Int, NEW maximum \in Nat \ {0},
         CandleCount(start, end, step, sessions) > maximum
  PROVE  LatestFits(sessions, step, start, end, maximum, LatestEnd(start, end, step, maximum, sessions))
  <1> DEFINE latest == LatestEnd(start, end, step, maximum, sessions)
             B == BinsIn(sessions, step, start, end)
  <1>0. Calendar(sessions) BY DEF Calendar
  <1>1. Cardinality(B) > maximum BY <1>0, CountIs
  <1>2. latest \in B /\ Cardinality(Before(B, latest)) = maximum BY <1>1, LatestInSessions
  <1>3. B = {t \in Int : IsBin(sessions, step, t) /\ start <= t /\ t < end} BY DEF BinsIn
  <1>4. IsFiniteSet(B) BY BinsOfPeriod
  <1> HIDE DEF latest, B
  <1>5. latest \in Int /\ start <= latest /\ latest < end BY <1>2, <1>3
  <1>6. start # latest
    <2>1. SUFFICES ASSUME start = latest PROVE FALSE OBVIOUS
    <2>2. Before(B, latest) = {} BY <1>3, <1>5, <2>1 DEF Before
    <2>3. Cardinality({}) = 0 BY FS_EmptySet
    <2> QED BY <1>2, <2>2, <2>3
  <1>7. BinsIn(sessions, step, start, latest) = Before(B, latest) BY <1>3, <1>5 DEF BinsIn, Before
  <1>8. CandleCount(start, latest, step, sessions) = maximum BY <1>0, <1>2, <1>5, <1>7, CountIs
  <1>9. ASSUME NEW e \in latest + 1..end PROVE CandleCount(start, e, step, sessions) > maximum
    <2>1. e \in Int /\ latest < e /\ e <= end BY <1>5
    <2> DEFINE C == BinsIn(sessions, step, start, e)
               some == Before(B, latest)
    <2>2. some \cup {latest} \subseteq C BY <1>2, <1>3, <1>5, <2>1 DEF Before, BinsIn
    <2>3. IsFiniteSet(some) /\ latest \notin some /\ IsFiniteSet(C)
      BY <1>4, <1>5, <2>1, FS_Subset, BinsOfPeriod DEF Before
    <2>4. CandleCount(start, e, step, sessions) = Cardinality(C) BY <1>0, <2>1, CountIs
    <2>5. Cardinality(some) = maximum BY <1>2
    <2> HIDE DEF C, some
    <2>6. Cardinality(some \cup {latest}) = maximum + 1 BY <2>3, <2>5, FS_AddElement
    <2>7. Cardinality(some \cup {latest}) <= Cardinality(C) /\ Cardinality(C) \in Nat
      BY <2>2, <2>3, FS_Subset, FS_CardinalityType
    <2> QED BY <2>4, <2>6, <2>7
  <1>10. start < latest /\ CandleCount(start, latest, step, sessions) <= maximum BY <1>5, <1>6, <1>8
  <1>11. LatestFits(sessions, step, start, end, maximum, latest) BY <1>5, <1>9, <1>10 DEF LatestFits
  <1> QED BY <1>11 DEF latest

LEMMA LatestIsFixed ==
  ASSUME NEW step \in Nat \ {0}, NEW start \in Int, NEW end \in Int, NEW maximum \in Nat \ {0},
         CandleCount(start, end, step, Absent) > maximum
  PROVE  LatestFits(Absent, step, start, end, maximum, LatestEnd(start, end, step, maximum, Absent))
  <1>1. PICK first \in Int, last \in Int : first = CeilDiv(start, step) /\ last = CeilDiv(end, step) BY Ceil
  <1>2. ~(end <= start) /\ last - first > maximum
    <2>1. end <= start => CandleCount(start, end, step, Absent) = 0 BY DEF CandleCount
    <2>2. ~(end <= start) => CandleCount(start, end, step, Absent) = last - first BY <1>1 DEF CandleCount
    <2> QED BY <2>1, <2>2
  <1>3. PICK m \in Int : m = first + maximum OBVIOUS
  <1>4. PICK fits \in Int : fits = m * step
    <2>1. m * step \in Int OBVIOUS
    <2> QED BY <2>1
  <1>5. LatestEnd(start, end, step, maximum, Absent) = Least(end, fits) BY <1>1, <1>3, <1>4 DEF LatestEnd
  <1>6. fits < end
    <2>1. m >= last <=> m * step >= end BY <1>1, Ceil
    <2> QED BY <1>2, <1>3, <1>4, <2>1
  <1>7. LatestEnd(start, end, step, maximum, Absent) = fits BY <1>5, <1>6 DEF Least
  <1>8. first * step \in Int /\ first * step >= start
    <2>1. first >= first <=> first * step >= start BY <1>1, Ceil
    <2> QED BY <2>1
  <1>9. first * step + step <= m * step BY <1>3, TimesOrder
  <1>10. start < fits BY <1>4, <1>8, <1>9
  <1>11. ASSUME NEW e \in Int, start < e PROVE CandleCount(start, e, step, Absent) > maximum <=> fits < e
    <2>1. PICK c \in Int : c = CeilDiv(e, step) BY Ceil
    <2>2. m >= c <=> m * step >= e BY <2>1, Ceil
    <2>3. CandleCount(start, e, step, Absent) = c - first
      <3>1. ~(e <= start) BY <1>11
      <3> QED BY <1>1, <2>1, <3>1, Zenon DEF CandleCount
    <2>4. c - first > maximum <=> ~(m >= c) BY <1>3
    <2> QED BY <1>4, <2>2, <2>3, <2>4
  <1>12. CandleCount(start, fits, step, Absent) <= maximum
    <2>1. PICK c \in Int : c = CeilDiv(fits, step) BY Ceil
    <2>2. m >= c <=> m * step >= fits BY <2>1, Ceil
    <2>3. CandleCount(start, fits, step, Absent) = c - first
      <3>1. ~(fits <= start) BY <1>10
      <3> QED BY <1>1, <2>1, <3>1, Zenon DEF CandleCount
    <2> QED BY <1>3, <1>4, <2>2, <2>3
  <1>13. \A e \in fits + 1..end : CandleCount(start, e, step, Absent) > maximum
    <2>1. TAKE e \in fits + 1..end
    <2>2. e \in Int /\ start < e /\ fits < e BY <1>10
    <2> QED BY <1>11, <2>2
  <1> QED BY <1>7, <1>10, <1>12, <1>13 DEF LatestFits

LEMMA LatestDoesFit ==
  ASSUME NEW sessions, Calendar(sessions), NEW step \in Nat \ {0},
         NEW start \in Int, NEW end \in Int, NEW maximum \in Nat \ {0},
         CandleCount(start, end, step, sessions) > maximum
  PROVE  LatestFits(sessions, step, start, end, maximum, LatestEnd(start, end, step, maximum, sessions))
  <1>1. CASE sessions = Absent BY <1>1, LatestIsFixed
  <1>2. CASE sessions # Absent
    <2>1. IsCalendar(sessions) BY <1>2 DEF Calendar
    <2> QED BY <1>2, <2>1, LatestIsIn
  <1> QED BY <1>1, <1>2


-----------------------------------------------------------------------------
\* What is counted of the calendar is what there is

\* Every candle of a period is closed a day after it.
LEMMA AllExpected ==
  ASSUME NEW sessions, Calendar(sessions), NEW step \in Timeframes, NEW start \in Int, NEW end \in Int
  PROVE  CandleCount(start, end, step, sessions)
           = Cardinality(ExpectedBins(start, end, step, sessions, end + Day))
  <1>1. step \in Nat \ {0} /\ step <= Day /\ Day \in Nat /\ end + Day \in Int BY Steps
  <1>2. ExpectedBins(start, end, step, sessions, end + Day)
          = {t \in Int : /\ IsBin(sessions, step, t) /\ start <= t /\ t < end
                         /\ BinEnd(t, step, sessions) <= end + Day}
    BY <1>1, ExpectedAre
  <1>3. ASSUME NEW t \in Int, IsBin(sessions, step, t), t < end
        PROVE  BinEnd(t, step, sessions) <= end + Day
    <2>1. CASE sessions = Absent
      <3>1. BinEnd(t, step, sessions) = t + step BY <2>1, BinFixed
      <3> QED BY <1>1, <1>3, <3>1
    <2>2. CASE sessions # Absent
      <3>1. PICK i \in DOMAIN sessions : In(sessions[i], t) BY <1>3, <2>2 DEF IsBin
      <3>2. IsCalendar(sessions) BY <2>2 DEF Calendar
      <3>3. BinEnd(t, step, sessions) = Least(t + step, sessions[i].close) BY <1>1, <2>2, <3>1, <3>2, BinIn
      <3>4. sessions[i].close \in Int BY <3>2, SessionType
      <3>5. Least(t + step, sessions[i].close) <= t + step BY <1>1, <3>4 DEF Least
      <3>6. t + step <= end + Day BY <1>1, <1>3
      <3> QED BY <1>1, <3>3, <3>4, <3>5, <3>6 DEF Least
    <2> QED BY <2>1, <2>2
  <1>4. ExpectedBins(start, end, step, sessions, end + Day) = BinsIn(sessions, step, start, end)
    BY <1>2, <1>3 DEF BinsIn
  <1> QED BY <1>1, <1>4, CountIs

\* The hint of a period that has too many candles.
LEMMA HintsFit ==
  ASSUME NEW sessions, Calendar(sessions), NEW step \in Timeframes, NEW start \in Int, NEW end \in Int,
         CandleCount(start, end, step, sessions) > CandlesMax
  PROVE  LET hint == Suggest(start, end, step, CandlesMax, sessions)
         IN  /\ LatestFits(sessions, step, start, end, CandlesMax, hint.end)
             /\ \A longer \in Timeframes : longer > step /\ CandleCount(start, end, longer, sessions) <= CandlesMax
                    => hint.timeframe # Absent /\ hint.timeframe <= longer
  <1> DEFINE fitting == {longer \in Timeframes :
                            longer > step /\ CandleCount(start, end, longer, sessions) <= CandlesMax}
             hint == Suggest(start, end, step, CandlesMax, sessions)
  <1>1. step \in Nat \ {0} /\ CandlesMax \in Nat \ {0} BY Steps, CandleServiceAssumption
  <1>2. /\ hint.end = LatestEnd(start, end, step, CandlesMax, sessions)
        /\ hint.timeframe = IF fitting = {} THEN Absent ELSE Min(fitting)
    BY DEF Suggest
  <1>3. LatestFits(sessions, step, start, end, CandlesMax, hint.end)
    BY <1>1, <1>2, LatestDoesFit
  <1>4. ASSUME NEW longer \in fitting PROVE hint.timeframe # Absent /\ hint.timeframe <= longer
    <2>1. fitting \in SUBSET Int /\ fitting # {} /\ \A x \in fitting : 1 <= x
      <3>1. \A x \in Timeframes : x \in Int /\ 1 <= x BY Steps
      <3>2. \A x \in fitting : x \in Timeframes OBVIOUS
      <3> HIDE DEF fitting
      <3> QED BY <1>4, <3>1, <3>2
    <2> HIDE DEF fitting
    <2>2. Min(fitting) \in fitting /\ \A y \in fitting : Min(fitting) <= y BY <2>1, LeastOf
    <2>3. Min(fitting) \in Int /\ Min(fitting) # Absent BY <2>1, <2>2, BinsAssumption
    <2> QED BY <1>2, <1>4, <2>1, <2>2, <2>3
  <1> QED BY <1>3, <1>4

\* Now is between the latest close and the next one.
LEMMA NowIsBetween ==
  ASSUME NEW sessions, Calendar(sessions), NEW now \in Int, DailyClose(now, sessions) # Absent,
         ~(sessions # Absent /\ \A s \in ToSet(sessions) : s.close + NextCloseFallback <= now)
  PROVE  now < NextClose(DailyClose(now, sessions), sessions)
  <1> DEFINE close == DailyClose(now, sessions)
  <1>1. CASE sessions = Absent
    <2>1. close = (now \div Day) * Day BY <1>1 DEF DailyClose
    <2>2. NextClose(close, sessions) = close + Day BY <1>1 DEF NextClose
    <2>3. now < (now \div Day) * Day + Day BY Floors, Steps
    <2> QED BY <2>1, <2>2, <2>3
  <1>2. CASE sessions # Absent
    <2>1. IsCalendar(sessions) BY <1>2 DEF Calendar
    <2>2. PICK n \in Nat : DOMAIN sessions = 1..n BY <2>1, SessionType
    <2> DEFINE ended == {i \in DOMAIN sessions : sessions[i].close <= now}
               following == {i \in DOMAIN sessions : sessions[i].close > close}
    <2>3. close = IF ended = {} THEN Absent ELSE sessions[Max(ended)].close BY <1>2 DEF DailyClose
    <2>4. ended # {} BY <2>3
    <2>5. ended \in SUBSET Int /\ n \in Int /\ \A i \in ended : i <= n BY <2>2
    <2>6. Max(ended) \in ended /\ \A i \in ended : i <= Max(ended) BY <2>4, <2>5, GreatestOf
    <2>7. PICK last \in DOMAIN sessions : last = Max(ended) BY <2>6
    <2>8. close = sessions[last].close /\ sessions[last].close <= now BY <2>3, <2>4, <2>6, <2>7
    <2>9. NextClose(close, sessions)
            = IF following = {} THEN close + NextCloseFallback ELSE sessions[Min(following)].close
      BY <1>2 DEF NextClose
    <2>10. \A i \in DOMAIN sessions : i <= last => sessions[i].close <= sessions[last].close
      <3>1. TAKE i \in DOMAIN sessions
      <3>2. HAVE i <= last
      <3>3. i \in Int /\ last \in Int /\ sessions[i].close \in Int /\ sessions[last].close \in Int
            /\ sessions[last].open \in Int /\ sessions[last].open < sessions[last].close
        BY <2>1, SessionType
      <3>4. i < last => sessions[i].close <= sessions[last].open BY <2>1, SessionsInTurn
      <3> QED BY <3>2, <3>3, <3>4
    <2>11. CASE following # {}
      <3>1. following \in SUBSET Int /\ 1 \in Int /\ \A i \in following : 1 <= i BY <2>2
      <3>2. Min(following) \in following BY <2>11, <3>1, LeastOf
      <3>3. PICK next \in DOMAIN sessions : next = Min(following) /\ sessions[next].close > close
        BY <3>2
      <3>4. next \in Int /\ last \in Int /\ sessions[next].close \in Int /\ sessions[last].close \in Int
        BY <2>1, SessionType
      <3>5. ~(next <= last) BY <2>8, <2>10, <3>3, <3>4
      <3>6. next \notin ended BY <2>6, <2>7, <3>5
      <3>7. now < sessions[next].close BY <3>4, <3>6
      <3> QED BY <2>9, <2>11, <3>3, <3>7
    <2>12. CASE following = {}
      <3>1. NextClose(close, sessions) = close + NextCloseFallback BY <2>9, <2>12
      <3>2. PICK s \in ToSet(sessions) : ~(s.close + NextCloseFallback <= now) BY <1>2
      <3>3. PICK i \in DOMAIN sessions : s = sessions[i] BY <2>1, <3>2, SessionType
      <3>4. sessions[i].close \in Int /\ sessions[last].close \in Int BY <2>1, SessionType
      <3>5. sessions[i].close <= close
        <4>1. ~(sessions[i].close > close) BY <2>12
        <4> QED BY <2>8, <3>4, <4>1
      <3>6. NextCloseFallback \in Int BY Steps DEF NextCloseFallback
      <3> QED BY <2>8, <3>1, <3>2, <3>3, <3>4, <3>5, <3>6
    <2> QED BY <2>11, <2>12
  <1> QED BY <1>1, <1>2

LEMMA ClosedBefore ==
  ASSUME NEW sessions, Calendar(sessions), NEW now \in Int, DailyClose(now, sessions) # Absent
  PROVE  DailyClose(now, sessions) <= now
  <1>1. CASE sessions = Absent
    <2>1. DailyClose(now, sessions) = (now \div Day) * Day BY <1>1 DEF DailyClose
    <2> QED BY <2>1, Floors, Steps
  <1>2. CASE sessions # Absent
    <2>1. IsCalendar(sessions) BY <1>2 DEF Calendar
    <2>2. PICK n \in Nat : DOMAIN sessions = 1..n BY <2>1, SessionType
    <2> DEFINE ended == {i \in DOMAIN sessions : sessions[i].close <= now}
    <2>3. DailyClose(now, sessions) = IF ended = {} THEN Absent ELSE sessions[Max(ended)].close
      BY <1>2 DEF DailyClose
    <2>4. ended # {} /\ ended \in SUBSET Int /\ n \in Int /\ \A i \in ended : i <= n BY <2>2, <2>3
    <2>5. Max(ended) \in ended BY <2>4, GreatestOf
    <2> QED BY <2>3, <2>4, <2>5
  <1> QED BY <1>1, <1>2

\* The newest minute is the last of the closed ones.
LEMMA NewestIs ==
  ASSUME NEW sessions, sessions # Absent, IsCalendar(sessions), NEW now \in Int,
         NEW k \in DOMAIN sessions, sessions[k].close <= now
  PROVE  NewestMinute(now, sessions) = Max(ExpectedBins(0, now, Min(Timeframes), sessions, now))
  <1>1. sessions[k].open \in Int /\ sessions[k].close \in Int /\ sessions[k].open < sessions[k].close
    BY SessionType
  <1>2. PICK before \in Int : before = now - 1 OBVIOUS
  <1>3. Begun(sessions, before) # Absent
    <2>1. PICK n \in Nat : DOMAIN sessions = 1..n BY SessionType
    <2> DEFINE begun == {j \in DOMAIN sessions : sessions[j].open <= before}
    <2>2. k \in begun BY <1>1, <1>2
    <2>3. begun \in SUBSET Int /\ n \in Int /\ \A j \in begun : j <= n BY <2>1
    <2>4. begun # {} BY <2>2
    <2> HIDE DEF begun
    <2>5. Max(begun) \in begun /\ \A j \in begun : j <= Max(begun) BY <2>3, <2>4, GreatestOf
    <2>6. LastBegun(sessions, before, Max(begun)) BY <2>5 DEF LastBegun, begun
    <2> QED BY <2>6, BegunIs
  <1>4. PICK i \in DOMAIN sessions : LastBegun(sessions, before, i) BY <1>2, <1>3, BegunSome
  <1>5. Begun(sessions, before) = sessions[i] BY <1>2, <1>4, BegunIs
  <1>6. sessions[i].open \in Int /\ sessions[i].close \in Int /\ sessions[i].open < sessions[i].close
        /\ sessions[i].open <= before /\ 0 <= sessions[i].open
    BY <1>4, SessionType DEF LastBegun
  <1>7. PICK minute \in Int : minute = Least(now, sessions[i].close) - 1
    <2>1. Least(now, sessions[i].close) \in Int BY <1>6 DEF Least
    <2> QED BY <2>1
  <1>8. NewestMinute(now, sessions) = minute BY <1>2, <1>3, <1>5, <1>7 DEF NewestMinute
  <1>9. sessions[i].open <= minute /\ minute < sessions[i].close /\ minute < now
        /\ (minute = now - 1 \/ minute = sessions[i].close - 1)
    BY <1>2, <1>6, <1>7 DEF Least
  <1> DEFINE closed == ExpectedBins(0, now, Min(Timeframes), sessions, now)
  <1>10. closed = {t \in Int : /\ IsBin(sessions, 1, t) /\ 0 <= t /\ t < now
                               /\ BinEnd(t, 1, sessions) <= now}
    <2>1. Calendar(sessions) /\ 1 \in Nat \ {0} /\ 0 \in Int /\ Min(Timeframes) = 1 BY Steps DEF Calendar
    <2> QED BY <2>1, ExpectedAre
  <1>11. minute \in closed
    <2>1. In(sessions[i], minute) BY <1>9 DEF In
    <2>2. IsBin(sessions, 1, minute) BY <2>1, BaseBins
    <2>3. BinEnd(minute, 1, sessions) = minute + 1 BY <2>2, BaseBins
    <2> QED BY <1>6, <1>9, <1>10, <2>2, <2>3
  <1>12. ASSUME NEW t \in closed PROVE t <= minute
    <2>1. t \in Int /\ IsBin(sessions, 1, t) /\ t < now BY <1>10
    <2>2. PICK j \in DOMAIN sessions : In(sessions[j], t) BY <2>1, BaseBins
    <2>3. sessions[j].open \in Int /\ sessions[j].close \in Int /\ j \in Int /\ i \in Int BY SessionType
    <2>4. sessions[j].open <= t /\ t < sessions[j].close BY <2>2 DEF In
    <2>5. j <= i BY <1>2, <1>4, <2>1, <2>3, <2>4 DEF LastBegun
    <2>6. CASE j = i BY <1>6, <1>9, <2>1, <2>3, <2>4, <2>6
    <2>7. CASE j < i
      <3>1. sessions[j].close <= sessions[i].open BY <2>7, SessionsInTurn
      <3> QED BY <1>6, <1>9, <2>1, <2>3, <2>4, <3>1
    <2> QED BY <2>3, <2>5, <2>6, <2>7
  <1>13. closed \in SUBSET Int BY <1>10
  <1> HIDE DEF closed
  <1>14. Max(closed) = minute BY <1>11, <1>12, <1>13, GreatestIs
  <1> QED BY <1>8, <1>14 DEF closed

\* The clock starts when the market opens and goes on.
Opened == market \in Markets /\ clock \in Int /\ market.opens <= clock

LEMMA StaysOpened == ServiceSpec => []Opened
  <1>1. ServiceInit => Opened
    <2>1. SUFFICES ASSUME ServiceInit PROVE Opened OBVIOUS
    <2>2. Market(market) /\ clock = market.opens /\ market \in Markets BY <2>1, MarketsAreGood DEF ServiceInit
    <2>3. market.opens \in Int BY <2>2, CandleServiceAssumption DEF Market
    <2> QED BY <2>2, <2>3 DEF Opened
  <1>2. Opened /\ [ServiceNext]_service => Opened'
    <2>1. SUFFICES ASSUME Opened, [ServiceNext]_service PROVE Opened' OBVIOUS
    <2>2. market.opens \in Int
      <3>1. Market(market) BY <2>1, MarketsAreGood DEF Opened
      <3> QED BY <3>1, CandleServiceAssumption DEF Market
    <2>3. UNCHANGED <<market, clock>> \/ (UNCHANGED market /\ clock' = clock + 1)
      BY <2>1 DEF ServiceNext, service, Tick, Lose, Ask, LookUp, Refuse, Load, CountLast, Read, Fail, Assemble
    <2> QED BY <2>1, <2>2, <2>3 DEF Opened
  <1> QED BY <1>1, <1>2, PTL DEF ServiceSpec

LEMMA CalendarsAgree == Opened => CalendarAgrees
  <1> SUFFICES ASSUME Opened PROVE CalendarAgrees OBVIOUS
  <1>1. market \in Markets /\ Market(market) BY MarketsAreGood DEF Opened
  <1>2. Calendar(market.sessions) BY <1>1 DEF Market
  <1>3. ASSUME NEW ask \in Asks(market), ~ask.last, ask.end # Absent
        PROVE  ask.step \in Timeframes /\ ask.start \in Int /\ ask.end \in Int
    BY <1>1, <1>3, CandleServiceAssumption
  <1>4. ASSUME NEW ask \in {a \in Asks(market) : ~a.last /\ a.end # Absent}
        PROVE  CandleCount(ask.start, ask.end, ask.step, market.sessions)
                 = Cardinality(ExpectedBins(ask.start, ask.end, ask.step, market.sessions, ask.end + Day))
    <2>1. ask.step \in Timeframes /\ ask.start \in Int /\ ask.end \in Int BY <1>3
    <2> QED BY <1>2, <2>1, AllExpected
  <1>5. ASSUME NEW ask \in {a \in Asks(market) : ~a.last /\ a.end # Absent},
               CandleCount(ask.start, ask.end, ask.step, market.sessions) > CandlesMax
        PROVE  LET Count(end, step) == CandleCount(ask.start, end, step, market.sessions)
                   hint == Suggest(ask.start, ask.end, ask.step, CandlesMax, market.sessions)
               IN  /\ ask.start < hint.end /\ Count(hint.end, ask.step) <= CandlesMax
                   /\ \A e \in hint.end + 1..ask.end : Count(e, ask.step) > CandlesMax
                   /\ \A step \in Timeframes : step > ask.step =>
                          (Count(ask.end, step) <= CandlesMax
                              => hint.timeframe # Absent /\ hint.timeframe <= step)
    <2>1. ask.step \in Timeframes /\ ask.start \in Int /\ ask.end \in Int BY <1>3
    <2> DEFINE hint == Suggest(ask.start, ask.end, ask.step, CandlesMax, market.sessions)
    <2>2. /\ LatestFits(market.sessions, ask.step, ask.start, ask.end, CandlesMax, hint.end)
          /\ \A longer \in Timeframes :
                 longer > ask.step /\ CandleCount(ask.start, ask.end, longer, market.sessions) <= CandlesMax
                    => hint.timeframe # Absent /\ hint.timeframe <= longer
      BY <1>2, <1>5, <2>1, HintsFit
    <2> QED BY <2>2 DEF LatestFits
  <1>6. ASSUME DailyClose(clock, market.sessions) # Absent
        PROVE  /\ DailyClose(clock, market.sessions) <= clock
               /\ CalendarOver \/ clock < NextClose(DailyClose(clock, market.sessions), market.sessions)
    <2>1. clock \in Int BY DEF Opened
    <2> QED BY <1>2, <1>6, <2>1, ClosedBefore, NowIsBetween DEF CalendarOver
  <1>7. ASSUME market.sessions # Absent, NEW k \in DOMAIN market.sessions,
               market.sessions[k].close <= market.opens
        PROVE  NewestMinute(clock, market.sessions)
                 = Max(ExpectedBins(0, clock, Min(Timeframes), market.sessions, clock))
    <2>1. IsCalendar(market.sessions) BY <1>2, <1>7 DEF Calendar
    <2>2. market.sessions[k].close \in Int BY <2>1, SessionType
    <2>3. clock \in Int /\ market.opens <= clock /\ market.opens \in Int
      BY <1>1, CandleServiceAssumption DEF Opened, Market
    <2>4. market.sessions[k].close <= clock BY <1>7, <2>2, <2>3
    <2> QED BY <1>7, <2>1, <2>3, <2>4, NewestIs
  <1> QED BY <1>4, <1>5, <1>6, <1>7 DEF CalendarAgrees

\* What is planned and counted of a market's schedule agrees with it.
THEOREM ChunksStayFitting == ServiceSpec => []ChunksFitTheCalendar
  BY PlansStayCovering, StaysOpened, CalendarsAgree, PTL DEF ChunksFitTheCalendar

=============================================================================
