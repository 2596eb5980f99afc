--------------------------- MODULE Candles_proofs ---------------------------
(***************************************************************************)
(* Candles on both ends of their way.                                      *)
(*                                                                         *)
(* What counting lets through to a source, for any budget, share, weight   *)
(* and number of chart requests.  The inductive invariant: a counter holds *)
(* at least the cost it let through since it began, which is what makes    *)
(* one command of Redis enough; and one that began again outlasts the      *)
(* hits of its window, so it does so only once.                            *)
(*                                                                         *)
(* What comes of the symbols of a refresh, for any stocks, batch sizes and *)
(* attempts.  The inductive invariant: the batches that have no outcome    *)
(* yet and the three outcomes make up the symbols, each once; a part that  *)
(* was rejected holds a bad symbol; and the pairs of a source that serves  *)
(* them one at a time are each a batch of their own.                       *)
(*                                                                         *)
(* The bars of the chart (Chart), for any history, page sizes and number   *)
(* of pages.  The inductive invariant: the older pages hang below each     *)
(* other from the anchor on, what is shown reaches from the anchor to the  *)
(* end of a latest page, and as a later latest page begins no earlier, the *)
(* one being shown begins above the anchor.                                *)
(***************************************************************************)
EXTENDS SourceRequests, CandleHistory, SequenceTheorems, TLAPS

Counters ==
    /\ used \in [Keys -> [Windows -> Nat]]
    /\ admitted \in [Keys -> [Windows -> Nat]]
    /\ renewed \subseteq Keys
    /\ read \in [Callers -> Reads]

\* What a counter that expired let through before.
Forgotten(k, w) == IF w = "before" /\ k \in expired THEN LimitOf(k) ELSE 0

CountedFor ==
    \A k \in Keys : LimitOf(k) > 0 =>
        /\ \A w \in Windows : /\ admitted[k][w] <= Forgotten(k, w) + used[k][w]
                               /\ admitted[k][w] <= Forgotten(k, w) + LimitOf(k)
        /\ k \in expired /\ used[k]["before"] > 0 => k \in renewed

BudgetInv == Counters /\ CountedFor

LEMMA Limits == ASSUME NEW k \in Keys PROVE LimitOf(k) \in Nat
  BY SourceRequestsAssumption DEF LimitOf, Keys

\* The counters after a counter was raised by a cost.
Raised(new, counts, k, w, cost, most) ==
    /\ new \in [Keys -> [Windows -> Nat]]
    /\ \A l \in Keys, v \in Windows : <<l, v>> # <<k, w>> => new[l][v] = counts[l][v]
    /\ counts[k][w] + cost <= most => new[k][w] = counts[k][w] + cost
    /\ counts[k][w] + cost > most => new[k][w] = most + 1

\* A counter is a natural number, whatever it is raised by.
LEMMA PlusType ==
  ASSUME NEW counts \in [Keys -> [Windows -> Nat]], NEW k \in Keys, NEW w \in Windows,
         NEW cost \in Nat, NEW most \in Nat
  PROVE  Raised(Plus(counts, k, w, cost, most), counts, k, w, cost, most)
  <1> DEFINE sum == counts[k][w] + cost
             new == IF sum > most THEN most + 1 ELSE sum
  <1>2. sum \in Nat /\ new \in Nat OBVIOUS
  <1>3. Plus(counts, k, w, cost, most) = [counts EXCEPT ![k][w] = new] BY DEF Plus
  <1> HIDE DEF new, sum
  <1>4. [counts[k] EXCEPT ![w] = new] \in [Windows -> Nat] BY <1>2
  <1>5. Plus(counts, k, w, cost, most) \in [Keys -> [Windows -> Nat]] BY <1>3, <1>4
  <1>6. Plus(counts, k, w, cost, most)[k][w] = new BY <1>3
  <1>7. \A l \in Keys, v \in Windows : <<l, v>> # <<k, w>> =>
          Plus(counts, k, w, cost, most)[l][v] = counts[l][v]
    BY <1>3
  <1> QED BY <1>2, <1>5, <1>6, <1>7 DEF new, sum, Raised

\* A hit that passes changes no counter, and leaves its clock unread.
LEMMA PassesFrame ==
  ASSUME Counters, NEW c \in Callers, Passes(c)
  PROVE  read' \in [Callers -> Reads]
  BY DEF Counters, Passes, Request, Send, Ends, Goto, Reads

LEMMA WaitsFrame ==
  ASSUME Counters, NEW c \in Callers, Waits(c)
  PROVE  read' \in [Callers -> Reads]
  BY DEF Counters, Waits, Ends, Reads

\* The other counters of a step that counts a hit of k in window w.
OthersStay(k, w) ==
    /\ \A l \in Keys, v \in Windows : <<l, v>> # <<k, w>> =>
           used'[l][v] = used[l][v] /\ admitted'[l][v] = admitted[l][v]
    /\ renewed \subseteq renewed' /\ (w = "before" => k \in renewed') /\ expired' = expired

LEMMA OneIsCounted ==
  ASSUME BudgetInv, Counters', NEW k \in Keys, NEW w \in Windows, OthersStay(k, w),
         LimitOf(k) > 0 => /\ admitted'[k][w] <= Forgotten(k, w) + used'[k][w]
                           /\ admitted'[k][w] <= Forgotten(k, w) + LimitOf(k)
  PROVE  BudgetInv'
  <1>1. \A l \in Keys, v \in Windows : LimitOf(l)' = LimitOf(l) /\ Forgotten(l, v)' = Forgotten(l, v)
    BY DEF OthersStay, Forgotten, LimitOf
  <1>2. \A l \in Keys : l \in expired' /\ LimitOf(l) > 0 /\ used'[l]["before"] > 0 => l \in renewed'
    BY DEF OthersStay, BudgetInv, CountedFor, Windows
  <1>3. CountedFor
    BY DEF BudgetInv
  <1>4. ASSUME NEW l \in Keys, NEW v \in Windows, LimitOf(l) > 0
        PROVE  /\ admitted'[l][v] <= Forgotten(l, v) + used'[l][v]
               /\ admitted'[l][v] <= Forgotten(l, v) + LimitOf(l)
    BY <1>3, <1>4 DEF CountedFor, OthersStay
  <1> QED BY <1>1, <1>2, <1>4 DEF CountedFor, BudgetInv

\* A hit within the limit adds as much to what passed as to the counter, or less.
LEMMA CountKeepsBudget ==
  ASSUME BudgetInv, NEW c \in Callers, Count(c) PROVE BudgetInv'
  <1> DEFINE k == KeyOf(c)
             w == read[c]
  <1>1. k \in Keys /\ w \in Windows BY DEF BudgetInv, Counters, Count, Hitting, KeyOf, Keys, Reads
  <1>2. PICK times \in 1 .. 2 :
          /\ Incr(k, w, times * Weight)
          /\ IF Within(k, w, times * Weight)
               THEN Passes(c) /\ admitted' = Plus(admitted, k, w, Weight, 2 * LimitOf(k))
               ELSE Waits(c) /\ UNCHANGED admitted
    BY DEF Count
  <1> DEFINE cost == times * Weight
  <1>3. cost \in Nat /\ Weight \in Nat /\ Weight <= cost
    <2>1. CASE times = 1 BY <2>1, SourceRequestsAssumption
    <2>2. CASE times = 2 BY <2>2, SourceRequestsAssumption
    <2> QED BY <2>1, <2>2
  <1>4. /\ used' = Plus(used, k, w, cost, LimitOf(k))
        /\ renewed' = IF w = "before" THEN renewed \cup {k} ELSE renewed
        /\ expired' = expired
    BY <1>2 DEF Incr, Count
  <1>5. Counters /\ CountedFor BY DEF BudgetInv
  <1>6. /\ used \in [Keys -> [Windows -> Nat]] /\ admitted \in [Keys -> [Windows -> Nat]]
        /\ renewed \subseteq Keys
    BY <1>5 DEF Counters
  <1>7. LimitOf(k) \in Nat /\ 2 * LimitOf(k) \in Nat BY <1>1, Limits
  <1>8. used[k][w] \in Nat /\ admitted[k][w] \in Nat BY <1>1, <1>6
  <1>12. Forgotten(k, w) \in {0, LimitOf(k)} BY DEF Forgotten
  <1>13. LimitOf(k) > 0 => /\ admitted[k][w] <= Forgotten(k, w) + used[k][w]
                           /\ admitted[k][w] <= Forgotten(k, w) + LimitOf(k)
    BY <1>1, <1>5 DEF CountedFor
  <1>14. renewed' \subseteq Keys /\ renewed \subseteq renewed' /\ (w = "before" => k \in renewed')
    BY <1>1, <1>4, <1>6
  <1> HIDE DEF k, w, cost
  <1>9. /\ used' \in [Keys -> [Windows -> Nat]]
        /\ \A l \in Keys, v \in Windows : <<l, v>> # <<k, w>> => used'[l][v] = used[l][v]
        /\ used[k][w] + cost <= LimitOf(k) => used'[k][w] = used[k][w] + cost
        /\ used[k][w] + cost > LimitOf(k) => used'[k][w] = LimitOf(k) + 1
    <2>1. Raised(Plus(used, k, w, cost, LimitOf(k)), used, k, w, cost, LimitOf(k))
      BY <1>1, <1>3, <1>6, <1>7, PlusType
    <2> QED BY <2>1, <1>4 DEF Raised
  <1>10. CASE used[k][w] + cost <= LimitOf(k)
    <2>1. Passes(c) /\ admitted' = Plus(admitted, k, w, Weight, 2 * LimitOf(k))
      BY <1>2, <1>10 DEF Within, cost
    <2>2. /\ admitted' \in [Keys -> [Windows -> Nat]]
          /\ \A l \in Keys, v \in Windows : <<l, v>> # <<k, w>> => admitted'[l][v] = admitted[l][v]
          /\ admitted[k][w] + Weight <= 2 * LimitOf(k) => admitted'[k][w] = admitted[k][w] + Weight
      <3>1. Raised(Plus(admitted, k, w, Weight, 2 * LimitOf(k)), admitted, k, w, Weight, 2 * LimitOf(k))
        BY <1>1, <1>3, <1>6, <1>7, PlusType
      <3> QED BY <3>1, <2>1 DEF Raised
    <2>3. Counters' BY <1>5, <1>9, <1>14, <2>1, <2>2, PassesFrame DEF Counters
    <2>4. LimitOf(k) > 0 => /\ admitted'[k][w] <= Forgotten(k, w) + used'[k][w]
                            /\ admitted'[k][w] <= Forgotten(k, w) + LimitOf(k)
      BY <1>3, <1>7, <1>8, <1>9, <1>10, <1>12, <1>13, <2>2
    <2>5. OthersStay(k, w) BY <1>4, <1>9, <1>14, <2>2 DEF OthersStay
    <2> QED BY <1>1, <2>3, <2>4, <2>5, OneIsCounted
  <1>11. CASE ~(used[k][w] + cost <= LimitOf(k))
    <2>1. Waits(c) /\ admitted' = admitted BY <1>2, <1>11 DEF Within, cost
    <2>2. Counters' BY <1>5, <1>6, <1>9, <1>14, <2>1, WaitsFrame DEF Counters
    <2>3. LimitOf(k) > 0 => /\ admitted'[k][w] <= Forgotten(k, w) + used'[k][w]
                            /\ admitted'[k][w] <= Forgotten(k, w) + LimitOf(k)
      BY <1>3, <1>7, <1>8, <1>9, <1>11, <1>12, <1>13, <2>1
    <2>4. OthersStay(k, w) BY <1>4, <1>9, <1>14, <2>1 DEF OthersStay
    <2> QED BY <1>1, <2>2, <2>3, <2>4, OneIsCounted
  <1> QED BY <1>10, <1>11

\* A hit Redis failed on is counted or not, and passes uncounted.
LEMMA HitFailsKeepsBudget ==
  ASSUME BudgetInv, NEW c \in Callers, HitFails(c) PROVE BudgetInv'
  <1> DEFINE k == KeyOf(c)
             w == read[c]
  <1>1. k \in Keys /\ w \in Windows
    BY DEF BudgetInv, Counters, HitFails, Hitting, KeyOf, Keys, Reads
  <1>2. /\ Incr(k, w, Weight) \/ UNCHANGED <<used, renewed>>
        /\ admitted' = admitted /\ expired' = expired /\ Passes(c)
    BY DEF HitFails
  <1>3. Counters /\ CountedFor BY DEF BudgetInv
  <1>4. /\ used \in [Keys -> [Windows -> Nat]] /\ admitted \in [Keys -> [Windows -> Nat]]
        /\ Weight \in Nat /\ renewed \subseteq Keys
    BY <1>3, SourceRequestsAssumption DEF Counters
  <1>5. LimitOf(k) \in Nat /\ used[k][w] \in Nat /\ admitted[k][w] \in Nat BY <1>1, <1>4, Limits
  <1>8. LimitOf(k) > 0 => /\ admitted[k][w] <= Forgotten(k, w) + used[k][w]
                          /\ admitted[k][w] <= Forgotten(k, w) + LimitOf(k)
    BY <1>1, <1>3 DEF CountedFor
  <1>9. Forgotten(k, w) \in {0, LimitOf(k)} BY DEF Forgotten
  <1> HIDE DEF k, w
  <1>10. CASE UNCHANGED <<used, renewed>>
    <2>1. Counters' BY <1>2, <1>3, <1>10, PassesFrame DEF Counters
    <2>2. CountedFor' BY <1>2, <1>3, <1>10 DEF CountedFor, Forgotten, LimitOf
    <2> QED BY <2>1, <2>2 DEF BudgetInv
  <1>11. CASE Incr(k, w, Weight)
    <2>1. /\ used' = Plus(used, k, w, Weight, LimitOf(k))
          /\ renewed' \subseteq Keys /\ renewed \subseteq renewed' /\ (w = "before" => k \in renewed')
      BY <1>1, <1>4, <1>11 DEF Incr
    <2>2. Raised(Plus(used, k, w, Weight, LimitOf(k)), used, k, w, Weight, LimitOf(k))
      BY <1>1, <1>4, <1>5, PlusType
    <2>3. /\ used' \in [Keys -> [Windows -> Nat]]
          /\ \A l \in Keys, v \in Windows : <<l, v>> # <<k, w>> => used'[l][v] = used[l][v]
          /\ used'[k][w] \in {used[k][w] + Weight, LimitOf(k) + 1}
      BY <1>4, <1>5, <2>1, <2>2 DEF Raised
    <2>4. Counters' BY <1>2, <1>3, <2>1, <2>3, PassesFrame DEF Counters
    <2>5. LimitOf(k) > 0 => /\ admitted'[k][w] <= Forgotten(k, w) + used'[k][w]
                            /\ admitted'[k][w] <= Forgotten(k, w) + LimitOf(k)
      BY <1>2, <1>4, <1>5, <1>8, <1>9, <2>3
    <2>6. OthersStay(k, w) BY <1>2, <2>1, <2>3 DEF OthersStay
    <2> QED BY <1>1, <2>4, <2>5, <2>6, OneIsCounted
  <1> QED BY <1>2, <1>10, <1>11

\* The counters of the window before are kept whole or not at all.
LEMMA WindowTurnsKeepsBudget ==
  ASSUME BudgetInv, WindowTurns PROVE BudgetInv'
  <1>1. used' = Turned(used) /\ admitted' = Turned(admitted) /\ renewed' = {} /\ expired' = {}
    BY DEF WindowTurns
  <1>2. Counters /\ CountedFor BY DEF BudgetInv
  <1>3. \A l \in Keys : /\ used'[l]["now"] = 0 /\ admitted'[l]["now"] = 0
                        /\ \/ used'[l]["before"] = used[l]["now"] /\ admitted'[l]["before"] = admitted[l]["now"]
                           \/ used'[l]["before"] = 0 /\ admitted'[l]["before"] = 0
    BY <1>1 DEF Turned
  <1>4. used' \in [Keys -> [Windows -> Nat]] /\ admitted' \in [Keys -> [Windows -> Nat]]
    BY <1>1, <1>2 DEF Turned, Counters, Windows
  <1>5. read' \in [Callers -> Reads] BY <1>2 DEF WindowTurns, Reads, Windows
  <1>6. \A l \in Keys : LimitOf(l) \in Nat BY Limits
  <1>8. \A l \in Keys, w \in Windows : Forgotten(l, w)' = 0 BY <1>1 DEF Forgotten
  <1>9. \A l \in Keys : LimitOf(l) > 0 => /\ admitted[l]["now"] <= used[l]["now"]
                                         /\ admitted[l]["now"] <= LimitOf(l)
    BY <1>2, <1>4, <1>6 DEF CountedFor, Windows, Forgotten, Counters
  <1>7. CountedFor' BY <1>1, <1>3, <1>4, <1>6, <1>8, <1>9 DEF CountedFor, Windows, LimitOf
  <1> QED BY <1>1, <1>4, <1>5, <1>7 DEF BudgetInv, Counters

\* A counter that expires did not expire before, and begins from 0.
LEMMA CounterExpiresKeepsBudget ==
  ASSUME BudgetInv, NEW k \in Keys, CounterExpires(k) PROVE BudgetInv'
  <1>1. /\ used[k]["before"] > 0 /\ k \notin renewed /\ expired' = expired \cup {k}
        /\ used' = [used EXCEPT ![k]["before"] = 0]
        /\ UNCHANGED <<read, renewed, admitted>>
    BY DEF CounterExpires, callers
  <1>2. Counters /\ CountedFor BY DEF BudgetInv
  <1>3. /\ used' \in [Keys -> [Windows -> Nat]] /\ used'[k]["before"] = 0
        /\ \A l \in Keys, w \in Windows : <<l, w>> # <<k, "before">> => used'[l][w] = used[l][w]
    BY <1>1, <1>2 DEF Counters, Windows
  <1>4. Counters' BY <1>1, <1>2, <1>3 DEF Counters
  <1>5. \A l \in Keys : LimitOf(l)' = LimitOf(l) /\ LimitOf(l) \in Nat BY Limits DEF LimitOf
  <1>6. ASSUME NEW l \in Keys, LimitOf(l) > 0, NEW w \in Windows
        PROVE  /\ admitted[l][w] <= Forgotten(l, w)' + used'[l][w]
               /\ admitted[l][w] <= Forgotten(l, w)' + LimitOf(l)
    <2>1. CASE l = k /\ w = "before"
      <3>1. Forgotten(l, w) = 0 BY <1>1, <1>2, <1>6, <2>1 DEF CountedFor, Forgotten
      <3>2. Forgotten(l, w)' = LimitOf(l) BY <1>1, <1>5, <2>1 DEF Forgotten
      <3>3. admitted[l][w] <= LimitOf(l) /\ admitted[l][w] \in Nat
        BY <1>2, <1>5, <1>6, <3>1 DEF CountedFor, Counters
      <3> QED BY <1>3, <1>5, <2>1, <3>2, <3>3
    <2>2. CASE ~(l = k /\ w = "before")
      <3>1. Forgotten(l, w)' = Forgotten(l, w) BY <1>1, <1>5, <2>2 DEF Forgotten
      <3> QED BY <1>2, <1>3, <1>6, <2>2, <3>1 DEF CountedFor
    <2> QED BY <2>1, <2>2
  <1>7. \A l \in Keys : LimitOf(l) > 0 /\ l \in expired' /\ used'[l]["before"] > 0 => l \in renewed'
    BY <1>1, <1>2, <1>3 DEF CountedFor, Windows
  <1>8. CountedFor' BY <1>1, <1>5, <1>6, <1>7 DEF CountedFor
  <1> QED BY <1>4, <1>8 DEF BudgetInv

\* Every other step leaves the counters alone.
LEMMA StepKeepsBudget == BudgetInv /\ [Next]_vars => BudgetInv'
  <1> SUFFICES ASSUME BudgetInv, [Next]_vars PROVE BudgetInv' OBVIOUS
  <1>1. ASSUME UNCHANGED counters, read' \in [Callers -> Reads] PROVE BudgetInv'
    BY <1>1 DEF BudgetInv, Counters, CountedFor, Forgotten, LimitOf, counters
  <1>2. Counters BY DEF BudgetInv
  <1>3. ASSUME NEW c \in Callers, Step(c) PROVE BudgetInv'
    <2>1. CASE Begin(c) BY <1>1, <1>2, <2>1 DEF Begin, Request, Ends, Goto, Counters, Reads
    <2>2. CASE ReadClock(c) BY <1>1, <1>2, <2>2 DEF ReadClock, Counters, Reads, Windows
    <2>3. CASE HitUncounted(c) BY <1>1, <1>2, <2>3, PassesFrame DEF HitUncounted
    <2>4. CASE Count(c) BY <2>4, CountKeepsBudget
    <2>5. CASE HitFails(c) BY <2>5, HitFailsKeepsBudget
    <2>6. CASE Woken(c) BY <1>1, <1>2, <2>6 DEF Woken, Goto, Counters, Reads
    <2>7. CASE Resent(c) BY <1>1, <1>2, <2>7 DEF Resent, Counters
    <2>8. CASE BackedOff(c) BY <1>1, <1>2, <2>8 DEF BackedOff, Counters
    <2>9. CASE Answered(c) BY <1>1, <1>2, <2>9 DEF Answered, Ends, NextPage, Counters, Reads
    <2> QED BY <1>3, <2>1, <2>2, <2>3, <2>4, <2>5, <2>6, <2>7, <2>8, <2>9 DEF Step
  <1>4. CASE Rounds
    <2>1. UNCHANGED counters /\ (UNCHANGED read \/ read' = [read EXCEPT !["refresh"] = "unread"])
      BY <1>4 DEF Rounds, Ask, GiveUp, AskAgain, Narrowing, Narrow, Finish, Turns, Goto, callers
    <2> QED BY <1>1, <1>2, <2>1 DEF Counters, Reads
  <1>5. CASE WindowTurns BY <1>5, WindowTurnsKeepsBudget
  <1>6. CASE RedisAsked BY <1>1, <1>2, <1>6 DEF RedisAsked, callers, Counters
  <1>7. CASE PauseOver BY <1>1, <1>2, <1>7 DEF PauseOver, callers, Counters
  <1>8. CASE UNCHANGED vars BY <1>1, <1>2, <1>8 DEF vars, counters, Counters
  <1>9. ASSUME NEW k \in Keys, CounterExpires(k) PROVE BudgetInv' BY <1>9, CounterExpiresKeepsBudget
  <1> QED BY <1>3, <1>4, <1>5, <1>6, <1>7, <1>8, <1>9 DEF Next, Goes

\* No window lets through more than its limit, whoever hits at once and whichever
\* window a hit counts in; one whose counter expired before its last hits at most twice
\* that (RateLimiter.hit).
THEOREM BudgetsHold == Spec => []WithinBudget
  <1>1. Init => BudgetInv
    BY Limits DEF Init, BudgetInv, Counters, CountedFor, Forgotten, Reads
  <1>2. BudgetInv => WithinBudget
    <2>1. \A k \in Keys : LimitOf(k) \in Nat BY Limits
    <2> QED BY <2>1 DEF BudgetInv, CountedFor, Forgotten, Windows, WithinBudget, Counters
  <1> QED BY <1>1, <1>2, StepKeepsBudget, PTL DEF Spec

-----------------------------------------------------------------------------
(***************************************************************************)
(* The stocks of a refresh.                                                *)
(***************************************************************************)
Batch == Seq(Symbols)
Parts == [batch : Batch, rejected : BOOLEAN]

\* A batch asks for a symbol once; a pair is a batch of its own.
Fits(b) == IsInjective(b) /\ (source = "binance" => Len(b) <= 1)

\* The batches in left and what came of the others make up the symbols, each once.
AddUp(left, answered, refused, unanswered) ==
    /\ left \in Seq(Batch)
    /\ answered \subseteq Symbols /\ refused \subseteq Symbols /\ unanswered \subseteq Symbols
    /\ \A i \in 1 .. Len(left) : Fits(left[i])
    /\ \A i, j \in 1 .. Len(left) : i # j => ToSet(left[i]) \cap ToSet(left[j]) = {}
    /\ \A s \in Symbols :
           s \in Sequences(left) \/ s \in answered \/ s \in refused \/ s \in unanswered
    /\ \A s \in Sequences(left) : s \notin answered /\ s \notin refused /\ s \notin unanswered
    /\ answered \cap refused = {} /\ answered \cap unanswered = {} /\ refused \cap unanswered = {}

LEMMA InSequences ==
  ASSUME NEW left \in Seq(Batch), NEW s
  PROVE  s \in Sequences(left) <=> \E i \in 1 .. Len(left) : s \in ToSet(left[i])
  BY DEF Sequences

LEMMA SetOf ==
  ASSUME NEW b \in Batch, NEW s
  PROVE  /\ s \in ToSet(b) <=> \E k \in 1 .. Len(b) : s = b[k]
         /\ s \in ToSet(b) => s \in Symbols
  BY DEF ToSet, Batch

\* A batch at the head leaves.
LEMMA HeadLeaves ==
  ASSUME NEW left \in Seq(Batch), left # <<>>
  PROVE  /\ Tail(left) \in Seq(Batch) /\ Len(Tail(left)) = Len(left) - 1
         /\ \A i \in 1 .. Len(left) - 1 : Tail(left)[i] = left[i + 1]
         /\ Head(left) = left[1] /\ Head(left) \in Batch /\ Len(left) >= 1
  OBVIOUS

LEMMA HeadEnds ==
  ASSUME NEW left, left # <<>>, NEW answered, NEW refused, NEW unanswered,
         AddUp(left, answered, refused, unanswered), NEW t, t = Tail(left), NEW new, new = ToSet(Head(left))
  PROVE  /\ AddUp(t, answered \cup new, refused, unanswered)
         /\ AddUp(t, answered, refused \cup new, unanswered)
         /\ AddUp(t, answered, refused, unanswered \cup new)
  <1>1. left \in Seq(Batch) /\ Len(left) \in Nat BY DEF AddUp
  <1>2. /\ t \in Seq(Batch) /\ Len(t) = Len(left) - 1 /\ Len(left) >= 1
        /\ \A i \in 1 .. Len(left) - 1 : t[i] = left[i + 1]
        /\ new = ToSet(left[1]) /\ Head(left) \in Batch
    BY <1>1, HeadLeaves
  <1>3. new \subseteq Symbols BY <1>2, SetOf
  <1>4. \A i \in 1 .. Len(t) : Fits(t[i]) BY <1>1, <1>2 DEF AddUp
  <1>5. \A i, j \in 1 .. Len(t) : i # j => ToSet(t[i]) \cap ToSet(t[j]) = {}
    <2> TAKE i, j \in 1 .. Len(t)
    <2>1. i + 1 \in 1 .. Len(left) /\ j + 1 \in 1 .. Len(left) /\ (i # j => i + 1 # j + 1)
          /\ t[i] = left[i + 1] /\ t[j] = left[j + 1]
      BY <1>1, <1>2
    <2> QED BY <2>1 DEF AddUp
  <1>6. \A s : s \in Sequences(left) <=> s \in new \/ s \in Sequences(t)
    <2> TAKE s
    <2>1. s \in Sequences(left) <=> \E i \in 1 .. Len(left) : s \in ToSet(left[i]) BY <1>1, InSequences
    <2>2. s \in Sequences(t) <=> \E i \in 1 .. Len(t) : s \in ToSet(t[i]) BY <1>2, InSequences
    <2>3. \A i \in 1 .. Len(left) : i = 1 \/ (i - 1 \in 1 .. Len(t) /\ t[i - 1] = left[i])
      BY <1>1, <1>2
    <2>4. \A i \in 1 .. Len(t) : i + 1 \in 1 .. Len(left) /\ t[i] = left[i + 1] BY <1>1, <1>2
    <2>5. 1 \in 1 .. Len(left) BY <1>1, <1>2
    <2> QED BY <1>2, <2>1, <2>2, <2>3, <2>4, <2>5
  <1>7. \A s \in Sequences(t) : s \notin new
    <2> TAKE s \in Sequences(t)
    <2>1. PICK i \in 1 .. Len(t) : s \in ToSet(t[i]) BY <1>2, InSequences
    <2>2. i + 1 \in 1 .. Len(left) /\ 1 \in 1 .. Len(left) /\ i + 1 # 1 /\ t[i] = left[i + 1]
      BY <1>1, <1>2
    <2>3. ToSet(left[i + 1]) \cap ToSet(left[1]) = {} BY <2>2 DEF AddUp
    <2> QED BY <1>2, <2>1, <2>2, <2>3
  <1>8. \A s \in new : s \notin answered /\ s \notin refused /\ s \notin unanswered
    BY <1>6 DEF AddUp
  <1> QED BY <1>2, <1>3, <1>4, <1>5, <1>6, <1>7, <1>8 DEF AddUp

\* The batches in another order: the i-th was the was[i]-th.
IsOrder(was, N, left, new) ==
    /\ N \in Nat /\ Len(left) = N /\ Len(new) = N /\ new \in Seq(Batch)
    /\ was \in [1 .. N -> 1 .. N]
    /\ \A i \in 1 .. N : new[i] = left[was[i]]
    /\ \A i, j \in 1 .. N : i # j => was[i] # was[j]
    /\ \A k \in 1 .. N : \E i \in 1 .. N : was[i] = k

LEMMA OtherOrder ==
  ASSUME NEW left, NEW answered, NEW refused, NEW unanswered,
         AddUp(left, answered, refused, unanswered),
         NEW new, NEW was, NEW N, IsOrder(was, N, left, new)
  PROVE  AddUp(new, answered, refused, unanswered)
  <1>1. left \in Seq(Batch) BY DEF AddUp
  <1>7. /\ N \in Nat /\ Len(left) = N /\ Len(new) = N /\ new \in Seq(Batch)
        /\ \A i \in 1 .. N : new[i] = left[was[i]]
        /\ \A i, j \in 1 .. N : i # j => was[i] # was[j]
        /\ \A k \in 1 .. N : \E i \in 1 .. N : was[i] = k
    BY DEF IsOrder
  <1>2. \A i \in 1 .. N : was[i] \in 1 .. N BY DEF IsOrder
  <1>3. /\ \A i \in 1 .. N : Fits(left[i])
        /\ \A i, j \in 1 .. N : i # j => ToSet(left[i]) \cap ToSet(left[j]) = {}
    BY <1>7 DEF AddUp
  <1>4. \A s : s \in Sequences(new) <=> s \in Sequences(left)
    <2> TAKE s
    <2>1. s \in Sequences(left) <=> \E i \in 1 .. N : s \in ToSet(left[i]) BY <1>1, <1>7, InSequences
    <2>2. s \in Sequences(new) <=> \E i \in 1 .. N : s \in ToSet(new[i]) BY <1>7, InSequences
    <2>3. (\E i \in 1 .. N : s \in ToSet(new[i])) <=> \E i \in 1 .. N : s \in ToSet(left[i])
      <3>1. ASSUME NEW i \in 1 .. N, s \in ToSet(new[i]) PROVE \E k \in 1 .. N : s \in ToSet(left[k])
        BY <1>2, <1>7, <3>1
      <3>2. ASSUME NEW k \in 1 .. N, s \in ToSet(left[k]) PROVE \E i \in 1 .. N : s \in ToSet(new[i])
        <4>1. PICK i \in 1 .. N : was[i] = k BY <1>7
        <4> QED BY <1>7, <3>2, <4>1
      <3> QED BY <3>1, <3>2
    <2> QED BY <2>1, <2>2, <2>3
  <1>5. \A i \in 1 .. N : Fits(new[i]) BY <1>2, <1>3, <1>7
  <1>6. \A i, j \in 1 .. N : i # j => ToSet(new[i]) \cap ToSet(new[j]) = {}
    <2> TAKE i, j \in 1 .. N
    <2>1. i # j => was[i] # was[j] BY <1>7
    <2>2. was[i] \in 1 .. N /\ was[j] \in 1 .. N /\ new[i] = left[was[i]] /\ new[j] = left[was[j]]
      BY <1>2, <1>7
    <2> QED BY <1>3, <2>1, <2>2
  <1> QED BY <1>4, <1>5, <1>6, <1>7 DEF AddUp

\* A batch in two: x and y are the symbols of b, each once.
IsSplit(b, x, y) ==
    /\ x \in Batch /\ y \in Batch /\ Fits(x) /\ Fits(y)
    /\ \A s : s \in ToSet(b) <=> s \in ToSet(x) \/ s \in ToSet(y)
    /\ \A s : ~(s \in ToSet(x) /\ s \in ToSet(y))

LEMMA Split ==
  ASSUME NEW b \in Batch, Fits(b), NEW n \in Nat, n <= Len(b),
         NEW x, x = SubSeq(b, 1, n), NEW y, y = SubSeq(b, n + 1, Len(b))
  PROVE  IsSplit(b, x, y)
  <1>1. Len(b) \in Nat /\ DOMAIN b = 1 .. Len(b) /\ \A k \in 1 .. Len(b) : b[k] \in Symbols BY DEF Batch
  <1>2. x \in Batch /\ Len(x) = n /\ DOMAIN x = 1 .. n /\ \A k \in 1 .. n : x[k] = b[k]
    BY <1>1 DEF Batch
  <1>3. /\ y \in Batch /\ Len(y) = Len(b) - n /\ DOMAIN y = 1 .. Len(b) - n
        /\ \A k \in 1 .. Len(b) - n : y[k] = b[n + k]
    <2>1. n + 1 \in 1 .. Len(b) + 1 /\ Len(b) \in n + 1 - 1 .. Len(b) /\ b \in Seq(Symbols)
      BY <1>1 DEF Batch
    <2>2. /\ y \in Seq(Symbols) /\ Len(y) = Len(b) - (n + 1) + 1
          /\ \A k \in 1 .. Len(b) - (n + 1) + 1 : y[k] = b[n + 1 + k - 1]
      BY <2>1, SubSeqProperties
    <2>3. Len(b) - (n + 1) + 1 = Len(b) - n /\ \A k \in Int : n + 1 + k - 1 = n + k BY <1>1
    <2>4. Len(y) = Len(b) - n /\ DOMAIN y = 1 .. Len(y)
      <3>1. DOMAIN y = 1 .. Len(y) BY <2>2
      <3>2. Len(y) = Len(b) - n BY <2>2, <2>3
      <3> QED BY <3>1, <3>2
    <2>5. \A k \in 1 .. Len(b) - n : y[k] = b[n + k]
      <3> TAKE k \in 1 .. Len(b) - n
      <3>1. k \in 1 .. Len(b) - (n + 1) + 1 /\ n + 1 + k - 1 = n + k BY <1>1
      <3> QED BY <2>2, <3>1
    <2> QED BY <2>2, <2>4, <2>5 DEF Batch
  <1>4. IsInjective(x)
    <2>1. \A k \in 1 .. n : k \in 1 .. Len(b) BY <1>1
    <2> QED BY <1>1, <1>2, <2>1 DEF IsInjective, Fits
  <1>5. \A k \in 1 .. Len(b) - n : n + k \in 1 .. Len(b) BY <1>1
  <1>6. IsInjective(y)
    <2>1. \A k, l \in 1 .. Len(b) - n : n + k = n + l => k = l BY <1>1
    <2> SUFFICES ASSUME NEW k \in 1 .. Len(b) - n, NEW l \in 1 .. Len(b) - n, y[k] = y[l] PROVE k = l
      BY <1>3 DEF IsInjective
    <2>2. b[n + k] = b[n + l] /\ n + k \in DOMAIN b /\ n + l \in DOMAIN b BY <1>1, <1>3, <1>5
    <2>3. n + k = n + l BY <2>2 DEF IsInjective, Fits
    <2> QED BY <2>1, <2>3
  <1>7. \A s : s \in ToSet(b) <=> s \in ToSet(x) \/ s \in ToSet(y)
    <2> TAKE s
    <2>1. s \in ToSet(b) <=> \E k \in 1 .. Len(b) : s = b[k] BY SetOf
    <2>2. s \in ToSet(x) <=> \E k \in 1 .. Len(x) : s = x[k] BY <1>2, SetOf
    <2>3. s \in ToSet(y) <=> \E k \in 1 .. Len(y) : s = y[k] BY <1>3, SetOf
    <2>4. \A k \in 1 .. Len(b) : k \in 1 .. n \/ (k - n \in 1 .. Len(b) - n /\ n + (k - n) = k)
      BY <1>1
    <2>5. \A k \in 1 .. n : k \in 1 .. Len(b) BY <1>1
    <2>6. ASSUME s \in ToSet(b) PROVE s \in ToSet(x) \/ s \in ToSet(y)
      <3>1. PICK k \in 1 .. Len(b) : s = b[k] BY <2>1, <2>6
      <3>2. CASE k \in 1 .. n
        <4>1. s = x[k] /\ k \in 1 .. Len(x) BY <1>2, <3>1, <3>2
        <4> QED BY <2>2, <4>1
      <3>3. CASE k - n \in 1 .. Len(b) - n /\ n + (k - n) = k
        <4>1. s = y[k - n] /\ k - n \in 1 .. Len(y) BY <1>3, <3>1, <3>3
        <4> QED BY <2>3, <4>1
      <3> QED BY <2>4, <3>2, <3>3
    <2>7. s \in ToSet(x) => s \in ToSet(b) BY <1>2, <2>1, <2>2, <2>5
    <2>8. s \in ToSet(y) => s \in ToSet(b) BY <1>3, <1>5, <2>1, <2>3
    <2> QED BY <2>6, <2>7, <2>8
  <1>8. ASSUME NEW s, s \in ToSet(x), s \in ToSet(y) PROVE FALSE
    <2>1. PICK k \in 1 .. Len(x) : s = x[k] BY <1>2, <1>8, SetOf
    <2>2. PICK l \in 1 .. Len(y) : s = y[l] BY <1>3, <1>8, SetOf
    <2>5. k \in 1 .. n /\ l \in 1 .. Len(b) - n BY <1>2, <1>3, <2>1, <2>2
    <2>3. k \in 1 .. Len(b) /\ n + l \in 1 .. Len(b) /\ k # n + l BY <1>1, <2>5
    <2>4. b[k] = s /\ b[n + l] = s BY <1>2, <1>3, <2>1, <2>2
    <2> QED BY <1>1, <2>3, <2>4 DEF IsInjective, Fits
  <1>9. source = "binance" => Len(x) <= 1 /\ Len(y) <= 1
    <2>1. source = "binance" => Len(b) <= 1 BY DEF Fits
    <2>2. Len(b) <= 1 => n <= 1 /\ Len(b) - n <= 1 BY <1>1
    <2> QED BY <1>2, <1>3, <2>1, <2>2
  <1> QED BY <1>2, <1>3, <1>4, <1>6, <1>7, <1>8, <1>9 DEF IsSplit, Fits

\* A batch at the head is split.
SplitsHead(left, new, n) ==
    /\ left # <<>> /\ n \in Nat /\ n <= Len(Head(left))
    /\ new \in Seq(Batch) /\ Len(new) = Len(left) + 1
    /\ new[1] = SubSeq(Head(left), 1, n)
    /\ new[2] = SubSeq(Head(left), n + 1, Len(Head(left)))
    /\ \A i \in 2 .. Len(left) : new[i + 1] = left[i]

LEMMA HeadSplits ==
  ASSUME NEW left, NEW answered, NEW refused, NEW unanswered,
         AddUp(left, answered, refused, unanswered), NEW new, NEW n, SplitsHead(left, new, n)
  PROVE  AddUp(new, answered, refused, unanswered)
  <1> USE DEF SplitsHead
  <1>1. left \in Seq(Batch) BY DEF AddUp
  <1>2. PICK b : b = Head(left) OBVIOUS
  <1>3. Len(left) \in Nat /\ Len(left) >= 1 /\ b = left[1] /\ b \in Batch BY <1>1, <1>2, HeadLeaves
  <1>4. 1 \in 1 .. Len(left) /\ 1 \in 1 .. Len(new) /\ 2 \in 1 .. Len(new) BY <1>3
  <1>5. Fits(b) BY <1>3, <1>4 DEF AddUp
  <1>6. /\ Fits(new[1]) /\ Fits(new[2])
        /\ \A s : s \in ToSet(b) <=> s \in ToSet(new[1]) \/ s \in ToSet(new[2])
        /\ \A s : ~(s \in ToSet(new[1]) /\ s \in ToSet(new[2]))
    <2>1. PICK x, y : x = new[1] /\ y = new[2] OBVIOUS
    <2>2. x = SubSeq(b, 1, n) /\ y = SubSeq(b, n + 1, Len(b)) /\ n <= Len(b) BY <1>2, <2>1
    <2>3. IsSplit(b, x, y)
      <3>1. b \in Batch /\ Fits(b) /\ n \in Nat /\ n <= Len(b) BY <1>3, <1>5, <2>2
      <3> QED BY <2>2, <3>1, Split
    <2> QED BY <2>1, <2>3 DEF IsSplit
  <1>7. \A i \in 1 .. Len(new) : i = 1 \/ i = 2 \/ (i - 1 \in 2 .. Len(left) /\ new[i] = left[i - 1])
    <2> TAKE i \in 1 .. Len(new)
    <2>1. i = 1 \/ i = 2 \/ (i - 1 \in 2 .. Len(left) /\ (i - 1) + 1 = i) BY <1>3
    <2> QED BY <2>1
  <1>8. \A i \in 2 .. Len(left) : i \in 1 .. Len(left) /\ i + 1 \in 1 .. Len(new) /\ i # 1 BY <1>3
  <1>10. \A s : s \in Sequences(left) <=> s \in Sequences(new)
    <2> TAKE s
    <2>1. s \in Sequences(left) <=> \E i \in 1 .. Len(left) : s \in ToSet(left[i]) BY <1>1, InSequences
    <2>2. s \in Sequences(new) <=> \E i \in 1 .. Len(new) : s \in ToSet(new[i]) BY InSequences
    <2>3. \A i \in 1 .. Len(left) : i = 1 \/ i \in 2 .. Len(left) BY <1>3
    <2>4. ASSUME NEW i \in 1 .. Len(left), s \in ToSet(left[i])
          PROVE  \E j \in 1 .. Len(new) : s \in ToSet(new[j])
      BY <1>3, <1>4, <1>6, <1>8, <2>3, <2>4
    <2>5. ASSUME NEW i \in 1 .. Len(new), s \in ToSet(new[i])
          PROVE  \E j \in 1 .. Len(left) : s \in ToSet(left[j])
      BY <1>3, <1>4, <1>6, <1>7, <1>8, <2>5
    <2> QED BY <2>1, <2>2, <2>4, <2>5
  <1>9. /\ \A i \in 1 .. Len(left) : Fits(left[i])
        /\ \A i, j \in 1 .. Len(left) : i # j => ToSet(left[i]) \cap ToSet(left[j]) = {}
    BY DEF AddUp
  <1>11. \A i \in 1 .. Len(new) : Fits(new[i])
    <2> TAKE i \in 1 .. Len(new)
    <2> QED BY <1>6, <1>7, <1>8, <1>9
  <1>12. \A i \in 2 .. Len(left) : ToSet(b) \cap ToSet(left[i]) = {} BY <1>3, <1>4, <1>8, <1>9
  <1>13. \A i, j \in 1 .. Len(new) : i # j => ToSet(new[i]) \cap ToSet(new[j]) = {}
    <2> SUFFICES ASSUME NEW i \in 1 .. Len(new), NEW j \in 1 .. Len(new), i # j,
                        NEW s, s \in ToSet(new[i]), s \in ToSet(new[j])
                 PROVE  FALSE
      OBVIOUS
    <2>1. CASE i \in {1, 2} /\ j \in {1, 2}
      <3>1. (i = 1 /\ j = 2) \/ (i = 2 /\ j = 1) BY <2>1
      <3>2. CASE i = 1 /\ j = 2 BY <1>6, <3>2
      <3>3. CASE i = 2 /\ j = 1 BY <1>6, <3>3
      <3> QED BY <3>1, <3>2, <3>3
    <2>2. CASE i \in {1, 2} /\ j \notin {1, 2} BY <1>6, <1>7, <1>12, <2>2
    <2>3. CASE i \notin {1, 2} /\ j \in {1, 2} BY <1>6, <1>7, <1>12, <2>3
    <2>4. CASE i \notin {1, 2} /\ j \notin {1, 2}
      <3>1. i - 1 \in 2 .. Len(left) /\ j - 1 \in 2 .. Len(left)
            /\ new[i] = left[i - 1] /\ new[j] = left[j - 1]
        BY <1>7, <2>4
      <3>2. i - 1 \in 1 .. Len(left) /\ j - 1 \in 1 .. Len(left) /\ i - 1 # j - 1 BY <1>8, <3>1
      <3> QED BY <1>9, <3>1, <3>2
    <2> QED BY <2>1, <2>2, <2>3, <2>4
  <1> QED BY <1>10, <1>11, <1>13 DEF AddUp

-----------------------------------------------------------------------------
\* The batches of a refresh that have no outcome yet, one after another.

Refreshes == [phase : {"first", "again", "narrow", "done"}, asks : Seq(Batch), failed : Seq(Parts),
              parts : Seq(Parts), page : Nat, inARow : Nat, error : BOOLEAN,
              answered : SUBSET Symbols, refused : SUBSET Symbols, unanswered : SUBSET Symbols]

LEMMA SameSeq ==
  ASSUME NEW s \in Seq(Batch), NEW t \in Seq(Batch), Len(s) = Len(t),
         \A i \in 1 .. Len(s) : s[i] = t[i]
  PROVE  s = t
  OBVIOUS

LEMMA PartsAre ==
  ASSUME NEW ps \in Seq(Parts)
  PROVE  /\ PartsOf(ps) \in Seq(Batch) /\ Len(PartsOf(ps)) = Len(ps)
         /\ \A i \in 1 .. Len(ps) : PartsOf(ps)[i] = ps[i].batch
  <1>3. DOMAIN ps = 1 .. Len(ps) /\ Len(ps) \in Nat /\ \A i \in 1 .. Len(ps) : ps[i] \in Parts OBVIOUS
  <1>1. \A i \in 1 .. Len(ps) : ps[i].batch \in Batch BY <1>3 DEF Parts
  <1>2. PartsOf(ps) = [i \in 1 .. Len(ps) |-> ps[i].batch] BY <1>3 DEF PartsOf
  <1> QED BY <1>1, <1>2, <1>3

\* The batches left are those of the three lists, one list after another.
AreLeft(r, a, f, p) ==
    /\ a \in Nat /\ f \in Nat /\ p \in Nat
    /\ Left(r) \in Seq(Batch) /\ Len(Left(r)) = a + f + p
    /\ \A i \in 1 .. a : Left(r)[i] = r.asks[i]
    /\ \A i \in 1 .. f : Left(r)[a + i] = r.failed[i].batch
    /\ \A i \in 1 .. p : Left(r)[a + f + i] = r.parts[i].batch

\* z is x and behind it y.
Joins(z, x, y, a, f) ==
    /\ Len(z) = a + f
    /\ \A i \in 1 .. a : z[i] = x[i]
    /\ \A i \in 1 .. f : z[a + i] = y[i]

LEMMA Concat ==
  ASSUME NEW S, NEW x, NEW y, x \in Seq(S), y \in Seq(S), NEW a, NEW f, a = Len(x), f = Len(y)
  PROVE  x \o y \in Seq(S) /\ Joins(x \o y, x, y, a, f)
  <1>1. /\ x \o y \in Seq(S) /\ Len(x \o y) = Len(x) + Len(y)
        /\ \A i \in 1 .. Len(x) + Len(y) : (x \o y)[i] = IF i <= Len(x) THEN x[i] ELSE y[i - Len(x)]
    BY ConcatProperties
  <1>2. ASSUME NEW i \in 1 .. Len(x) PROVE (x \o y)[i] = x[i]
    <2>1. i \in 1 .. Len(x) + Len(y) /\ i <= Len(x) OBVIOUS
    <2> QED BY <1>1, <2>1
  <1>3. ASSUME NEW i \in 1 .. Len(y) PROVE (x \o y)[Len(x) + i] = y[i]
    <2>1. /\ Len(x) + i \in 1 .. Len(x) + Len(y) /\ ~(Len(x) + i <= Len(x))
          /\ Len(x) + i - Len(x) = i
      OBVIOUS
    <2> QED BY <1>1, <2>1
  <1> QED BY <1>1, <1>2, <1>3 DEF Joins

LEMMA Sums ==
  ASSUME NEW a \in Nat, NEW f \in Nat
  PROVE  /\ a + f \in Nat
         /\ \A i \in 1 .. a : i \in 1 .. a + f
         /\ \A i \in 1 .. f : a + i \in 1 .. a + f
  OBVIOUS

LEMMA LeftIs ==
  ASSUME NEW r \in Refreshes,
         NEW a \in Nat, a = Len(r.asks), NEW f \in Nat, f = Len(r.failed),
         NEW p \in Nat, p = Len(r.parts)
  PROVE  AreLeft(r, a, f, p)
  <1>1. PICK x, y, z : x = r.asks /\ y = PartsOf(r.failed) /\ z = PartsOf(r.parts) OBVIOUS
  <1>2. x \in Seq(Batch) /\ r.failed \in Seq(Parts) /\ r.parts \in Seq(Parts) BY <1>1 DEF Refreshes
  <1>3. y \in Seq(Batch) /\ f = Len(y) /\ \A i \in 1 .. f : y[i] = r.failed[i].batch
    BY <1>1, <1>2, PartsAre
  <1>4. z \in Seq(Batch) /\ p = Len(z) /\ \A i \in 1 .. p : z[i] = r.parts[i].batch
    BY <1>1, <1>2, PartsAre
  <1>5. a = Len(x) BY <1>1
  <1>6. PICK w : w = x \o y OBVIOUS
  <1>7. /\ w \in Seq(Batch) /\ a + f = Len(w)
        /\ \A i \in 1 .. a : w[i] = x[i]
        /\ \A i \in 1 .. f : w[a + i] = y[i]
    <2>1. Joins(w, x, y, a, f) /\ w \in Seq(Batch) BY <1>2, <1>3, <1>5, <1>6, Concat
    <2>2. Len(w) = a + f BY <2>1 DEF Joins
    <2> QED BY <2>1, <2>2 DEF Joins
  <1>8. PICK n \in Nat : n = a + f BY Sums
  <1>9. /\ w \o z \in Seq(Batch) /\ Len(w \o z) = n + p
        /\ \A i \in 1 .. n : (w \o z)[i] = w[i]
        /\ \A i \in 1 .. p : (w \o z)[n + i] = z[i]
    <2>1. n = Len(w) /\ w \in Seq(Batch) BY <1>7, <1>8
    <2>2. p = Len(z) /\ z \in Seq(Batch) BY <1>4
    <2>3. Joins(w \o z, w, z, n, p) /\ w \o z \in Seq(Batch) BY <2>1, <2>2, Concat
    <2> QED BY <2>3 DEF Joins
  <1>10. Left(r) = w \o z BY <1>1, <1>6 DEF Left
  <1>11. (\A i \in 1 .. a : i \in 1 .. n) /\ \A i \in 1 .. f : a + i \in 1 .. n BY <1>8, Sums
  <1>12. \A i \in 1 .. a : Left(r)[i] = r.asks[i] BY <1>1, <1>7, <1>9, <1>10, <1>11
  <1>13. \A i \in 1 .. f : Left(r)[a + i] = r.failed[i].batch BY <1>3, <1>7, <1>9, <1>10, <1>11
  <1>14. \A i \in 1 .. p : Left(r)[a + f + i] = r.parts[i].batch BY <1>4, <1>8, <1>9, <1>10
  <1>15. Left(r) \in Seq(Batch) /\ Len(Left(r)) = a + f + p BY <1>8, <1>9, <1>10
  <1> QED BY <1>12, <1>13, <1>14, <1>15 DEF AreLeft

LEMMA LengthsOf ==
  ASSUME NEW r \in Refreshes
  PROVE  \E a, f, p \in Nat : a = Len(r.asks) /\ f = Len(r.failed) /\ p = Len(r.parts)
  <1>1. r.asks \in Seq(Batch) /\ r.failed \in Seq(Parts) /\ r.parts \in Seq(Parts) BY DEF Refreshes
  <1> QED BY <1>1

\* The first to ask for is asked for no longer.
LEMMA HeadIsTaken ==
  ASSUME NEW r \in Refreshes, NEW n \in Refreshes, r.asks # <<>>,
         n.asks = Tail(r.asks), n.failed = r.failed, n.parts = r.parts
  PROVE  Left(n) = Tail(Left(r)) /\ Left(r) # <<>> /\ Head(Left(r)) = Head(r.asks)
  <1>1. PICK a, f, p \in Nat : a = Len(r.asks) /\ f = Len(r.failed) /\ p = Len(r.parts) BY LengthsOf
  <1>2. AreLeft(r, a, f, p) BY <1>1, LeftIs
  <1>3. r.asks \in Seq(Batch) BY DEF Refreshes
  <1>4. /\ Len(n.asks) = a - 1 /\ a >= 1 /\ a - 1 \in Nat
        /\ \A i \in 1 .. a - 1 : n.asks[i] = r.asks[i + 1]
        /\ Head(r.asks) = r.asks[1]
    BY <1>1, <1>3, HeadLeaves
  <1>5. PICK b \in Nat : b = a - 1 BY <1>4
  <1>6. AreLeft(n, b, f, p)
    BY <1>1, <1>4, <1>5, LeftIs
  <1>7. b \in Nat /\ a = b + 1 /\ a + f + p = b + f + p + 1 /\ b + f + p \in Nat BY <1>2, <1>4, <1>5 DEF AreLeft
  <1>8. Left(r) # <<>> BY <1>2, <1>7 DEF AreLeft
  <1>9. /\ Tail(Left(r)) \in Seq(Batch) /\ Len(Tail(Left(r))) = b + f + p
        /\ \A i \in 1 .. b + f + p : Tail(Left(r))[i] = Left(r)[i + 1]
        /\ Head(Left(r)) = Left(r)[1]
    <2>1. Len(Left(r)) - 1 = b + f + p BY <1>2, <1>7 DEF AreLeft
    <2> QED BY <1>2, <1>8, <2>1, HeadLeaves DEF AreLeft
  <1>10. Left(r)[1] = r.asks[1] BY <1>2, <1>4 DEF AreLeft
  <1>11. ASSUME NEW i \in 1 .. b + f + p PROVE Left(n)[i] = Left(r)[i + 1]
    <2>1. CASE i \in 1 .. b
      <3>1. i + 1 \in 1 .. a BY <1>7, <2>1
      <3> QED BY <1>2, <1>4, <1>5, <1>6, <2>1, <3>1 DEF AreLeft
    <2>2. CASE i \in b + 1 .. b + f
      <3>1. PICK j : j = i - b OBVIOUS
      <3>2. j \in 1 .. f /\ i = b + j /\ i + 1 = a + j BY <1>2, <1>7, <2>2, <3>1 DEF AreLeft
      <3> QED BY <1>2, <1>6, <3>2 DEF AreLeft
    <2>3. CASE i \in b + f + 1 .. b + f + p
      <3>1. PICK j : j = i - (b + f) OBVIOUS
      <3>2. j \in 1 .. p /\ i = b + f + j /\ i + 1 = a + f + j BY <1>2, <1>7, <2>3, <3>1 DEF AreLeft
      <3> QED BY <1>2, <1>6, <3>2 DEF AreLeft
    <2> QED BY <1>2, <1>7, <2>1, <2>2, <2>3 DEF AreLeft
  <1>12. Left(n) = Tail(Left(r)) BY <1>6, <1>9, <1>11, SameSeq DEF AreLeft
  <1> QED BY <1>4, <1>8, <1>9, <1>10, <1>12

\* The first to ask for failed: it goes behind what failed before.
LEMMA HeadFails ==
  ASSUME NEW r \in Refreshes, NEW n \in Refreshes, r.asks # <<>>, NEW rejected \in BOOLEAN,
         n.asks = Tail(r.asks), n.parts = r.parts,
         n.failed = Append(r.failed, [batch |-> Head(r.asks), rejected |-> rejected]),
         NEW answered, NEW refused, NEW unanswered, AddUp(Left(r), answered, refused, unanswered)
  PROVE  AddUp(Left(n), answered, refused, unanswered)
  <1>1. PICK a, f, p \in Nat : a = Len(r.asks) /\ f = Len(r.failed) /\ p = Len(r.parts) BY LengthsOf
  <1>2. AreLeft(r, a, f, p) BY <1>1, LeftIs
  <1>3. r.asks \in Seq(Batch) /\ r.failed \in Seq(Parts) BY DEF Refreshes
  <1>4. /\ Len(n.asks) = a - 1 /\ a >= 1 /\ a - 1 \in Nat
        /\ \A i \in 1 .. a - 1 : n.asks[i] = r.asks[i + 1]
        /\ Head(r.asks) = r.asks[1] /\ Head(r.asks) \in Batch
    BY <1>1, <1>3, HeadLeaves
  <1>5. PICK b \in Nat : b = a - 1 BY <1>4
  <1>6. PICK part \in Parts : part = [batch |-> Head(r.asks), rejected |-> rejected] BY <1>4 DEF Parts
  <1>7. /\ Len(n.failed) = f + 1 /\ n.failed[f + 1] = part
        /\ \A i \in 1 .. f : n.failed[i] = r.failed[i]
    BY <1>1, <1>3, <1>6
  <1>8. PICK g \in Nat : g = f + 1 BY Sums
  <1>9. AreLeft(n, b, g, p)
    <2>1. b = Len(n.asks) /\ g = Len(n.failed) /\ p = Len(n.parts) BY <1>1, <1>4, <1>5, <1>7, <1>8
    <2> QED BY <2>1, LeftIs
  <1>10. PICK N \in Nat : N = a + f + p BY Sums
  <1>11. a = b + 1 /\ N = b + f + p + 1 /\ N = b + g + p BY <1>4, <1>5, <1>8, <1>10
  <1>12. Len(Left(r)) = N /\ Len(Left(n)) = N /\ Left(n) \in Seq(Batch)
    BY <1>2, <1>9, <1>10, <1>11 DEF AreLeft
  <1>13. PICK was : was = [i \in 1 .. N |-> IF i <= b + f THEN i + 1 ELSE IF i = b + f + 1 THEN 1 ELSE i]
    OBVIOUS
  <1>14. was \in [1 .. N -> 1 .. N]
    <2>1. \A i \in 1 .. N : (IF i <= b + f THEN i + 1 ELSE IF i = b + f + 1 THEN 1 ELSE i) \in 1 .. N
      BY <1>11
    <2> QED BY <1>13, <2>1
  <1>15. ASSUME NEW i \in 1 .. N PROVE Left(n)[i] = Left(r)[was[i]]
    <2>1. CASE i \in 1 .. b
      <3>1. i <= b + f /\ i + 1 \in 1 .. a /\ i \in 1 .. a - 1 BY <1>11, <2>1
      <3>2. was[i] = i + 1 BY <1>13, <3>1
      <3> QED BY <1>2, <1>4, <1>9, <2>1, <3>1, <3>2 DEF AreLeft
    <2>2. CASE i \in b + 1 .. b + f
      <3>1. PICK j \in 1 .. f : i = b + j
        <4>1. i - b \in 1 .. f /\ i = b + (i - b) BY <2>2
        <4> QED BY <4>1
      <3>2. i <= b + f /\ i + 1 = a + j /\ j \in 1 .. g BY <1>8, <1>11, <3>1
      <3>3. was[i] = a + j BY <1>13, <3>2
      <3>4. Left(n)[i] = n.failed[j].batch BY <1>9, <3>1, <3>2 DEF AreLeft
      <3> QED BY <1>2, <1>7, <3>1, <3>3, <3>4 DEF AreLeft
    <2>3. CASE i = b + g
      <3>1. g \in 1 .. g /\ 1 \in 1 .. a /\ ~(i <= b + f) /\ i = b + f + 1 BY <1>8, <1>11, <2>3
      <3>2. was[i] = 1 BY <1>13, <3>1
      <3>3. Left(n)[i] = n.failed[g].batch BY <1>9, <2>3, <3>1 DEF AreLeft
      <3>4. n.failed[g].batch = r.asks[1] BY <1>4, <1>6, <1>7, <1>8
      <3> QED BY <1>2, <3>1, <3>2, <3>3, <3>4 DEF AreLeft
    <2>4. CASE i \in b + g + 1 .. b + g + p
      <3>1. PICK j \in 1 .. p : i = b + g + j
        <4>1. i - (b + g) \in 1 .. p /\ i = b + g + (i - (b + g)) BY <2>4
        <4> QED BY <4>1
      <3>2. ~(i <= b + f) /\ i # b + f + 1 /\ i = a + f + j BY <1>8, <1>11, <3>1
      <3>3. was[i] = a + f + j BY <1>13, <3>2
      <3> QED BY <1>2, <1>9, <3>1, <3>3 DEF AreLeft
    <2> QED BY <1>8, <1>11, <2>1, <2>2, <2>3, <2>4
  <1>16. \A i, j \in 1 .. N : i # j => was[i] # was[j]
    <2> TAKE i, j \in 1 .. N
    <2>1. /\ was[i] = IF i <= b + f THEN i + 1 ELSE IF i = b + f + 1 THEN 1 ELSE i
          /\ was[j] = IF j <= b + f THEN j + 1 ELSE IF j = b + f + 1 THEN 1 ELSE j
      BY <1>13
    <2> QED BY <2>1
  <1>17. \A k \in 1 .. N : \E i \in 1 .. N : was[i] = k
    <2> TAKE k \in 1 .. N
    <2>1. CASE k = 1
      <3>1. PICK i \in 1 .. N : i = b + f + 1 BY <1>11
      <3>2. ~(i <= b + f) BY <3>1
      <3>3. was[i] = 1 BY <1>13, <3>1, <3>2
      <3> QED BY <2>1, <3>3
    <2>2. CASE k # 1 /\ k - 1 <= b + f
      <3>1. k - 1 \in 1 .. N /\ (k - 1) + 1 = k BY <2>2
      <3> QED BY <1>13, <2>2, <3>1
    <2>3. CASE ~(k - 1 <= b + f)
      <3>1. ~(k <= b + f) /\ k # b + f + 1 BY <2>3
      <3> QED BY <1>13, <3>1
    <2> QED BY <2>1, <2>2, <2>3
  <1>18. IsOrder(was, N, Left(r), Left(n)) BY <1>12, <1>14, <1>15, <1>16, <1>17 DEF IsOrder
  <1> QED BY <1>18, OtherOrder

\* None is asked for any more: all that are left count as failed.
LEMMA AllFail ==
  ASSUME NEW r \in Refreshes, NEW n \in Refreshes, n.asks = <<>>, n.parts = r.parts,
         NEW rest \in Seq(Parts), Len(rest) = Len(r.asks),
         \A i \in 1 .. Len(r.asks) : rest[i].batch = r.asks[i],
         n.failed = r.failed \o rest,
         NEW answered, NEW refused, NEW unanswered, AddUp(Left(r), answered, refused, unanswered)
  PROVE  AddUp(Left(n), answered, refused, unanswered)
  <1>1. PICK a, f, p \in Nat : a = Len(r.asks) /\ f = Len(r.failed) /\ p = Len(r.parts) BY LengthsOf
  <1>2. AreLeft(r, a, f, p) BY <1>1, LeftIs
  <1>3. r.failed \in Seq(Parts) BY DEF Refreshes
  <1>4. PICK g \in Nat : g = f + a BY Sums
  <1>5. /\ Len(n.failed) = g
        /\ \A i \in 1 .. f : n.failed[i] = r.failed[i]
        /\ \A i \in 1 .. a : n.failed[f + i] = rest[i]
    <2>1. /\ Len(r.failed \o rest) = f + a
          /\ \A i \in 1 .. f : (r.failed \o rest)[i] = r.failed[i]
          /\ \A i \in 1 .. a : (r.failed \o rest)[f + i] = rest[i]
      <3>1. a = Len(rest) /\ f = Len(r.failed) BY <1>1
      <3>2. Joins(r.failed \o rest, r.failed, rest, f, a) BY <1>3, <3>1, Concat
      <3> QED BY <3>2 DEF Joins
    <2> QED BY <1>4, <2>1
  <1>6. AreLeft(n, 0, g, p)
    <2>1. 0 = Len(n.asks) /\ g = Len(n.failed) /\ p = Len(n.parts) BY <1>1, <1>5
    <2> QED BY <2>1, LeftIs
  <1>7. PICK N \in Nat : N = a + f + p BY Sums
  <1>8. N = 0 + g + p /\ N = f + a + p BY <1>4, <1>7
  <1>9. Len(Left(r)) = N /\ Len(Left(n)) = N /\ Left(n) \in Seq(Batch) BY <1>2, <1>6, <1>7, <1>8 DEF AreLeft
  <1>10. PICK was : was = [i \in 1 .. N |-> IF i <= f THEN a + i ELSE IF i <= f + a THEN i - f ELSE i] OBVIOUS
  <1>11. was \in [1 .. N -> 1 .. N]
    <2>1. \A i \in 1 .. N : (IF i <= f THEN a + i ELSE IF i <= f + a THEN i - f ELSE i) \in 1 .. N BY <1>8
    <2> QED BY <1>10, <2>1
  <1>12. ASSUME NEW i \in 1 .. N PROVE Left(n)[i] = Left(r)[was[i]]
    <2>1. CASE i \in 1 .. f
      <3>1. i <= f /\ i \in 1 .. g /\ 0 + i = i BY <1>4, <2>1
      <3>2. was[i] = a + i BY <1>10, <3>1
      <3>3. Left(n)[i] = n.failed[i].batch BY <1>6, <3>1 DEF AreLeft
      <3> QED BY <1>2, <1>5, <2>1, <3>2, <3>3 DEF AreLeft
    <2>2. CASE i \in f + 1 .. f + a
      <3>1. PICK j \in 1 .. a : i = f + j
        <4>1. i - f \in 1 .. a /\ i = f + (i - f) BY <2>2
        <4> QED BY <4>1
      <3>2. ~(i <= f) /\ i <= f + a /\ i - f = j /\ i \in 1 .. g /\ 0 + i = i BY <1>4, <3>1
      <3>3. was[i] = j BY <1>10, <3>2
      <3>4. Left(n)[i] = n.failed[i].batch BY <1>6, <3>2 DEF AreLeft
      <3>5. n.failed[i].batch = r.asks[j] BY <1>1, <1>5, <3>1
      <3> QED BY <1>2, <3>1, <3>3, <3>4, <3>5 DEF AreLeft
    <2>3. CASE i \in f + a + 1 .. f + a + p
      <3>1. PICK j \in 1 .. p : i = f + a + j
        <4>1. i - (f + a) \in 1 .. p /\ i = f + a + (i - (f + a)) BY <2>3
        <4> QED BY <4>1
      <3>2. ~(i <= f) /\ ~(i <= f + a) /\ i = a + f + j /\ i = 0 + g + j BY <1>4, <3>1
      <3>3. was[i] = a + f + j BY <1>10, <3>2
      <3>4. Left(n)[i] = n.parts[j].batch BY <1>6, <3>1, <3>2 DEF AreLeft
      <3> QED BY <1>2, <3>1, <3>3, <3>4 DEF AreLeft
    <2> QED BY <1>8, <2>1, <2>2, <2>3
  <1>13. \A i, j \in 1 .. N : i # j => was[i] # was[j]
    <2> TAKE i, j \in 1 .. N
    <2>1. /\ was[i] = IF i <= f THEN a + i ELSE IF i <= f + a THEN i - f ELSE i
          /\ was[j] = IF j <= f THEN a + j ELSE IF j <= f + a THEN j - f ELSE j
      BY <1>10
    <2> QED BY <2>1
  <1>14. \A k \in 1 .. N : \E i \in 1 .. N : was[i] = k
    <2> TAKE k \in 1 .. N
    <2>1. CASE k <= a
      <3>1. PICK i \in 1 .. N : i = f + k BY <1>8, <2>1
      <3>2. ~(i <= f) /\ i <= f + a /\ i - f = k BY <2>1, <3>1
      <3>3. was[i] = k BY <1>10, <3>2
      <3> QED BY <3>3
    <2>2. CASE ~(k <= a) /\ k <= a + f
      <3>1. k - a \in 1 .. N /\ k - a <= f /\ a + (k - a) = k BY <1>8, <2>2
      <3> QED BY <1>10, <3>1
    <2>3. CASE ~(k <= a + f)
      <3>1. ~(k <= f) /\ ~(k <= f + a) BY <2>3
      <3> QED BY <1>10, <3>1
    <2> QED BY <2>1, <2>2, <2>3
  <1>15. IsOrder(was, N, Left(r), Left(n)) BY <1>9, <1>11, <1>12, <1>13, <1>14 DEF IsOrder
  <1> QED BY <1>15, OtherOrder

\* With nothing left to ask for, what failed may be asked for, or go before the parts to
\* narrow: the batches left are the same.
LEMMA NoParts == PartsOf(<<>>) = <<>>
  <1>1. PartsOf(<<>>) = [i \in {} |-> <<>>[i].batch] BY DEF PartsOf
  <1> QED BY <1>1

LEMMA FailedAreAsked ==
  ASSUME NEW r \in Refreshes, NEW n \in Refreshes, r.asks = <<>>,
         n.asks = PartsOf(r.failed), n.failed = <<>>, n.parts = r.parts
  PROVE  Left(n) = Left(r)
  <1>1. PICK x, y : x = PartsOf(r.failed) /\ y = PartsOf(r.parts) OBVIOUS
  <1>2. r.failed \in Seq(Parts) /\ r.parts \in Seq(Parts) BY DEF Refreshes
  <1>3. x \in Seq(Batch) /\ y \in Seq(Batch) BY <1>1, <1>2, PartsAre
  <1>4. Left(r) = <<>> \o x \o y /\ Left(n) = x \o <<>> \o y BY <1>1, NoParts DEF Left
  <1>5. <<>> \o x = x /\ x \o <<>> = x BY <1>3, ConcatEmptySeq
  <1> QED BY <1>4, <1>5

LEMMA FailedAreNarrowed ==
  ASSUME NEW r \in Refreshes, NEW n \in Refreshes, r.asks = <<>>,
         n.asks = <<>>, n.failed = <<>>, n.parts = r.failed \o r.parts
  PROVE  Left(n) = Left(r)
  <1>1. PICK a, f, p \in Nat : a = Len(r.asks) /\ f = Len(r.failed) /\ p = Len(r.parts) BY LengthsOf
  <1>2. AreLeft(r, 0, f, p)
    <2>1. 0 = Len(r.asks) OBVIOUS
    <2> QED BY <1>1, <2>1, LeftIs
  <1>3. r.failed \in Seq(Parts) /\ r.parts \in Seq(Parts) BY DEF Refreshes
  <1>4. Joins(n.parts, r.failed, r.parts, f, p) BY <1>1, <1>3, Concat
  <1>5. PICK g \in Nat : g = f + p BY Sums
  <1>6. AreLeft(n, 0, 0, g)
    <2>1. 0 = Len(n.asks) /\ 0 = Len(n.failed) OBVIOUS
    <2>2. g = Len(n.parts) BY <1>4, <1>5 DEF Joins
    <2> QED BY <2>1, <2>2, LeftIs
  <1>7. ASSUME NEW i \in 1 .. g PROVE Left(n)[i] = Left(r)[i]
    <2>4. Left(n)[0 + 0 + i] = n.parts[i].batch BY <1>6 DEF AreLeft
    <2>5. 0 + 0 + i = i OBVIOUS
    <2>1. Left(n)[i] = n.parts[i].batch BY <2>4, <2>5
    <2>2. CASE i \in 1 .. f
      <3>1. Left(r)[i] = r.failed[i].batch BY <1>2, <2>2 DEF AreLeft
      <3>2. n.parts[i] = r.failed[i] BY <1>4, <2>2 DEF Joins
      <3> QED BY <2>1, <3>1, <3>2
    <2>3. CASE i \in f + 1 .. f + p
      <3>1. PICK j \in 1 .. p : i = f + j
        <4>1. i - f \in 1 .. p /\ i = f + (i - f) BY <2>3
        <4> QED BY <4>1
      <3>2. n.parts[i] = r.parts[j] BY <1>4, <3>1 DEF Joins
      <3>3. Left(r)[0 + f + j] = r.parts[j].batch BY <1>2, <3>1 DEF AreLeft
      <3>4. 0 + f + j = i BY <3>1
      <3> QED BY <2>1, <3>2, <3>3, <3>4
    <2> QED BY <1>5, <2>2, <2>3
  <1>8. Left(r) \in Seq(Batch) /\ Left(n) \in Seq(Batch) /\ Len(Left(n)) = g /\ Len(Left(r)) = g
    <2>1. 0 + 0 + g = g /\ 0 + f + p = g BY <1>5
    <2> QED BY <1>2, <1>6, <2>1 DEF AreLeft
  <1> QED BY <1>7, <1>8, SameSeq

\* The first part to narrow is narrowed no longer.
LEMMA PartIsTaken ==
  ASSUME NEW r \in Refreshes, NEW n \in Refreshes, r.asks = <<>>, r.failed = <<>>, r.parts # <<>>,
         n.asks = <<>>, n.failed = <<>>, n.parts = Tail(r.parts)
  PROVE  Left(n) = Tail(Left(r)) /\ Left(r) # <<>> /\ Head(Left(r)) = Head(r.parts).batch
  <1>1. r.parts \in Seq(Parts) BY DEF Refreshes
  <1>2. PICK p \in Nat : p = Len(r.parts) BY <1>1
  <1>3. /\ Tail(r.parts) \in Seq(Parts) /\ Len(Tail(r.parts)) = p - 1 /\ p >= 1
        /\ \A i \in 1 .. p - 1 : Tail(r.parts)[i] = r.parts[i + 1]
        /\ Head(r.parts) = r.parts[1]
    BY <1>1, <1>2
  <1>4. PICK q \in Nat : q = p - 1 BY <1>3
  <1>5. AreLeft(r, 0, 0, p)
    <2>1. 0 = Len(r.asks) /\ 0 = Len(r.failed) OBVIOUS
    <2> QED BY <1>2, <2>1, LeftIs
  <1>6. AreLeft(n, 0, 0, q)
    <2>1. 0 = Len(n.asks) /\ 0 = Len(n.failed) OBVIOUS
    <2>2. q = Len(n.parts) BY <1>3, <1>4
    <2> QED BY <2>1, <2>2, LeftIs
  <1>7. /\ Left(r) \in Seq(Batch) /\ Len(Left(r)) = p /\ \A i \in 1 .. p : Left(r)[i] = r.parts[i].batch
        /\ Left(n) \in Seq(Batch) /\ Len(Left(n)) = q /\ \A i \in 1 .. q : Left(n)[i] = n.parts[i].batch
    <2>1. 0 + 0 + p = p /\ 0 + 0 + q = q /\ \A i \in Int : 0 + 0 + i = i OBVIOUS
    <2>2. Left(r) \in Seq(Batch) /\ Len(Left(r)) = p /\ \A i \in 1 .. p : Left(r)[i] = r.parts[i].batch
      BY <1>5, <2>1 DEF AreLeft
    <2>4. Left(n) \in Seq(Batch) /\ Len(Left(n)) = q BY <1>6, <2>1 DEF AreLeft
    <2>3. ASSUME NEW i \in 1 .. q PROVE Left(n)[i] = n.parts[i].batch
      <3>1. Left(n)[0 + 0 + i] = n.parts[i].batch BY <1>6 DEF AreLeft
      <3>2. 0 + 0 + i = i OBVIOUS
      <3> QED BY <3>1, <3>2
    <2> QED BY <2>2, <2>3, <2>4
  <1>8. Left(r) # <<>> BY <1>3, <1>7
  <1>9. /\ Tail(Left(r)) \in Seq(Batch) /\ Len(Tail(Left(r))) = q
        /\ \A i \in 1 .. q : Tail(Left(r))[i] = Left(r)[i + 1]
        /\ Head(Left(r)) = Left(r)[1]
    <2>1. Len(Left(r)) - 1 = q BY <1>4, <1>7
    <2> QED BY <1>7, <1>8, <2>1, HeadLeaves
  <1>10. \A i \in 1 .. q : i + 1 \in 1 .. p /\ i \in 1 .. p - 1 BY <1>4
  <1>11. ASSUME NEW i \in 1 .. q PROVE Left(n)[i] = Tail(Left(r))[i] BY <1>3, <1>7, <1>9, <1>10
  <1>12. Left(n) = Tail(Left(r)) BY <1>7, <1>9, <1>11, SameSeq
  <1>13. 1 \in 1 .. p BY <1>3
  <1> QED BY <1>3, <1>7, <1>8, <1>9, <1>12, <1>13

\* The first part to narrow is asked for in halves.
LEMMA PartIsSplit ==
  ASSUME NEW r \in Refreshes, NEW n \in Refreshes, r.asks = <<>>, r.failed = <<>>, r.parts # <<>>,
         NEW b, b = Head(r.parts).batch, NEW half \in Nat, half <= Len(b),
         n.asks = <<SubSeq(b, 1, half), SubSeq(b, half + 1, Len(b))>>,
         n.failed = <<>>, n.parts = Tail(r.parts),
         NEW answered, NEW refused, NEW unanswered, AddUp(Left(r), answered, refused, unanswered)
  PROVE  AddUp(Left(n), answered, refused, unanswered)
  <1>1. r.parts \in Seq(Parts) BY DEF Refreshes
  <1>2. PICK p \in Nat : p = Len(r.parts) BY <1>1
  <1>3. /\ Tail(r.parts) \in Seq(Parts) /\ Len(Tail(r.parts)) = p - 1 /\ p >= 1
        /\ \A i \in 1 .. p - 1 : Tail(r.parts)[i] = r.parts[i + 1]
        /\ Head(r.parts) = r.parts[1]
    BY <1>1, <1>2
  <1>4. PICK q \in Nat : q = p - 1 BY <1>3
  <1>5. AreLeft(r, 0, 0, p)
    <2>1. 0 = Len(r.asks) /\ 0 = Len(r.failed) OBVIOUS
    <2> QED BY <1>2, <2>1, LeftIs
  <1>6. AreLeft(n, 2, 0, q)
    <2>1. 2 = Len(n.asks) /\ 0 = Len(n.failed) OBVIOUS
    <2>2. q = Len(n.parts) BY <1>3, <1>4
    <2> QED BY <2>1, <2>2, LeftIs
  <1>7. /\ Left(r) \in Seq(Batch) /\ Len(Left(r)) = p /\ \A i \in 1 .. p : Left(r)[i] = r.parts[i].batch
    <2>1. 0 + 0 + p = p /\ \A i \in Int : 0 + 0 + i = i OBVIOUS
    <2> QED BY <1>5, <2>1 DEF AreLeft
  <1>8. /\ Left(n) \in Seq(Batch) /\ Len(Left(n)) = p + 1
        /\ Left(n)[1] = n.asks[1] /\ Left(n)[2] = n.asks[2]
        /\ \A i \in 1 .. q : Left(n)[i + 2] = n.parts[i].batch
    <2>1. 2 + 0 + q = p + 1 /\ 1 \in 1 .. 2 /\ 2 \in 1 .. 2 /\ \A i \in Int : 2 + 0 + i = i + 2 BY <1>4
    <2>2. Left(n) \in Seq(Batch) /\ Len(Left(n)) = p + 1 BY <1>6, <2>1 DEF AreLeft
    <2>3. Left(n)[1] = n.asks[1] /\ Left(n)[2] = n.asks[2] BY <1>6, <2>1 DEF AreLeft
    <2>4. ASSUME NEW i \in 1 .. q PROVE Left(n)[i + 2] = n.parts[i].batch
      <3>1. Left(n)[2 + 0 + i] = n.parts[i].batch BY <1>6 DEF AreLeft
      <3>2. 2 + 0 + i = i + 2 OBVIOUS
      <3> QED BY <3>1, <3>2
    <2> QED BY <2>2, <2>3, <2>4
  <1>9. Left(r) # <<>> BY <1>3, <1>7
  <1>10. Head(Left(r)) = b
    <2>1. Head(Left(r)) = Left(r)[1] BY <1>7, <1>9, HeadLeaves
    <2>2. 1 \in 1 .. p BY <1>3
    <2> QED BY <1>3, <1>7, <2>1, <2>2
  <1>11. ASSUME NEW i \in 2 .. Len(Left(r)) PROVE Left(n)[i + 1] = Left(r)[i]
    <2>1. PICK j \in 1 .. q : j + 2 = i + 1 /\ i = j + 1 /\ j \in 1 .. p - 1
      <3>1. i - 1 \in 1 .. q /\ (i - 1) + 2 = i + 1 /\ i = (i - 1) + 1 /\ i - 1 \in 1 .. p - 1
        BY <1>4, <1>7
      <3> QED BY <3>1
    <2>2. i \in 1 .. p BY <1>7
    <2> QED BY <1>3, <1>7, <1>8, <2>1, <2>2
  <1>12. n.asks[1] = SubSeq(b, 1, half) /\ n.asks[2] = SubSeq(b, half + 1, Len(b)) OBVIOUS
  <1>13. SplitsHead(Left(r), Left(n), half) BY <1>7, <1>8, <1>9, <1>10, <1>11, <1>12 DEF SplitsHead
  <1> QED BY <1>13, HeadSplits

-----------------------------------------------------------------------------
\* Where a refresh may stand.

\* A part was rejected because of a symbol in it.
Meets(ps) == \A i \in 1 .. Len(ps) : ps[i].rejected => ToSet(ps[i].batch) \cap bad # {}

Accounted(r) ==
    /\ r \in Refreshes
    /\ AddUp(Left(r), r.answered, r.refused, r.unanswered)
    /\ Meets(r.failed) /\ Meets(r.parts)
    /\ r.refused \subseteq bad /\ r.answered \cap bad = {}
    /\ r.phase = "done" => Left(r) = <<>>

\* The first to ask for.
LEMMA AskedIs ==
  ASSUME Accounted(refresh), refresh.asks # <<>>
  PROVE  /\ Asked \in Batch /\ Fits(Asked) /\ refresh.phase # "done"
         /\ Left(refresh) # <<>> /\ Asked = Head(Left(refresh))
         /\ Tail(refresh.asks) \in Seq(Batch)
  <1>1. refresh \in Refreshes /\ refresh.asks \in Seq(Batch) BY DEF Accounted, Refreshes
  <1>2. Tail(refresh.asks) \in Seq(Batch) /\ Asked \in Batch BY <1>1, HeadLeaves DEF Asked
  <1>3. PICK n : n = [refresh EXCEPT !.asks = Tail(refresh.asks)] OBVIOUS
  <1>4. n \in Refreshes /\ n.asks = Tail(refresh.asks) /\ n.failed = refresh.failed /\ n.parts = refresh.parts
    BY <1>1, <1>2, <1>3 DEF Refreshes
  <1>5. Left(refresh) # <<>> /\ Head(Left(refresh)) = Asked BY <1>1, <1>4, HeadIsTaken DEF Asked
  <1>6. Left(refresh) \in Seq(Batch) BY DEF Accounted, AddUp
  <1>7. Asked = Left(refresh)[1] /\ 1 \in 1 .. Len(Left(refresh)) BY <1>5, <1>6, HeadLeaves
  <1>8. Fits(Asked) BY <1>7 DEF Accounted, AddUp
  <1> QED BY <1>2, <1>5, <1>8 DEF Accounted

LEMMA AnswerKeeps ==
  ASSUME Accounted(refresh), refresh.asks # <<>>, ToSet(Asked) \cap bad = {}
  PROVE  Accounted(Answer(refresh)) /\ Answer(refresh).phase = refresh.phase
  <1>1. PICK n : n = Answer(refresh) OBVIOUS
  <1>2. refresh \in Refreshes BY DEF Accounted
  <1>3. ToSet(Asked) \subseteq Symbols BY AskedIs, SetOf
  <1>4. /\ n \in Refreshes /\ n.asks = Tail(refresh.asks) /\ n.failed = refresh.failed
        /\ n.parts = refresh.parts /\ n.answered = refresh.answered \cup ToSet(Asked)
        /\ n.refused = refresh.refused /\ n.unanswered = refresh.unanswered /\ n.phase = refresh.phase
    BY <1>1, <1>2, <1>3, AskedIs DEF Answer, Refreshes
  <1>5. Left(n) = Tail(Left(refresh)) BY <1>2, <1>4, HeadIsTaken
  <1>6. AddUp(Left(n), n.answered, n.refused, n.unanswered)
    <2>1. AddUp(Left(refresh), refresh.answered, refresh.refused, refresh.unanswered) BY DEF Accounted
    <2>2. PICK t, new : t = Tail(Left(refresh)) /\ new = ToSet(Head(Left(refresh))) OBVIOUS
    <2>3. /\ AddUp(t, refresh.answered \cup new, refresh.refused, refresh.unanswered)
          /\ AddUp(t, refresh.answered, refresh.refused \cup new, refresh.unanswered)
      BY <2>1, <2>2, AskedIs, HeadEnds
    <2> QED BY <1>4, <1>5, <2>2, <2>3, AskedIs
  <1>7. n.refused \subseteq bad /\ n.answered \cap bad = {} BY <1>4 DEF Accounted
  <1> QED BY <1>1, <1>4, <1>6, <1>7, AskedIs DEF Accounted

\* A pair that is refused is one the source refuses: it was asked for by itself.
LEMMA RefusePairKeeps ==
  ASSUME Accounted(refresh), refresh.asks # <<>>, ToSet(Asked) \cap bad # {}, source = "binance"
  PROVE  Accounted(RefusePair(refresh)) /\ RefusePair(refresh).phase = refresh.phase
  <1>1. PICK n : n = RefusePair(refresh) OBVIOUS
  <1>2. refresh \in Refreshes BY DEF Accounted
  <1>3. ToSet(Asked) \subseteq Symbols BY AskedIs, SetOf
  <1>4. /\ n \in Refreshes /\ n.asks = Tail(refresh.asks) /\ n.failed = refresh.failed
        /\ n.parts = refresh.parts /\ n.refused = refresh.refused \cup ToSet(Asked)
        /\ n.answered = refresh.answered /\ n.unanswered = refresh.unanswered /\ n.phase = refresh.phase
    BY <1>1, <1>2, <1>3, AskedIs DEF RefusePair, Refreshes
  <1>5. Left(n) = Tail(Left(refresh)) BY <1>2, <1>4, HeadIsTaken
  <1>6. AddUp(Left(n), n.answered, n.refused, n.unanswered)
    <2>1. AddUp(Left(refresh), refresh.answered, refresh.refused, refresh.unanswered) BY DEF Accounted
    <2>2. PICK t, new : t = Tail(Left(refresh)) /\ new = ToSet(Head(Left(refresh))) OBVIOUS
    <2>3. /\ AddUp(t, refresh.answered \cup new, refresh.refused, refresh.unanswered)
          /\ AddUp(t, refresh.answered, refresh.refused \cup new, refresh.unanswered)
      BY <2>1, <2>2, AskedIs, HeadEnds
    <2> QED BY <1>4, <1>5, <2>2, <2>3, AskedIs
  <1>7. ToSet(Asked) \subseteq bad
    <2>1. Len(Asked) \in Nat /\ Len(Asked) <= 1 BY AskedIs DEF Fits, Batch
    <2>2. \A s : s \in ToSet(Asked) <=> \E k \in 1 .. Len(Asked) : s = Asked[k] BY AskedIs, SetOf
    <2>3. \A k \in 1 .. Len(Asked) : k = 1 BY <2>1
    <2> QED BY <2>2, <2>3
  <1>8. n.refused \subseteq bad /\ n.answered \cap bad = {} BY <1>4, <1>7 DEF Accounted
  <1> QED BY <1>1, <1>4, <1>6, <1>8, AskedIs DEF Accounted

\* A batch that is refused holds a symbol the source refuses.
LEMMA FailKeeps ==
  ASSUME Accounted(refresh), refresh.asks # <<>>, NEW rejected \in BOOLEAN,
         rejected => ToSet(Asked) \cap bad # {}
  PROVE  Accounted(Fail(refresh, rejected)) /\ Fail(refresh, rejected).phase = refresh.phase
  <1>1. PICK n : n = Fail(refresh, rejected) OBVIOUS
  <1>2. refresh \in Refreshes /\ refresh.failed \in Seq(Parts) BY DEF Accounted, Refreshes
  <1>3. PICK part \in Parts : part = [batch |-> Asked, rejected |-> rejected] BY AskedIs DEF Parts
  <1>4. Append(refresh.failed, part) \in Seq(Parts) BY <1>2
  <1>5. /\ n \in Refreshes /\ n.asks = Tail(refresh.asks) /\ n.failed = Append(refresh.failed, part)
        /\ n.parts = refresh.parts /\ n.refused = refresh.refused
        /\ n.answered = refresh.answered /\ n.unanswered = refresh.unanswered /\ n.phase = refresh.phase
    <2>1. n = [refresh EXCEPT !.asks = Tail(refresh.asks), !.failed = Append(refresh.failed, part),
                              !.page = 1, !.inARow = refresh.inARow + 1, !.error = TRUE]
      BY <1>1, <1>3 DEF Fail
    <2>2. refresh.inARow + 1 \in Nat BY <1>2 DEF Refreshes
    <2>3. Tail(refresh.asks) \in Seq(Batch) BY AskedIs
    <2> QED BY <1>2, <1>4, <2>1, <2>2, <2>3 DEF Refreshes
  <1>6. AddUp(Left(n), n.answered, n.refused, n.unanswered)
    <2>1. AddUp(Left(refresh), refresh.answered, refresh.refused, refresh.unanswered) BY DEF Accounted
    <2>2. part = [batch |-> Head(refresh.asks), rejected |-> rejected] BY <1>3 DEF Asked
    <2> QED BY <1>2, <1>5, <2>1, <2>2, HeadFails
  <1>7. Meets(n.failed)
    <2>1. /\ Len(n.failed) = Len(refresh.failed) + 1 /\ Len(refresh.failed) \in Nat
          /\ n.failed[Len(refresh.failed) + 1] = part
          /\ \A i \in 1 .. Len(refresh.failed) : n.failed[i] = refresh.failed[i]
      BY <1>2, <1>5
    <2>2. \A i \in 1 .. Len(n.failed) : i \in 1 .. Len(refresh.failed) \/ i = Len(refresh.failed) + 1
      BY <2>1
    <2>3. part.rejected => ToSet(part.batch) \cap bad # {} BY <1>3
    <2> QED BY <2>1, <2>2, <2>3 DEF Meets, Accounted
  <1> QED BY <1>1, <1>5, <1>6, <1>7, AskedIs DEF Accounted

-----------------------------------------------------------------------------
\* The rounds of a refresh.

LEMMA Nothing == <<>> \in Seq(Batch) /\ <<>> \in Seq(Parts)
  OBVIOUS

LEMMA GiveUpKeeps ==
  ASSUME Accounted(refresh), GiveUp PROVE Accounted(refresh')
  <1>1. PICK rest : rest = [i \in DOMAIN refresh.asks |-> [batch |-> refresh.asks[i], rejected |-> FALSE]]
    OBVIOUS
  <1>2. PICK n : n = [refresh EXCEPT !.asks = <<>>, !.failed = refresh.failed \o rest] OBVIOUS
  <1>3. refresh' = n BY <1>1, <1>2 DEF GiveUp, Turns
  <1>4. /\ refresh \in Refreshes /\ refresh.asks \in Seq(Batch) /\ refresh.failed \in Seq(Parts)
        /\ refresh.asks # <<>>
    BY DEF Accounted, Refreshes, GiveUp
  <1>5. DOMAIN refresh.asks = 1 .. Len(refresh.asks) /\ Len(refresh.asks) \in Nat
        /\ \A i \in 1 .. Len(refresh.asks) : refresh.asks[i] \in Batch
    BY <1>4
  <1>6. /\ rest \in Seq(Parts) /\ Len(rest) = Len(refresh.asks)
        /\ \A i \in 1 .. Len(refresh.asks) : rest[i].batch = refresh.asks[i] /\ ~rest[i].rejected
    <2>1. \A i \in 1 .. Len(refresh.asks) : [batch |-> refresh.asks[i], rejected |-> FALSE] \in Parts
      BY <1>5 DEF Parts
    <2> QED BY <1>1, <1>5, <2>1
  <1>7. refresh.failed \o rest \in Seq(Parts) BY <1>4, <1>6, ConcatProperties
  <1>8. /\ n \in Refreshes /\ n.asks = <<>> /\ n.failed = refresh.failed \o rest
        /\ n.parts = refresh.parts /\ n.refused = refresh.refused /\ n.phase = refresh.phase
        /\ n.answered = refresh.answered /\ n.unanswered = refresh.unanswered
    <2>1. PICK ps \in Seq(Parts) : ps = refresh.failed \o rest BY <1>7
    <2>2. n = [refresh EXCEPT !.asks = <<>>, !.failed = ps] BY <1>2, <2>1
    <2> QED BY <1>4, <2>1, <2>2, Nothing DEF Refreshes
  <1>9. AddUp(Left(n), n.answered, n.refused, n.unanswered)
    <2>1. AddUp(Left(refresh), refresh.answered, refresh.refused, refresh.unanswered) BY DEF Accounted
    <2> QED BY <1>4, <1>6, <1>8, <2>1, AllFail
  <1>10. Meets(n.failed)
    <2>1. PICK f, a : f = Len(refresh.failed) /\ a = Len(rest) OBVIOUS
    <2>2. Joins(n.failed, refresh.failed, rest, f, a) BY <1>4, <1>6, <1>8, <2>1, Concat
    <2> SUFFICES ASSUME NEW i \in 1 .. Len(n.failed), n.failed[i].rejected
                 PROVE  ToSet(n.failed[i].batch) \cap bad # {}
      BY DEF Meets
    <2>6. f \in Nat /\ a \in Nat BY <1>4, <1>6, <2>1
    <2>7. Len(n.failed) = f + a BY <2>2 DEF Joins
    <2>3. i \in 1 .. f + a BY <2>7
    <2>4. CASE i \in 1 .. f BY <2>1, <2>2, <2>4 DEF Joins, Meets, Accounted
    <2>5. CASE i \notin 1 .. f
      <3>1. PICK j \in 1 .. a : i = f + j
        <4>1. i - f \in 1 .. a /\ i = f + (i - f) BY <2>3, <2>5, <2>6
        <4> QED BY <4>1
      <3> QED BY <1>6, <2>1, <2>2, <3>1 DEF Joins
    <2> QED BY <2>4, <2>5
  <1> QED BY <1>3, <1>4, <1>8, <1>9, <1>10, AskedIs DEF Accounted

LEMMA AskAgainKeeps ==
  ASSUME Accounted(refresh), AskAgain PROVE Accounted(refresh')
  <1>1. PICK n : n = [refresh EXCEPT !.phase = "again", !.failed = <<>>, !.inARow = 0,
                                     !.asks = PartsOf(refresh.failed)]
    OBVIOUS
  <1>2. refresh' = n BY <1>1 DEF AskAgain, Turns, PartsOf
  <1>3. refresh \in Refreshes /\ refresh.failed \in Seq(Parts) /\ refresh.asks = <<>>
    BY DEF Accounted, Refreshes, AskAgain, Over
  <1>4. PartsOf(refresh.failed) \in Seq(Batch) BY <1>3, PartsAre
  <1>5. /\ n \in Refreshes /\ n.asks = PartsOf(refresh.failed) /\ n.failed = <<>>
        /\ n.parts = refresh.parts /\ n.refused = refresh.refused /\ n.phase = "again"
        /\ n.answered = refresh.answered /\ n.unanswered = refresh.unanswered
    <2>1. PICK bs \in Seq(Batch) : bs = PartsOf(refresh.failed) BY <1>4
    <2>2. n = [refresh EXCEPT !.phase = "again", !.failed = <<>>, !.inARow = 0, !.asks = bs] BY <1>1, <2>1
    <2> QED BY <1>3, <2>1, <2>2, Nothing DEF Refreshes
  <1>6. Left(n) = Left(refresh) BY <1>3, <1>5, FailedAreAsked
  <1>7. Meets(<<>>) BY DEF Meets
  <1> QED BY <1>2, <1>5, <1>6, <1>7 DEF Accounted

LEMMA NarrowingKeeps ==
  ASSUME Accounted(refresh), Narrowing PROVE Accounted(refresh')
  <1>1. PICK n : n = [refresh EXCEPT !.phase = "narrow", !.failed = <<>>,
                                     !.parts = refresh.failed \o refresh.parts]
    OBVIOUS
  <1>2. refresh' = n BY <1>1 DEF Narrowing, Turns
  <1>3. /\ refresh \in Refreshes /\ refresh.failed \in Seq(Parts) /\ refresh.parts \in Seq(Parts)
        /\ refresh.asks = <<>>
    BY DEF Accounted, Refreshes, Narrowing, Over
  <1>4. refresh.failed \o refresh.parts \in Seq(Parts) BY <1>3, ConcatProperties
  <1>5. /\ n \in Refreshes /\ n.asks = <<>> /\ n.failed = <<>>
        /\ n.parts = refresh.failed \o refresh.parts /\ n.refused = refresh.refused /\ n.phase = "narrow"
        /\ n.answered = refresh.answered /\ n.unanswered = refresh.unanswered
    <2>1. PICK ps \in Seq(Parts) : ps = refresh.failed \o refresh.parts BY <1>4
    <2>2. n = [refresh EXCEPT !.phase = "narrow", !.failed = <<>>, !.parts = ps] BY <1>1, <2>1
    <2> QED BY <1>3, <2>1, <2>2, Nothing DEF Refreshes
  <1>6. Left(n) = Left(refresh) BY <1>3, <1>5, FailedAreNarrowed
  <1>7. Meets(<<>>) BY DEF Meets
  <1>8. Meets(n.parts)
    <2>1. PICK f, p : f = Len(refresh.failed) /\ p = Len(refresh.parts) OBVIOUS
    <2>2. Joins(n.parts, refresh.failed, refresh.parts, f, p) BY <1>3, <1>5, <2>1, Concat
    <2> SUFFICES ASSUME NEW i \in 1 .. Len(n.parts), n.parts[i].rejected
                 PROVE  ToSet(n.parts[i].batch) \cap bad # {}
      BY DEF Meets
    <2>6. f \in Nat /\ p \in Nat BY <1>3, <2>1
    <2>7. Len(n.parts) = f + p BY <2>2 DEF Joins
    <2>3. i \in 1 .. f + p BY <2>7
    <2>4. CASE i \in 1 .. f BY <2>1, <2>2, <2>4 DEF Joins, Meets, Accounted
    <2>5. CASE i \notin 1 .. f
      <3>1. PICK j \in 1 .. p : i = f + j
        <4>1. i - f \in 1 .. p /\ i = f + (i - f) BY <2>3, <2>5, <2>6
        <4> QED BY <4>1
      <3> QED BY <2>1, <2>2, <3>1 DEF Joins, Meets, Accounted
    <2> QED BY <2>4, <2>5
  <1> QED BY <1>2, <1>5, <1>6, <1>7, <1>8 DEF Accounted

LEMMA FinishKeeps ==
  ASSUME Accounted(refresh), Finish PROVE Accounted(refresh')
  <1>1. PICK n : n = [refresh EXCEPT !.phase = "done"] OBVIOUS
  <1>2. refresh' = n BY <1>1 DEF Finish, Turns
  <1>3. refresh \in Refreshes /\ refresh.asks = <<>> /\ refresh.failed = <<>> /\ refresh.parts = <<>>
    BY DEF Accounted, Finish, Over
  <1>4. /\ n \in Refreshes /\ n.asks = <<>> /\ n.failed = <<>> /\ n.parts = <<>>
        /\ n.refused = refresh.refused /\ n.phase = "done"
        /\ n.answered = refresh.answered /\ n.unanswered = refresh.unanswered
    BY <1>1, <1>3 DEF Refreshes
  <1>5. Left(n) = Left(refresh) BY <1>3, <1>4 DEF Left
  <1>6. Left(n) = <<>> BY <1>4, NoParts DEF Left
  <1> QED BY <1>2, <1>3, <1>4, <1>5, <1>6 DEF Accounted

\* The first part is done with, or in halves; a refused part of one symbol is one that the
\* source refuses.
LEMMA NarrowKeeps ==
  ASSUME Accounted(refresh), Narrow PROVE Accounted(refresh')
  <1>1. PICK part, b : part = Head(refresh.parts) /\ b = part.batch OBVIOUS
  <1>2. PICK rest : rest = Tail(refresh.parts) OBVIOUS
  <1>3. PICK n : n = refresh' OBVIOUS
  <1>4. n = Narrowed([refresh EXCEPT !.parts = rest], part) BY <1>1, <1>2, <1>3 DEF Narrow, Turns
  <1>5. /\ refresh \in Refreshes /\ refresh.parts \in Seq(Parts) /\ refresh.asks = <<>>
        /\ refresh.failed = <<>> /\ refresh.parts # <<>> /\ refresh.phase # "done"
    BY DEF Accounted, Refreshes, Narrow, Over, Resting
  <1>6. /\ rest \in Seq(Parts) /\ part \in Parts /\ part = refresh.parts[1]
        /\ 1 \in 1 .. Len(refresh.parts) /\ Len(rest) = Len(refresh.parts) - 1
        /\ \A i \in 1 .. Len(rest) : rest[i] = refresh.parts[i + 1] /\ i + 1 \in 1 .. Len(refresh.parts)
    BY <1>1, <1>2, <1>5
  <1>7. b \in Batch /\ part.rejected \in BOOLEAN BY <1>1, <1>6 DEF Parts
  <1>8. part.rejected => ToSet(b) \cap bad # {} BY <1>1, <1>6 DEF Accounted, Meets
  <1>9. Meets(rest) BY <1>6 DEF Meets, Accounted
  <1>10. Meets(<<>>) BY DEF Meets
  <1>11. ToSet(b) \subseteq Symbols BY <1>7, SetOf
  <1>12. Len(b) \in Nat BY <1>7 DEF Batch
  <1>13. AddUp(Left(refresh), refresh.answered, refresh.refused, refresh.unanswered) BY DEF Accounted
  <1>14. ASSUME n \in Refreshes, n.asks = <<>>, n.failed = <<>>, n.parts = rest
         PROVE  LET new == ToSet(b)
                IN  /\ AddUp(Left(n), refresh.answered, refresh.refused \cup new, refresh.unanswered)
                    /\ AddUp(Left(n), refresh.answered, refresh.refused, refresh.unanswered \cup new)
    <2>1. Left(n) = Tail(Left(refresh)) /\ Left(refresh) # <<>> /\ Head(Left(refresh)) = b
      BY <1>1, <1>2, <1>5, <1>14, PartIsTaken
    <2>2. PICK t, new : t = Left(n) /\ new = ToSet(b) OBVIOUS
    <2>3. /\ AddUp(t, refresh.answered, refresh.refused \cup new, refresh.unanswered)
          /\ AddUp(t, refresh.answered, refresh.refused, refresh.unanswered \cup new)
      BY <1>13, <2>1, <2>2, HeadEnds
    <2> QED BY <2>2, <2>3
  <1>15. CASE ~part.rejected
    <2>1. n = [refresh EXCEPT !.parts = rest, !.unanswered = refresh.unanswered \cup ToSet(b)]
      BY <1>1, <1>4, <1>15 DEF Narrowed
    <2>2. /\ n \in Refreshes /\ n.asks = <<>> /\ n.failed = <<>> /\ n.parts = rest
          /\ n.answered = refresh.answered /\ n.refused = refresh.refused
          /\ n.unanswered = refresh.unanswered \cup ToSet(b) /\ n.phase = refresh.phase
      BY <1>5, <1>6, <1>11, <2>1 DEF Refreshes
    <2>3. AddUp(Left(n), n.answered, n.refused, n.unanswered) BY <1>14, <2>2
    <2> QED BY <1>3, <1>5, <1>9, <1>10, <2>2, <2>3 DEF Accounted
  <1>16. CASE part.rejected /\ Len(b) = 1
    <2>1. n = [refresh EXCEPT !.parts = rest, !.refused = refresh.refused \cup ToSet(b)]
      BY <1>1, <1>4, <1>16 DEF Narrowed
    <2>2. /\ n \in Refreshes /\ n.asks = <<>> /\ n.failed = <<>> /\ n.parts = rest
          /\ n.answered = refresh.answered /\ n.unanswered = refresh.unanswered
          /\ n.refused = refresh.refused \cup ToSet(b) /\ n.phase = refresh.phase
      BY <1>5, <1>6, <1>11, <2>1 DEF Refreshes
    <2>3. AddUp(Left(n), n.answered, n.refused, n.unanswered) BY <1>14, <2>2
    <2>4. ToSet(b) \subseteq bad
      <3>1. \A s : s \in ToSet(b) <=> \E k \in 1 .. Len(b) : s = b[k] BY <1>7, SetOf
      <3>2. \A k \in 1 .. Len(b) : k = 1 BY <1>16
      <3> QED BY <1>8, <1>16, <3>1, <3>2
    <2> QED BY <1>3, <1>5, <1>9, <1>10, <2>2, <2>3, <2>4 DEF Accounted
  <1>17. CASE part.rejected /\ Len(b) # 1
    <2>1. PICK half \in Nat : half = Len(b) \div 2 /\ half <= Len(b) BY <1>12
    <2>2. PICK bs : bs = <<SubSeq(b, 1, half), SubSeq(b, half + 1, Len(b))>> OBVIOUS
    <2>3. bs = Halves(b) BY <2>1, <2>2 DEF Halves
    <2>4. n = [refresh EXCEPT !.parts = rest, !.asks = bs] BY <1>1, <1>4, <1>17, <2>3 DEF Narrowed
    <2>5. bs \in Seq(Batch)
      <3>1. \A k \in 1 .. Len(b) : b[k] \in Symbols BY <1>7 DEF Batch
      <3>2. \A k \in 1 .. half : b[k] \in Symbols BY <1>12, <2>1, <3>1
      <3>3. \A k \in half + 1 .. Len(b) : b[k] \in Symbols BY <1>12, <2>1, <3>1
      <3>4. SubSeq(b, 1, half) \in Seq(Symbols) BY <2>1, <3>2, SubSeqProperties
      <3>5. half + 1 \in Int /\ Len(b) \in Int BY <1>12, <2>1
      <3>6. SubSeq(b, half + 1, Len(b)) \in Seq(Symbols) BY <3>3, <3>5, SubSeqProperties
      <3> QED BY <2>2, <3>4, <3>6 DEF Batch
    <2>6. /\ n \in Refreshes /\ n.asks = bs /\ n.failed = <<>> /\ n.parts = rest
          /\ n.answered = refresh.answered /\ n.unanswered = refresh.unanswered
          /\ n.refused = refresh.refused /\ n.phase = refresh.phase
      BY <1>5, <1>6, <2>4, <2>5 DEF Refreshes
    <2>7. AddUp(Left(n), n.answered, n.refused, n.unanswered)
      BY <1>1, <1>2, <1>5, <1>13, <2>1, <2>2, <2>6, PartIsSplit
    <2> QED BY <1>3, <1>5, <1>9, <1>10, <2>6, <2>7 DEF Accounted
  <1> QED BY <1>7, <1>15, <1>16, <1>17

-----------------------------------------------------------------------------
\* The batches a refresh begins with.

LEMMA Times ==
  ASSUME NEW a \in Int, NEW b \in Int, NEW c \in Nat, a <= b
  PROVE  a * c <= b * c
  OBVIOUS

LEMMA Quotient ==
  ASSUME NEW a \in Nat, NEW size \in Nat \ {0}
  PROVE  /\ a \div size \in Nat
         /\ (a \div size) * size <= a
         /\ a < ((a \div size) + 1) * size
  OBVIOUS

\* The stocks from one to another.
Stretch(x, lo, hi) ==
    /\ x \in Batch /\ IsInjective(x)
    /\ Len(x) = IF lo <= hi THEN hi - lo + 1 ELSE 0
    /\ \A s : s \in ToSet(x) <=> \E m \in lo .. hi : s = Stocks[m]

LEMMA StocksFromTo ==
  ASSUME NEW lo \in Nat \ {0}, NEW hi \in Nat, hi <= Len(Stocks), NEW x, x = SubSeq(Stocks, lo, hi)
  PROVE  Stretch(x, lo, hi)
  <1>1. Stocks \in Seq(Symbols) /\ IsInjective(Stocks) BY SourceRequestsAssumption DEF Symbols
  <1>2. Len(Stocks) \in Nat /\ DOMAIN Stocks = 1 .. Len(Stocks)
        /\ \A m \in 1 .. Len(Stocks) : Stocks[m] \in Symbols
    BY <1>1
  <1>3. \A m \in lo .. hi : m \in 1 .. Len(Stocks) BY <1>2
  <1>4. /\ x \in Seq(Symbols) /\ Len(x) = IF lo <= hi THEN hi - lo + 1 ELSE 0
        /\ \A k \in 1 .. hi - lo + 1 : x[k] = Stocks[lo + k - 1]
    <2>1. lo \in Int /\ hi \in Int /\ \A m \in lo .. hi : Stocks[m] \in Symbols BY <1>2, <1>3
    <2>2. /\ SubSeq(Stocks, lo, hi) \in Seq(Symbols)
          /\ Len(SubSeq(Stocks, lo, hi)) = IF lo <= hi THEN hi - lo + 1 ELSE 0
          /\ \A k \in 1 .. hi - lo + 1 : SubSeq(Stocks, lo, hi)[k] = Stocks[lo + k - 1]
      BY <2>1, SubSeqProperties
    <2> QED BY <2>2
  <1>5. DOMAIN x = 1 .. Len(x) /\ Len(x) \in Nat BY <1>4
  <1>6. ASSUME NEW k \in 1 .. Len(x) PROVE lo + k - 1 \in lo .. hi /\ x[k] = Stocks[lo + k - 1]
    <2>1. k \in 1 .. hi - lo + 1 BY <1>4
    <2>2. lo + k - 1 \in lo .. hi BY <2>1
    <2> QED BY <1>4, <2>1, <2>2
  <1>7. IsInjective(x)
    <2> SUFFICES ASSUME NEW k \in 1 .. Len(x), NEW l \in 1 .. Len(x), x[k] = x[l] PROVE k = l
      BY <1>5 DEF IsInjective
    <2>1. Stocks[lo + k - 1] = Stocks[lo + l - 1] /\ lo + k - 1 \in DOMAIN Stocks /\ lo + l - 1 \in DOMAIN Stocks
      BY <1>2, <1>3, <1>6
    <2>2. lo + k - 1 = lo + l - 1 BY <1>1, <2>1 DEF IsInjective
    <2> QED BY <1>5, <2>2
  <1>8. ASSUME NEW s PROVE s \in ToSet(x) <=> \E m \in lo .. hi : s = Stocks[m]
    <2>1. s \in ToSet(x) <=> \E k \in 1 .. Len(x) : s = x[k] BY <1>4, SetOf DEF Batch
    <2>2. ASSUME NEW m \in lo .. hi PROVE \E k \in 1 .. Len(x) : x[k] = Stocks[m]
      <3>1. PICK k \in 1 .. hi - lo + 1 : lo + k - 1 = m
        <4>1. m - lo + 1 \in 1 .. hi - lo + 1 /\ lo + (m - lo + 1) - 1 = m OBVIOUS
        <4> QED BY <4>1
      <3>2. k \in 1 .. Len(x) BY <1>4
      <3> QED BY <1>4, <3>1, <3>2
    <2> QED BY <1>6, <2>1, <2>2
  <1> QED BY <1>4, <1>7, <1>8 DEF Batch, Stretch

\* Batches of a size cut the stocks into stretches that lie behind each other.
LEMMA BatchesAre ==
  ASSUME NEW size \in Nat \ {0}
  PROVE  /\ Batches(size) \in Seq(Batch)
         /\ \A i \in 1 .. Len(Batches(size)) :
                IsInjective(Batches(size)[i]) /\ Len(Batches(size)[i]) <= size
         /\ \A i, j \in 1 .. Len(Batches(size)) :
                i # j => ToSet(Batches(size)[i]) \cap ToSet(Batches(size)[j]) = {}
         /\ \A s \in Symbols : s \in Sequences(Batches(size))
  <1>1. PICK bs : bs = Batches(size) OBVIOUS
  <1>2. Stocks \in Seq(Symbols) /\ IsInjective(Stocks) BY SourceRequestsAssumption DEF Symbols
  <1>3. PICK L \in Nat : L = Len(Stocks) BY <1>2
  <1>4. PICK n \in Nat : n = (L + size - 1) \div size
    <2>1. L + size - 1 \in Nat OBVIOUS
    <2> QED BY <2>1, Quotient
  <1>5. \A i \in 1 .. n : (i - 1) * size + 1 \in Nat \ {0} /\ i * size \in Nat
    <2> TAKE i \in 1 .. n
    <2>1. i - 1 \in Nat /\ i \in Nat OBVIOUS
    <2>2. \A k \in Nat : k * size \in Nat OBVIOUS
    <2> QED BY <2>1, <2>2
  <1> DEFINE lo(i) == (i - 1) * size + 1
             hi(i) == IF i * size < L THEN i * size ELSE L
  <1>6. bs = [i \in 1 .. n |-> SubSeq(Stocks, lo(i), hi(i))] BY <1>1, <1>3, <1>4 DEF Batches
  <1>7. \A i \in 1 .. n : lo(i) \in Nat \ {0} /\ hi(i) \in Nat /\ hi(i) <= L /\ hi(i) <= i * size BY <1>5
  <1>8. \A i \in 1 .. n : hi(i) - lo(i) + 1 <= size
    <2> TAKE i \in 1 .. n
    <2>1. i * size = (i - 1) * size + size OBVIOUS
    <2> QED BY <1>5, <1>7, <2>1
  <1>9. \A i, j \in 1 .. n : i < j => hi(i) < lo(j)
    <2> SUFFICES ASSUME NEW i \in 1 .. n, NEW j \in 1 .. n, i < j PROVE hi(i) < lo(j) OBVIOUS
    <2>1. i \in Int /\ j - 1 \in Int /\ i <= j - 1 /\ size \in Nat OBVIOUS
    <2>2. i * size <= (j - 1) * size BY <2>1, Times
    <2> QED BY <1>5, <1>7, <2>2
  <1>10. \A m \in 1 .. L : \E i \in 1 .. n : m \in lo(i) .. hi(i)
    <2> TAKE m \in 1 .. L
    <2>1. PICK q \in Nat : q * size <= m - 1 /\ m - 1 < (q + 1) * size
      <3>1. m - 1 \in Nat OBVIOUS
      <3> QED BY <3>1, Quotient
    <2>2. L + size - 1 \in Nat /\ L + size - 1 < (n + 1) * size
      <3>1. L + size - 1 \in Nat OBVIOUS
      <3> QED BY <1>4, <3>1, Quotient
    <2>3. q + 1 <= n
      <3> SUFFICES ASSUME n + 1 <= q + 1 PROVE FALSE OBVIOUS
      <3>1. n + 1 \in Int /\ q + 1 \in Int /\ size \in Nat OBVIOUS
      <3>2. (n + 1) * size <= (q + 1) * size BY <3>1, Times
      <3>3. (q + 1) * size = q * size + size OBVIOUS
      <3>4. (n + 1) * size \in Int /\ q * size \in Int OBVIOUS
      <3> QED BY <2>1, <2>2, <3>2, <3>3, <3>4
    <2>4. q + 1 \in 1 .. n /\ q + 1 - 1 = q BY <2>3
    <2>5. lo(q + 1) <= m
      <3>1. q * size \in Int OBVIOUS
      <3> QED BY <2>1, <2>4, <3>1
    <2>6. m <= hi(q + 1)
      <3>1. (q + 1) * size \in Int OBVIOUS
      <3> QED BY <2>1, <3>1
    <2> HIDE DEF lo, hi
    <2>7. PICK i \in 1 .. n : i = q + 1 BY <2>4
    <2>8. lo(i) \in Int /\ hi(i) \in Int /\ lo(i) <= m /\ m <= hi(i) BY <1>7, <2>5, <2>6, <2>7
    <2>9. m \in lo(i) .. hi(i) BY <2>8
    <2> QED BY <2>9
  <1> HIDE DEF lo, hi
  <1>11. ASSUME NEW i \in 1 .. n
         PROVE  /\ bs[i] \in Batch /\ IsInjective(bs[i]) /\ Len(bs[i]) <= size
                /\ \A s : s \in ToSet(bs[i]) <=> \E m \in lo(i) .. hi(i) : s = Stocks[m]
    <2>1. PICK a \in Nat \ {0}, c \in Nat : a = lo(i) /\ c = hi(i) BY <1>7
    <2>2. PICK x : x = SubSeq(Stocks, a, c) OBVIOUS
    <2>3. c <= Len(Stocks) BY <1>3, <1>7, <2>1
    <2>4. /\ x \in Batch /\ IsInjective(x)
          /\ Len(x) = IF a <= c THEN c - a + 1 ELSE 0
          /\ \A s : s \in ToSet(x) <=> \E m \in a .. c : s = Stocks[m]
      <3>1. Stretch(x, a, c) BY <2>2, <2>3, StocksFromTo
      <3> QED BY <3>1 DEF Stretch
    <2>5. c - a + 1 <= size BY <1>8, <2>1
    <2>6. Len(x) <= size BY <2>4, <2>5
    <2>7. bs[i] = x BY <1>6, <2>1, <2>2
    <2> QED BY <2>1, <2>4, <2>6, <2>7
  <1>12. bs \in Seq(Batch) /\ Len(bs) = n
    <2>1. \A i \in 1 .. n : SubSeq(Stocks, lo(i), hi(i)) \in Batch BY <1>6, <1>11
    <2> QED BY <1>6, <2>1
  <1>13. \A i, j \in 1 .. n : i # j => ToSet(bs[i]) \cap ToSet(bs[j]) = {}
    <2> SUFFICES ASSUME NEW i \in 1 .. n, NEW j \in 1 .. n, i # j,
                        NEW s, s \in ToSet(bs[i]), s \in ToSet(bs[j])
                 PROVE  FALSE
      OBVIOUS
    <2>1. PICK k \in lo(i) .. hi(i) : s = Stocks[k] BY <1>11
    <2>2. PICK l \in lo(j) .. hi(j) : s = Stocks[l] BY <1>11
    <2>3. k \in 1 .. L /\ l \in 1 .. L BY <1>7, <2>1, <2>2
    <2>6. DOMAIN Stocks = 1 .. L /\ Stocks[k] = Stocks[l] BY <1>2, <1>3, <2>1, <2>2
    <2>4. k = l BY <1>2, <2>3, <2>6 DEF IsInjective
    <2>5. (i < j /\ hi(i) < lo(j)) \/ (j < i /\ hi(j) < lo(i)) BY <1>9
    <2> QED BY <1>7, <2>1, <2>2, <2>4, <2>5
  <1>14. ASSUME NEW s \in Symbols PROVE s \in Sequences(bs)
    <2>1. PICK m \in 1 .. L : s = Stocks[m] BY <1>2, <1>3 DEF Symbols, ToSet
    <2>2. PICK i \in 1 .. n : m \in lo(i) .. hi(i) BY <1>10
    <2>3. s \in ToSet(bs[i]) BY <1>11, <2>1, <2>2
    <2> QED BY <1>12, <2>3, InSequences
  <1> QED BY <1>1, <1>11, <1>12, <1>13, <1>14

Places == {"idle", "turn", "turn later", "spend", "spend later", "spend again", "sent", "backoff", "done"}

\* The refresh asks only while there is something to ask for.
RefreshInv ==
    /\ source \in {"alpaca", "binance"} /\ bad \subseteq Symbols
    /\ at \in [Callers -> Places]
    /\ at["refresh"] # "idle" => refresh.asks # <<>>
    /\ Accounted(refresh)

LEMMA AccountedInit ==
  ASSUME Init PROVE RefreshInv
  <1>1. PICK size \in Nat \ {0} : size = IF source = "alpaca" THEN BatchSize ELSE 1
    BY SourceRequestsAssumption
  <1>2. PICK bs : bs = Batches(size) OBVIOUS
  <1>3. /\ bs \in Seq(Batch)
        /\ \A i \in 1 .. Len(bs) : IsInjective(bs[i]) /\ Len(bs[i]) <= size
        /\ \A i, j \in 1 .. Len(bs) : i # j => ToSet(bs[i]) \cap ToSet(bs[j]) = {}
        /\ \A s \in Symbols : s \in Sequences(bs)
    BY <1>2, BatchesAre
  <1>4. source \in {"alpaca", "binance"} /\ (source = "binance" => size = 1) BY <1>1 DEF Init
  <1>5. \A i \in 1 .. Len(bs) : Fits(bs[i]) BY <1>3, <1>4 DEF Fits
  <1>6. AddUp(bs, {}, {}, {}) BY <1>3, <1>5 DEF AddUp
  <1>7. refresh = [phase |-> "first", asks |-> bs, failed |-> <<>>, parts |-> <<>>, page |-> 1,
                   inARow |-> 0, error |-> FALSE, answered |-> {}, refused |-> {}, unanswered |-> {}]
    BY <1>1, <1>2 DEF Init
  <1>8. refresh \in Refreshes BY <1>3, <1>7, Nothing DEF Refreshes
  <1>9. Left(refresh) = bs
    <2>1. Left(refresh) = bs \o <<>> \o <<>> BY <1>7, NoParts DEF Left
    <2>2. bs \o <<>> = bs BY <1>3, ConcatEmptySeq
    <2> QED BY <2>1, <2>2
  <1>10. Meets(<<>>) BY DEF Meets
  <1>11. Accounted(refresh) BY <1>6, <1>7, <1>8, <1>9, <1>10 DEF Accounted
  <1>12. at \in [Callers -> Places] /\ at["refresh"] = "idle" BY DEF Init, Callers, Places
  <1>13. bad \subseteq Symbols BY SourceRequestsAssumption DEF Init, Symbols
  <1> QED BY <1>4, <1>11, <1>12, <1>13 DEF RefreshInv

\* It is the same for a source that refuses the same.
LEMMA AccountedNext ==
  ASSUME Accounted(refresh'), UNCHANGED <<source, bad>> PROVE Accounted(refresh)'
  BY DEF Accounted, AddUp, Meets, Fits

\* How the call of a caller goes on: the refresh stays, or it asks for a page more, or its
\* call ended.
EndsWell(how) ==
    /\ how = "answered" => ToSet(Asked) \cap bad = {}
    /\ how = "rejected" => ToSet(Asked) \cap bad # {}

GoesOn ==
    /\ UNCHANGED <<source, bad>> /\ at' \in [Callers -> Places]
    /\ \/ refresh' = refresh /\ (at'["refresh"] = "idle" \/ at["refresh"] # "idle")
       \/ refresh' = [refresh EXCEPT !.page = @ + 1] /\ at["refresh"] # "idle"
       \/ /\ at["refresh"] # "idle" /\ at'["refresh"] = "idle"
          /\ \E how \in {"answered", "rejected", "retry later", "failed"} :
                 EndsWell(how) /\ refresh' = Took(how)

LEMMA GoesOnKeeps ==
  ASSUME RefreshInv, GoesOn PROVE RefreshInv'
  <1>1. Accounted(refresh) /\ source' = source /\ bad' = bad /\ at' \in [Callers -> Places]
    BY DEF RefreshInv, GoesOn
  <1>2. CASE refresh' = refresh /\ (at'["refresh"] = "idle" \/ at["refresh"] # "idle")
    <2>1. Accounted(refresh)' BY <1>1, <1>2, AccountedNext
    <2> QED BY <1>1, <1>2, <2>1 DEF RefreshInv
  <1>3. CASE refresh' = [refresh EXCEPT !.page = @ + 1] /\ at["refresh"] # "idle"
    <2>1. PICK n : n = refresh' OBVIOUS
    <2>2. refresh \in Refreshes BY <1>1 DEF Accounted
    <2>3. /\ n \in Refreshes /\ n.asks = refresh.asks /\ n.failed = refresh.failed
          /\ n.parts = refresh.parts /\ n.refused = refresh.refused /\ n.phase = refresh.phase
          /\ n.answered = refresh.answered /\ n.unanswered = refresh.unanswered
      <3>1. refresh.page + 1 \in Nat BY <2>2 DEF Refreshes
      <3> QED BY <1>3, <2>1, <2>2, <3>1 DEF Refreshes
    <2>4. Left(n) = Left(refresh) BY <2>3 DEF Left
    <2>5. Accounted(n) BY <1>1, <2>3, <2>4 DEF Accounted
    <2>6. Accounted(refresh)' BY <1>1, <2>1, <2>5, AccountedNext
    <2> QED BY <1>1, <1>3, <2>1, <2>3, <2>6 DEF RefreshInv
  <1>4. ASSUME NEW how \in {"answered", "rejected", "retry later", "failed"}, EndsWell(how),
               refresh' = Took(how), at["refresh"] # "idle", at'["refresh"] = "idle"
        PROVE  RefreshInv'
    <2>1. refresh.asks # <<>> BY <1>4 DEF RefreshInv
    <2>2. Accounted(refresh')
      <3>1. CASE how = "answered"
        <4>1. refresh' = Answer(refresh) BY <1>4, <3>1 DEF Took
        <4>2. Accounted(Answer(refresh)) BY <1>1, <1>4, <2>1, <3>1, AnswerKeeps DEF EndsWell
        <4> QED BY <4>1, <4>2
      <3>2. CASE how = "rejected" /\ source = "binance"
        <4>1. refresh' = RefusePair(refresh) BY <1>4, <3>2 DEF Took
        <4>2. Accounted(RefusePair(refresh)) BY <1>1, <1>4, <2>1, <3>2, RefusePairKeeps DEF EndsWell
        <4> QED BY <4>1, <4>2
      <3>3. CASE how # "answered" /\ ~(how = "rejected" /\ source = "binance")
        <4>1. PICK rejected \in BOOLEAN : rejected <=> how = "rejected" OBVIOUS
        <4>2. refresh' = Fail(refresh, rejected)
          <5>1. refresh' = Fail(refresh, how = "rejected") BY <1>4, <3>3 DEF Took
          <5>2. rejected = (how = "rejected") BY <4>1
          <5> QED BY <5>1, <5>2
        <4>3. Accounted(Fail(refresh, rejected)) BY <1>1, <1>4, <2>1, <4>1, FailKeeps DEF EndsWell
        <4> QED BY <4>2, <4>3
      <3> QED BY <3>1, <3>2, <3>3
    <2>3. Accounted(refresh)' BY <1>1, <2>2, AccountedNext
    <2> QED BY <1>1, <1>4, <2>3 DEF RefreshInv
  <1> QED BY <1>2, <1>3, <1>4 DEF GoesOn

LEMMA EndsGoesOn ==
  ASSUME RefreshInv, NEW c \in Callers, NEW how \in {"answered", "rejected", "retry later", "failed"},
         Ends(c, how), c = "refresh" => at[c] # "idle" /\ EndsWell(how), UNCHANGED <<source, bad>>
  PROVE  GoesOn
  <1>1. at \in [Callers -> Places] /\ "refresh" \in Callers BY DEF RefreshInv, Callers
  <1>2. at' = [at EXCEPT ![c] = IF c = "refresh" THEN "idle" ELSE "done"] BY DEF Ends
  <1>3. at' \in [Callers -> Places] BY <1>1, <1>2 DEF Places
  <1>4. CASE c = "refresh"
    <2>1. at'["refresh"] = "idle" /\ refresh' = Took(how) BY <1>1, <1>2, <1>4 DEF Ends
    <2> QED BY <1>3, <1>4, <2>1 DEF GoesOn
  <1>5. CASE c # "refresh"
    <2>1. at'["refresh"] = at["refresh"] /\ refresh' = refresh BY <1>1, <1>2, <1>5 DEF Ends
    <2> QED BY <1>3, <2>1 DEF GoesOn
  <1> QED BY <1>4, <1>5

\* A caller elsewhere, the refresh as it was.
LEMMA MovesOn ==
  ASSUME RefreshInv, NEW c \in Callers, NEW place \in Places, at' = [at EXCEPT ![c] = place],
         c = "refresh" => at[c] # "idle", refresh' = refresh, UNCHANGED <<source, bad>>
  PROVE  GoesOn
  <1>1. at \in [Callers -> Places] /\ "refresh" \in Callers BY DEF RefreshInv, Callers
  <1>2. at' \in [Callers -> Places] BY <1>1
  <1>3. at'["refresh"] = "idle" \/ at["refresh"] # "idle" BY <1>1
  <1> QED BY <1>2, <1>3 DEF GoesOn

LEMMA RequestGoesOn ==
  ASSUME RefreshInv, NEW c \in Callers, Request(c), c = "refresh" => at[c] # "idle",
         UNCHANGED <<source, bad>>
  PROVE  GoesOn
  <1>1. CASE source = "binance" /\ paused
    <2>1. Ends(c, "retry later") BY <1>1 DEF Request
    <2> QED BY <2>1, EndsGoesOn DEF EndsWell
  <1>2. CASE ~(source = "binance" /\ paused)
    <2>1. at' = [at EXCEPT ![c] = "spend"] /\ refresh' = refresh BY <1>2 DEF Request, Goto
    <2> QED BY <2>1, MovesOn DEF Places
  <1> QED BY <1>1, <1>2

LEMMA PassesGoesOn ==
  ASSUME RefreshInv, NEW c \in Callers, Passes(c), Hitting(c), UNCHANGED <<source, bad>>
  PROVE  GoesOn
  <1>1. at[c] # "idle" BY DEF Hitting
  <1>2. CASE at[c] = "turn" BY <1>1, <1>2, RequestGoesOn DEF Passes
  <1>3. CASE at[c] # "turn"
    <2>1. at' = [at EXCEPT ![c] = "sent"] /\ refresh' = refresh BY <1>3 DEF Passes, Send
    <2> QED BY <1>1, <2>1, MovesOn DEF Places
  <1> QED BY <1>2, <1>3

LEMMA WaitsGoesOn ==
  ASSUME RefreshInv, NEW c \in Callers, Waits(c), Hitting(c), UNCHANGED <<source, bad>>
  PROVE  GoesOn
  <1>1. at[c] # "idle" BY DEF Hitting
  <1>2. ASSUME at' = [at EXCEPT ![c] = IF @ = "turn" THEN "turn later" ELSE "spend later"],
               refresh' = refresh
        PROVE  GoesOn
    <2>1. PICK place \in Places : place = IF at[c] = "turn" THEN "turn later" ELSE "spend later"
      BY DEF Places
    <2>2. at' = [at EXCEPT ![c] = place] BY <1>2, <2>1
    <2> QED BY <1>1, <1>2, <2>2, MovesOn
  <1>3. CASE Ends(c, "retry later") BY <1>1, <1>3, EndsGoesOn DEF EndsWell
  <1> QED BY <1>2, <1>3 DEF Waits

LEMMA AnsweredGoesOn ==
  ASSUME RefreshInv, NEW c \in Callers, Answered(c) PROVE GoesOn
  <1>1. at[c] = "sent" /\ source' = source /\ bad' = bad BY DEF Answered
  <1>2. PICK status \in Statuses(c) :
           Ends(c, Outcome(status)) \/ (c = "refresh" /\ status = "ok" /\ NextPage)
    BY DEF Answered
  <1>3. CASE Ends(c, Outcome(status))
    <2>1. Outcome(status) \in {"answered", "rejected", "retry later", "failed"} BY DEF Outcome
    <2>2. ASSUME c = "refresh" PROVE EndsWell(Outcome(status))
      <3>1. status = "ok" => ToSet(Asked) \cap bad = {} BY <2>2 DEF Statuses
      <3>2. status = "rejected" => ToSet(Asked) \cap bad # {} BY <2>2 DEF Statuses
      <3>3. /\ Outcome(status) = "answered" => status = "ok"
            /\ Outcome(status) = "rejected" => status = "rejected"
        BY DEF Outcome
      <3> QED BY <3>1, <3>2, <3>3 DEF EndsWell
    <2> QED BY <1>1, <1>3, <2>1, <2>2, EndsGoesOn
  <1>4. CASE c = "refresh" /\ NextPage
    <2>1. at' = [at EXCEPT !["refresh"] = "turn"] /\ refresh' = [refresh EXCEPT !.page = @ + 1]
      BY <1>4 DEF NextPage
    <2>2. at' \in [Callers -> Places] BY <2>1 DEF RefreshInv, Places
    <2> QED BY <1>1, <1>4, <2>1, <2>2 DEF GoesOn
  <1> QED BY <1>2, <1>3, <1>4

LEMMA StepGoesOn ==
  ASSUME RefreshInv, NEW c \in Callers, Step(c) PROVE GoesOn
  <1>1. at \in [Callers -> Places] BY DEF RefreshInv
  <1>2. CASE Begin(c)
    <2>1. c # "refresh" BY <1>2, SourceRequestsAssumption DEF Begin
    <2> QED BY <1>2, <2>1, RequestGoesOn DEF Begin
  <1>3. CASE ReadClock(c) BY <1>1, <1>3 DEF ReadClock, Hitting, GoesOn
  <1>4. CASE HitUncounted(c) BY <1>4, PassesGoesOn DEF HitUncounted
  <1>5. CASE Count(c)
    <2>1. Passes(c) \/ Waits(c) BY <1>5 DEF Count
    <2> QED BY <1>5, <2>1, PassesGoesOn, WaitsGoesOn DEF Count
  <1>6. CASE HitFails(c) BY <1>6, PassesGoesOn DEF HitFails
  <1>7. CASE Woken(c)
    <2>1. PICK place \in Places : place = IF at[c] = "turn later" THEN "turn" ELSE "spend again"
      BY DEF Places
    <2>2. at' = [at EXCEPT ![c] = place] /\ refresh' = refresh BY <1>7, <2>1 DEF Woken, Goto
    <2> QED BY <1>7, <2>2, MovesOn DEF Woken
  <1>8. CASE Resent(c) BY <1>8, MovesOn DEF Resent, Places
  <1>9. CASE BackedOff(c) BY <1>9, MovesOn DEF BackedOff, Places
  <1>10. CASE Answered(c) BY <1>10, AnsweredGoesOn
  <1> QED BY <1>2, <1>3, <1>4, <1>5, <1>6, <1>7, <1>8, <1>9, <1>10 DEF Step

LEMMA RoundKeeps ==
  ASSUME RefreshInv, Rounds PROVE RefreshInv'
  <1>1. Accounted(refresh) BY DEF RefreshInv
  <1>2. CASE Ask
    <2>1. at' = [at EXCEPT !["refresh"] = "turn"] /\ refresh' = refresh /\ source' = source /\ bad' = bad
          /\ refresh.asks # <<>>
      BY <1>2 DEF Ask, Goto
    <2>2. at' \in [Callers -> Places] BY <2>1 DEF RefreshInv, Places
    <2>3. Accounted(refresh)' BY <1>1, <2>1, AccountedNext
    <2> QED BY <2>1, <2>2, <2>3 DEF RefreshInv
  <1>3. ASSUME Accounted(refresh'), UNCHANGED <<source, bad, at>>, at["refresh"] = "idle"
        PROVE  RefreshInv'
    BY <1>3, AccountedNext DEF RefreshInv
  <1>4. CASE GiveUp BY <1>1, <1>3, <1>4, GiveUpKeeps DEF GiveUp, Turns, Resting, callers
  <1>5. CASE AskAgain BY <1>1, <1>3, <1>5, AskAgainKeeps DEF AskAgain, Turns, Over, Resting, callers
  <1>6. CASE Narrowing BY <1>1, <1>3, <1>6, NarrowingKeeps DEF Narrowing, Turns, Over, Resting, callers
  <1>7. CASE Narrow BY <1>1, <1>3, <1>7, NarrowKeeps DEF Narrow, Turns, Over, Resting, callers
  <1>8. CASE Finish BY <1>1, <1>3, <1>8, FinishKeeps DEF Finish, Turns, Over, Resting, callers
  <1> QED BY <1>2, <1>4, <1>5, <1>6, <1>7, <1>8 DEF Rounds

LEMMA RefreshStep == RefreshInv /\ [Next]_vars => RefreshInv'
  <1> SUFFICES ASSUME RefreshInv, [Next]_vars PROVE RefreshInv' OBVIOUS
  <1>1. ASSUME UNCHANGED <<source, bad, at, refresh>> PROVE RefreshInv'
    BY <1>1, AccountedNext DEF RefreshInv
  <1>2. CASE \E c \in Callers : Step(c) BY <1>2, StepGoesOn, GoesOnKeeps
  <1>3. CASE Rounds BY <1>3, RoundKeeps
  <1>4. CASE WindowTurns BY <1>1, <1>4 DEF WindowTurns
  <1>5. CASE RedisAsked BY <1>1, <1>5 DEF RedisAsked, callers
  <1>6. CASE PauseOver BY <1>1, <1>6 DEF PauseOver, callers
  <1>7. CASE UNCHANGED vars BY <1>1, <1>7 DEF vars
  <1>8. CASE \E k \in Keys : CounterExpires(k) BY <1>1, <1>8 DEF CounterExpires, callers
  <1> QED BY <1>2, <1>3, <1>4, <1>5, <1>6, <1>7, <1>8 DEF Next, Goes

LEMMA RefreshAddsUp == ASSUME RefreshInv PROVE StocksAreAccountedFor
  <1>1. Accounted(refresh) BY DEF RefreshInv
  <1>2. PICK left, answered, refused, unanswered :
           /\ left = Left(refresh) /\ answered = refresh.answered
           /\ refused = refresh.refused /\ unanswered = refresh.unanswered
    OBVIOUS
  <1>3. AddUp(left, answered, refused, unanswered) BY <1>1, <1>2 DEF Accounted
  <1>4. left \in Seq(Batch) /\ DOMAIN left = 1 .. Len(left) BY <1>3 DEF AddUp
  <1>5. PICK held : held = Sequences(left) OBVIOUS
  <1>6. held \subseteq Symbols
    <2> SUFFICES ASSUME NEW s \in held PROVE s \in Symbols OBVIOUS
    <2>1. PICK i \in 1 .. Len(left) : s \in ToSet(left[i]) BY <1>4, <1>5, InSequences
    <2>2. left[i] \in Batch BY <1>4
    <2> QED BY <2>1, <2>2, SetOf
  <1>7. PICK outcomes : outcomes = <<held, answered, refused, unanswered>> OBVIOUS
  <1>8. outcomes = Outcomes(refresh) BY <1>2, <1>5, <1>7 DEF Outcomes
  <1>9. /\ outcomes[1] = held /\ outcomes[2] = answered /\ outcomes[3] = refused
        /\ outcomes[4] = unanswered /\ DOMAIN outcomes = 1 .. 4
    BY <1>7
  <1>10. UNION ToSet(outcomes) = Symbols
    <2>1. ToSet(outcomes) = {held, answered, refused, unanswered}
      <3>1. \A x : x \in ToSet(outcomes) <=> \E i \in 1 .. 4 : x = outcomes[i] BY <1>9 DEF ToSet
      <3>2. \A i \in 1 .. 4 : i = 1 \/ i = 2 \/ i = 3 \/ i = 4 OBVIOUS
      <3> QED BY <1>9, <3>1, <3>2
    <2>2. \A s \in Symbols : s \in held \/ s \in answered \/ s \in refused \/ s \in unanswered
      BY <1>3, <1>5 DEF AddUp
    <2>3. answered \subseteq Symbols /\ refused \subseteq Symbols /\ unanswered \subseteq Symbols
      BY <1>3 DEF AddUp
    <2> QED BY <1>6, <2>1, <2>2, <2>3
  <1>11. \A i, j \in 1 .. 4 : i # j => outcomes[i] \cap outcomes[j] = {}
    <2>1. /\ held \cap answered = {} /\ held \cap refused = {} /\ held \cap unanswered = {}
          /\ answered \cap refused = {} /\ answered \cap unanswered = {} /\ refused \cap unanswered = {}
      BY <1>3, <1>5 DEF AddUp
    <2>2. \A i \in 1 .. 4 : i = 1 \/ i = 2 \/ i = 3 \/ i = 4 OBVIOUS
    <2> TAKE i, j \in 1 .. 4
    <2> QED BY <1>9, <2>1, <2>2
  <1>12. /\ \A i \in 1 .. Len(left) : IsInjective(left[i])
         /\ \A i, j \in 1 .. Len(left) : i # j => ToSet(left[i]) \cap ToSet(left[j]) = {}
    BY <1>3 DEF AddUp, Fits
  <1>13. BatchesAddUp BY <1>1, <1>2, <1>4, <1>8, <1>10, <1>11, <1>12 DEF BatchesAddUp, Accounted
  <1>14. OnlyTheBadAreRefused BY <1>1 DEF OnlyTheBadAreRefused, Accounted
  <1> QED BY <1>13, <1>14 DEF StocksAreAccountedFor

\* However its requests end, a refresh accounts for its stocks: each is asked for in one
\* batch at a time until it is answered, refused or given up, and none is refused for
\* another (alpaca.py, _in_batches and _narrow; binance.py, _daily_round).
THEOREM RefreshesAccount == Spec => []StocksAreAccountedFor
  <1>1. Init => RefreshInv BY AccountedInit
  <1>2. RefreshInv => StocksAreAccountedFor BY RefreshAddsUp
  <1> QED BY <1>1, <1>2, RefreshStep, PTL DEF Spec

-----------------------------------------------------------------------------
(***************************************************************************)
(* The candles of the chart.                                               *)
(***************************************************************************)
PageRecords == [start : Int, end : Int, t : SUBSET Int]
Queries == [end : Int \cup {Null}, page : PageRecords \cup {Null}, fetching : BOOLEAN,
            error : {Null, "failed", "refused"}]

\* A page as the service answers it.
IsPage(page) ==
    /\ page \in PageRecords
    /\ First <= page.start /\ page.start <= page.end
    /\ page.t = {x \in traded : page.start <= x /\ x < page.end}

\* A latest page.
IsLatest(page) == IsPage(page) /\ page.start = Max({First, page.end - PageSize})

\* A query for a period that ends at a known candle is asked for or failed until its
\* page is there.
Waiting(query) == query.page = Null => query.fetching \/ query.error # Null
IsQuery(query) ==
    /\ query \in Queries /\ query.end \in Int /\ First <= query.end
    /\ Waiting(query)
    /\ query.page # Null => /\ IsPage(query.page) /\ query.page.end = query.end
                            /\ ~query.fetching /\ query.error = Null

LatestIs(query) ==
    /\ query \in Queries /\ Waiting(query)
    /\ query.page # Null => IsLatest(query.page) /\ query.page.end <= now
BridgeQuery(query) == query.end = Null => query = NoBridge
BridgeIs(query) == query = NoBridge \/ IsQuery(query)

\* How far down the older pages go.
Reach(pages) == IF Last(pages).page = Null THEN Last(pages).end ELSE Last(pages).page.start
Candles(pages) == UNION {pages[i].page.t : i \in {j \in DOMAIN pages : pages[j].page # Null}}

\* The older pages hang below each other, and all but the last one are there.
OlderIs(pages) ==
    /\ pages \in Seq(Queries)
    /\ \A i \in 1..Len(pages) : IsQuery(pages[i])
    /\ \A i \in 1..Len(pages) - 1 : pages[i].page # Null /\ pages[i + 1].end = pages[i].page.start
    /\ pages # <<>> =>
           /\ Reach(pages) <= Anchor(pages)
           /\ Candles(pages) = {x \in traded : Reach(pages) <= x /\ x < Anchor(pages)}

\* What is shown reaches from the anchor to the end of a latest page.
ShownAbove(frame, page, anchor) ==
    /\ page # Null /\ frame.latest # Null
    /\ IsLatest(frame.latest) /\ frame.latest.end <= page.end
    /\ anchor <= frame.latest.start
    /\ IF frame.bridge = Null THEN frame.latest.start <= anchor
       ELSE /\ IsPage(frame.bridge) /\ frame.bridge.end = frame.latest.start
            /\ frame.bridge.start <= anchor
ShownIs(frame, page, pages) ==
    IF pages = <<>> THEN frame = [latest |-> page, bridge |-> Null]
    ELSE ShownAbove(frame, page, Anchor(pages))

Typed == now \in Int /\ First <= now /\ traded \subseteq Int /\ restarts \in Nat

ChartInv ==
    /\ Typed /\ LatestIs(latest) /\ BridgeIs(bridge) /\ OlderIs(older)
    /\ bridge.end = BridgeTo(latest.page, older)
    /\ ~TooFar(bridge, older)
    /\ ShownIs(shown, latest.page, older)

-----------------------------------------------------------------------------
LEMMA MaxOfTwo ==
  ASSUME NEW a \in Int, NEW b \in Int
  PROVE  Max({a, b}) = IF a >= b THEN a ELSE b
  <1> DEFINE m == IF a >= b THEN a ELSE b
  <1>1. m \in {a, b} /\ \A y \in {a, b} : m >= y OBVIOUS
  <1>2. \A x \in {a, b} : (\A y \in {a, b} : x >= y) => x = m OBVIOUS
  <1> QED BY <1>1, <1>2 DEF Max

LEMMA MaxOfFirst ==
  ASSUME NEW n \in Nat \ {0}
  PROVE  Max(1..n) = n
  <1>1. n \in 1..n /\ \A y \in 1..n : n >= y OBVIOUS
  <1>2. \A x \in 1..n : (\A y \in 1..n : x >= y) => x = n OBVIOUS
  <1> QED BY <1>1, <1>2 DEF Max

\* The service answers with a page.
LEMMA PageIsPage ==
  ASSUME Typed, NEW end \in Int, First <= end, NEW limit \in Nat
  PROVE  /\ Page(end, limit) # Null /\ IsPage(Page(end, limit)) /\ Page(end, limit).end = end
         /\ Page(end, limit).start = Max({First, end - limit})
  <1> DEFINE start == Max({First, end - limit})
             t == {x \in traded : start <= x /\ x < end}
  <1>1. start \in Int /\ First <= start /\ start <= end
    BY MaxOfTwo, CandleHistoryAssumption
  <1>2. Page(end, limit) = [start |-> start, end |-> end, t |-> t] BY DEF Page
  <1>3. t \in SUBSET Int BY DEF Typed
  <1> HIDE DEF start, t
  <1>4. Page(end, limit) \in PageRecords BY <1>1, <1>2, <1>3 DEF PageRecords
  <1>5. Page(end, limit).start = Max({First, end - limit}) BY <1>2 DEF start
  <1>6. Page(end, limit) # Null /\ IsPage(Page(end, limit)) /\ Page(end, limit).end = end
    BY <1>1, <1>2, <1>4, CandleHistoryAssumption DEF IsPage, t, PageRecords
  <1> QED BY <1>5, <1>6

\* A later page begins later.
LEMMA LaterBegins ==
  ASSUME NEW a, NEW b, IsLatest(a), IsLatest(b), a.end <= b.end
  PROVE  a.start <= b.start
  <1>1. a.end \in Int /\ b.end \in Int /\ First \in Int /\ PageSize \in Int
    BY CandleHistoryAssumption DEF IsLatest, IsPage, PageRecords
  <1>2. Max({First, a.end - PageSize}) <= Max({First, b.end - PageSize}) BY <1>1, MaxOfTwo
  <1> QED BY <1>2 DEF IsLatest

\* What happens to a query.
LEMMA QueryChanges ==
  ASSUME NEW query \in Queries
  PROVE  /\ AskedFor(query) \in Queries /\ AskedFor(query).end = query.end
         /\ AskedFor(query).page = query.page /\ AskedFor(query).fetching
         /\ AskedFor(query).error = IF query.page = Null THEN Null ELSE query.error
         /\ \A page \in PageRecords :
               LET new == Arrived(query, page)
               IN  /\ new \in Queries /\ new.end = query.end /\ new.page = page
                   /\ ~new.fetching /\ new.error = Null
         /\ \A error \in {"failed", "refused"} :
               LET new == Failed(query, error)
               IN  /\ new \in Queries /\ new.end = query.end /\ new.page = query.page
                   /\ ~new.fetching /\ new.error = error /\ new.error # Null
  BY CandleHistoryAssumption DEF Queries, AskedFor, Arrived, Failed

LEMMA NewQuery ==
  ASSUME NEW end \in Int, First <= end
  PROVE  IsQuery(Query(end, Null)) /\ Query(end, Null).end = end /\ Query(end, Null).page = Null
         /\ Query(end, Null).error = Null
  BY CandleHistoryAssumption DEF Query, IsQuery, Queries, Waiting

LEMMA NoBridgeIs == NoBridge.end = Null /\ NoBridge.page = Null /\ NoBridge.error = Null
  BY DEF NoBridge

-----------------------------------------------------------------------------
\* The bridge to a latest page is one to where that page begins.
LEMMA BridgeFits ==
  ASSUME NEW n, LatestIs(n), NEW q, BridgeIs(q), NEW p
  PROVE  LET below == BridgeFor(n.page, q, p)
         IN  /\ BridgeIs(below) /\ below.end = BridgeTo(n.page, p)
             /\ below = q \/ ~TooFar(below, p)
             /\ below.end = q.end => below = q
  <1> DEFINE end == BridgeTo(n.page, p)
             below == BridgeFor(n.page, q, p)
  <1>1. end = Null \/ (n.page # Null /\ end = n.page.start) BY DEF BridgeTo
  <1>2. CASE end = q.end
    <2>1. below = q BY <1>2 DEF BridgeFor
    <2> QED BY <1>2, <2>1
  <1>3. CASE end # q.end /\ end = Null
    <2>1. below = NoBridge BY <1>3 DEF BridgeFor
    <2> QED BY <1>3, <2>1, NoBridgeIs DEF BridgeIs, TooFar
  <1>4. CASE end # q.end /\ end # Null
    <2>1. below = Query(end, Null) BY <1>4 DEF BridgeFor
    <2>2. end \in Int /\ First <= end BY <1>1, <1>4 DEF LatestIs, IsLatest, IsPage, PageRecords
    <2>3. IsQuery(below) /\ below.end = end /\ below.page = Null /\ below.error = Null
      BY <2>1, <2>2, NewQuery
    <2>4. Null # "refused" BY CandleHistoryAssumption
    <2> QED BY <1>4, <2>3, <2>4 DEF BridgeIs, TooFar
  <1> QED BY <1>2, <1>3, <1>4

\* The queries that a step renders.
Renders(n, q, p) ==
    /\ Typed /\ LatestIs(n) /\ BridgeIs(q) /\ OlderIs(p)
    /\ p # <<>> => ShownAbove(shown, n.page, Anchor(p))
    /\ Rendered(n, q, p) /\ now' = now

LEMMA RenderedFrame ==
  ASSUME NEW n, NEW q, NEW p, Renders(n, q, p)
  PROVE  /\ traded' = traded /\ now' = now /\ latest' = n
         /\ \A page : IsPage(page)' <=> IsPage(page)
         /\ \A query : IsQuery(query)' <=> IsQuery(query)
         /\ \A query : BridgeIs(query)' <=> BridgeIs(query)
         /\ \A query : LatestIs(query)' <=> LatestIs(query)
         /\ \A frame, page, anchor : ShownAbove(frame, page, anchor)' <=> ShownAbove(frame, page, anchor)
  <1>1. traded' = traded /\ now' = now /\ latest' = n BY DEF Renders, Rendered
  <1> QED BY <1>1 DEF IsPage, IsQuery, BridgeIs, LatestIs, IsLatest, ShownAbove, Waiting

\* What is shown keeps its shape, and its end does not go back.
LEMMA Rendering ==
  ASSUME NEW n, NEW q, NEW p, Renders(n, q, p)
  PROVE  /\ ChartInv'
         /\ \/ restarts' = restarts + 1 /\ TooFar(q, p) /\ q.end = BridgeTo(n.page, p)
            \/ /\ restarts' = restarts /\ older' = p
               /\ p # <<>> => shown'.latest.end >= shown.latest.end
  <1> DEFINE below == BridgeFor(n.page, q, p)
  <1>1. /\ traded' = traded /\ now' = now /\ latest' = n
        /\ \A page : IsPage(page)' <=> IsPage(page)
        /\ \A query : IsQuery(query)' <=> IsQuery(query)
        /\ \A query : BridgeIs(query)' <=> BridgeIs(query)
        /\ \A query : LatestIs(query)' <=> LatestIs(query)
        /\ \A frame, page, anchor : ShownAbove(frame, page, anchor)' <=> ShownAbove(frame, page, anchor)
    BY RenderedFrame
  <1>2. BridgeIs(below) /\ below.end = BridgeTo(n.page, p) /\ (below = q \/ ~TooFar(below, p))
    BY BridgeFits DEF Renders
  <1>3. LatestIs(latest)' BY <1>1 DEF Renders, LatestIs, IsLatest, IsPage, Waiting
  <1>4. CASE TooFar(below, p)
    <2>1. /\ older' = <<>> /\ bridge' = NoBridge /\ restarts' = restarts + 1
          /\ shown' = [latest |-> n.page, bridge |-> Null]
      BY <1>4 DEF Renders, Rendered
    <2>2. OlderIs(older)' BY <2>1 DEF OlderIs
    <2>3. BridgeTo(latest.page, older)' = Null BY <2>1 DEF BridgeTo
    <2>4. BridgeIs(bridge)' /\ bridge'.end = Null /\ ~TooFar(bridge, older)'
      BY <2>1, NoBridgeIs DEF BridgeIs, TooFar
    <2>5. Typed' BY <1>1, <2>1 DEF Renders, Typed
    <2>6. ShownIs(shown, latest.page, older)' BY <1>1, <2>1 DEF ShownIs
    <2> QED BY <1>2, <1>3, <1>4, <2>1, <2>2, <2>3, <2>4, <2>5, <2>6 DEF ChartInv
  <1>5. CASE ~TooFar(below, p)
    <2>1. /\ older' = p /\ bridge' = below /\ restarts' = restarts
          /\ shown' = IF Ready(below) THEN [latest |-> n.page, bridge |-> below.page] ELSE shown
      BY <1>5 DEF Renders, Rendered
    <2>2. OlderIs(older)' BY <1>1, <2>1 DEF Renders, OlderIs, Reach, Candles, Anchor
    <2>3. BridgeIs(bridge)' /\ (bridge.end = BridgeTo(latest.page, older))'
      BY <1>1, <1>2, <2>1 DEF BridgeTo, Anchor
    <2>4. ~TooFar(bridge, older)' BY <1>5, <2>1 DEF TooFar, Anchor
    <2>5. Typed' BY <1>1, <2>1 DEF Renders, Typed
    <2>6. ShownIs(shown, latest.page, older)'
          /\ (p # <<>> => shown'.latest.end >= shown.latest.end)
      <3>1. CASE p = <<>>
        <4>1. below.end = Null BY <1>2, <3>1 DEF BridgeTo
        <4>2. below = NoBridge BY <1>2, <4>1, CandleHistoryAssumption DEF BridgeIs, IsQuery
        <4>3. shown' = [latest |-> n.page, bridge |-> Null]
          BY <2>1, <4>1, <4>2, NoBridgeIs DEF Ready
        <4> QED BY <1>1, <2>1, <3>1, <4>3 DEF ShownIs
      <3>2. CASE p # <<>> /\ ~Ready(below)
        <4>1. shown' = shown BY <2>1, <3>2
        <4>2. ShownAbove(shown, n.page, Anchor(p)) BY <3>2 DEF Renders
        <4>3. shown.latest.end \in Int BY <4>2 DEF ShownAbove, IsLatest, IsPage, PageRecords
        <4> QED BY <1>1, <2>1, <3>2, <4>1, <4>2, <4>3 DEF ShownIs, Anchor
      <3>3. CASE p # <<>> /\ Ready(below)
        <4>1. shown' = [latest |-> n.page, bridge |-> below.page] BY <2>1, <3>3
        <4>2. ShownAbove(shown, n.page, Anchor(p)) BY <3>3 DEF Renders
        <4>3. n.page # Null /\ IsLatest(n.page) /\ shown.latest.end <= n.page.end
              /\ shown.latest.end \in Int /\ n.page.end \in Int /\ n.page.start \in Int
          BY <4>2 DEF ShownAbove, Renders, LatestIs, IsLatest, IsPage, PageRecords
        <4>4. Anchor(p) \in Int BY <3>3 DEF Renders, OlderIs, IsQuery, Anchor
        <4>7. Anchor(p) <= n.page.start
          <5>1. IsLatest(shown.latest) /\ IsLatest(n.page) BY <4>2 DEF ShownAbove, Renders, LatestIs
          <5>2. shown.latest.start <= n.page.start BY <4>3, <5>1, LaterBegins
          <5>3. Anchor(p) <= shown.latest.start /\ shown.latest.start \in Int
            BY <4>2 DEF ShownAbove, IsLatest, IsPage, PageRecords
          <5> QED BY <4>3, <4>4, <5>2, <5>3
        <4>5. CASE below.end = Null
          <5>1. below = NoBridge BY <1>2, <4>5, CandleHistoryAssumption DEF BridgeIs, IsQuery
          <5>2. n.page.start <= Anchor(p)
            BY <1>2, <3>3, <4>3, <4>4, <4>5, CandleHistoryAssumption DEF BridgeTo
          <5>3. ShownAbove([latest |-> n.page, bridge |-> Null], n.page, Anchor(p))
            BY <4>3, <4>7, <5>2 DEF ShownAbove
          <5> QED BY <1>1, <2>1, <3>3, <4>1, <4>3, <5>1, <5>3, NoBridgeIs DEF ShownIs, Anchor
        <4>6. CASE below.end # Null
          <5>1. below.page # Null BY <3>3, <4>6 DEF Ready
          <5>2. below.end = n.page.start BY <1>2, <4>6 DEF BridgeTo
          <5>3. IsQuery(below) BY <1>2, <4>6, NoBridgeIs DEF BridgeIs
          <5>4. IsPage(below.page) /\ below.page.end = n.page.start BY <5>1, <5>2, <5>3 DEF IsQuery
          <5>5. below.page.start <= Anchor(p)
            BY <1>5, <4>4, <4>6, <5>1, <5>4 DEF TooFar, IsPage, PageRecords
          <5>6. ShownAbove([latest |-> n.page, bridge |-> below.page], n.page, Anchor(p))
            BY <4>3, <4>7, <5>1, <5>4, <5>5 DEF ShownAbove
          <5> QED BY <1>1, <2>1, <3>3, <4>1, <4>3, <5>6 DEF ShownIs, Anchor
        <4> QED BY <4>5, <4>6
      <3> QED BY <3>1, <3>2, <3>3
    <2> QED BY <1>3, <2>1, <2>2, <2>3, <2>4, <2>5, <2>6 DEF ChartInv
  <1> QED BY <1>4, <1>5

-----------------------------------------------------------------------------
\* The older pages as they change.

EndsOf(pages) == [i \in DOMAIN pages |-> pages[i].end]

LEMMA SamePrefix ==
  ASSUME NEW p \in Seq(Queries), NEW r \in Seq(Queries), Len(p) <= Len(r),
         \A i \in 1..Len(p) : p[i].end = r[i].end
  PROVE  IsPrefix(EndsOf(p), EndsOf(r))
  <1> DEFINE f == EndsOf(p)
             g == EndsOf(r)
             E == Int \cup {Null}
  <1>1. DOMAIN p = 1..Len(p) /\ DOMAIN r = 1..Len(r) /\ Len(p) \in Nat /\ Len(r) \in Nat OBVIOUS
  <1>2. f = [i \in 1..Len(p) |-> p[i].end] /\ g = [i \in 1..Len(r) |-> r[i].end] BY DEF EndsOf
  <1>3. \A q \in Queries : q.end \in E BY DEF Queries
  <1>4. (\A i \in 1..Len(p) : p[i].end \in E) /\ \A i \in 1..Len(r) : r[i].end \in E
    BY <1>1, <1>3
  <1> HIDE DEF f, g, E
  <1>5. f \in Seq(E) /\ Len(f) = Len(p) BY <1>1, <1>2, <1>4
  <1>6. g \in Seq(E) /\ Len(g) = Len(r) BY <1>1, <1>2, <1>4
  <1>7. \A i \in 1..Len(p) : f[i] = g[i] BY <1>1, <1>2
  <1>8. SubSeq(f, 1, Len(f)) = SubSeq(g, 1, Len(f)) BY <1>1, <1>5, <1>6, <1>7
  <1> QED BY <1>1, <1>5, <1>6, <1>8 DEF IsPrefix, f, g

\* What is known of the pages after a step.
Follows(p, r) ==
    /\ OlderIs(r)
    /\ p # <<>> =>
           /\ r # <<>> /\ Anchor(r) = Anchor(p) /\ Reach(r) <= Reach(p)
           /\ IsPrefix(EndsOf(p), EndsOf(r))

LEMMA Unchanged ==
  ASSUME NEW p, OlderIs(p)
  PROVE  Follows(p, p)
  <1>1. p \in Seq(Queries) BY DEF OlderIs
  <1>2. p # <<>> => Reach(p) \in Int BY <1>1 DEF OlderIs, Reach, IsQuery, IsPage, PageRecords, Last
  <1> QED BY <1>1, <1>2, SamePrefix DEF Follows

LEMMA Adding ==
  ASSUME traded \subseteq Int,
         NEW p, OlderIs(p), \A i \in DOMAIN p : p[i].page # Null,
         NEW end \in Int, First <= end, p # <<>> => end = Last(p).page.start,
         NEW r, r = Append(p, Query(end, Null))
  PROVE  Follows(p, r) /\ r # <<>> /\ (p = <<>> => Anchor(r) = end)
  <1> DEFINE new == Query(end, Null)
  <1>1. IsQuery(new) /\ new.end = end /\ new.page = Null /\ new \in Queries BY NewQuery DEF IsQuery
  <1>2. p \in Seq(Queries) /\ Len(p) \in Nat /\ DOMAIN p = 1..Len(p) BY DEF OlderIs
  <1> HIDE DEF new
  <1>3. /\ r \in Seq(Queries) /\ Len(r) = Len(p) + 1 /\ r[Len(p) + 1] = new
        /\ \A i \in 1..Len(p) : r[i] = p[i]
        /\ DOMAIN r = 1..Len(p) + 1 /\ r # <<>>
    BY <1>1, <1>2 DEF new
  <1>4. \A i \in 1..Len(r) : IsQuery(r[i]) BY <1>1, <1>2, <1>3 DEF OlderIs
  <1>5. \A i \in 1..Len(r) - 1 : r[i].page # Null /\ r[i + 1].end = r[i].page.start
    <2>1. \A i \in 1..Len(r) - 1 : i \in 1..Len(p) /\ i + 1 \in 1..Len(p) + 1 BY <1>2, <1>3
    <2>2. \A i \in 1..Len(p) : i + 1 # Len(p) + 1 => i \in 1..Len(p) - 1 /\ i + 1 \in 1..Len(p)
      BY <1>2
    <2>3. \A i \in 1..Len(p) : r[i].page # Null BY <1>2, <1>3
    <2>4. Len(p) \in 1..Len(p) => r[Len(p) + 1].end = r[Len(p)].page.start BY <1>1, <1>3 DEF Last
    <2>5. ASSUME NEW i \in 1..Len(p), i + 1 # Len(p) + 1 PROVE r[i + 1].end = r[i].page.start
      <3>1. i \in 1..Len(p) - 1 /\ i + 1 \in 1..Len(p) BY <2>2, <2>5
      <3>2. p[i + 1].end = p[i].page.start BY <3>1 DEF OlderIs
      <3> QED BY <1>3, <3>1, <3>2
    <2>7. Len(p) \in Nat BY <1>2
    <2>6. \A i \in 1..Len(p) : i + 1 = Len(p) + 1 => i = Len(p) BY ONLY <2>7
    <2> QED BY <2>1, <2>3, <2>4, <2>5, <2>6
  <1>6. Reach(r) = end BY <1>1, <1>3 DEF Reach, Last
  <1>7. Candles(r) = Candles(p)
    <2>1. {j \in DOMAIN r : r[j].page # Null} = {j \in DOMAIN p : p[j].page # Null}
      BY <1>1, <1>2, <1>3
    <2> QED BY <2>1, <1>2, <1>3 DEF Candles
  <1>8. CASE p = <<>>
    <2>1. Len(p) = 0 /\ Anchor(r) = end BY <1>8, <1>1, <1>3 DEF Anchor
    <2>2. Candles(p) = {} BY <1>8 DEF Candles
    <2>3. \A x \in Int : ~(end <= x /\ x < end) OBVIOUS
    <2>4. {x \in traded : end <= x /\ x < end} = {} BY <2>3
    <2>5. Candles(r) = {x \in traded : Reach(r) <= x /\ x < Anchor(r)}
      BY <1>6, <1>7, <2>1, <2>2, <2>4
    <2>6. OlderIs(r) BY <1>3, <1>4, <1>5, <1>6, <2>1, <2>5 DEF OlderIs
    <2> QED BY <1>3, <1>8, <2>1, <2>6 DEF Follows
  <1>9. CASE p # <<>>
    <2>1. Len(p) \in 1..Len(p) BY <1>2, <1>9
    <2>2. Anchor(r) = Anchor(p) BY <1>3, <1>9, <2>1 DEF Anchor
    <2>3. Reach(p) = end BY <1>2, <1>9, <2>1 DEF Reach, Last
    <2>4. OlderIs(r) BY <1>3, <1>4, <1>5, <1>6, <1>7, <1>9, <2>2, <2>3 DEF OlderIs
    <2>5. Len(p) <= Len(r) /\ \A i \in 1..Len(p) : p[i].end = r[i].end BY <1>2, <1>3
    <2>6. p \in Seq(Queries) /\ r \in Seq(Queries) BY <1>2, <1>3
    <2>7. IsPrefix(EndsOf(p), EndsOf(r)) BY <2>5, <2>6, SamePrefix
    <2> QED BY <1>3, <1>6, <1>9, <2>2, <2>3, <2>4, <2>7 DEF Follows
  <1> QED BY <1>8, <1>9

\* The last page is on its way: its query changes, or it arrives.
LEMMA Changing ==
  ASSUME NEW p, OlderIs(p), p # <<>>, Last(p).page = Null,
         traded \subseteq Int, NEW new, IsQuery(new), new.end = Last(p).end,
         NEW r, r = [p EXCEPT ![Len(p)] = new]
  PROVE  Follows(p, r)
  <1>0. PICK n \in Nat : n = Len(p) BY DEF OlderIs
  <1>1. p \in Seq(Queries) /\ n \in Nat \ {0} /\ DOMAIN p = 1..n /\ n \in 1..n
    BY <1>0 DEF OlderIs
  <1>2. new \in Queries BY DEF IsQuery
  <1>3. /\ r \in Seq(Queries) /\ Len(r) = n /\ r[n] = new /\ DOMAIN r = 1..n /\ r # <<>>
        /\ \A i \in 1..n : i # n => r[i] = p[i]
    <2>1. DOMAIN r = 1..n /\ r[n] = new /\ \A i \in 1..n : i # n => r[i] = p[i]
      BY <1>0, <1>1
    <2>2. \A i \in 1..n : r[i] \in Queries BY <1>1, <1>2, <2>1
    <2>3. r = [i \in 1..n |-> r[i]] BY <1>0, <1>1
    <2>4. r \in Seq(Queries) /\ Len(r) = n BY <1>1, <2>2, <2>3
    <2>5. r # <<>> BY <1>1, <2>1
    <2> QED BY <2>1, <2>4, <2>5
  <1>4. p[n].page = Null /\ new.end = p[n].end BY <1>0 DEF Last
  <1>5. \A i \in 1..n : IsQuery(r[i]) /\ r[i].end = p[i].end BY <1>0, <1>1, <1>3, <1>4 DEF OlderIs
  <1>6. \A i \in 1..n - 1 : r[i].page # Null /\ r[i + 1].end = r[i].page.start
    <2>1. \A i \in 1..n - 1 : i \in 1..n /\ i # n /\ i + 1 \in 1..n BY <1>1
    <2>2. \A i \in 1..n - 1 : p[i].page # Null /\ p[i + 1].end = p[i].page.start
      BY <1>0 DEF OlderIs
    <2> QED BY <1>3, <1>5, <2>1, <2>2
  <1>7. Anchor(r) = Anchor(p) BY <1>1, <1>3, <1>5 DEF Anchor
  <1>8. Reach(p) = p[n].end BY <1>0, <1>4 DEF Reach, Last
  <1>9. Reach(r) = IF new.page = Null THEN new.end ELSE new.page.start
    BY <1>3 DEF Reach, Last
  <1>10. /\ Reach(p) <= Anchor(p) /\ Anchor(p) \in Int /\ Reach(p) \in Int
         /\ Candles(p) = {x \in traded : Reach(p) <= x /\ x < Anchor(p)}
    BY <1>0, <1>1, <1>8 DEF OlderIs, IsQuery, Anchor
  <1>11. Reach(r) <= Reach(p) /\ Reach(r) \in Int
    BY <1>4, <1>8, <1>9, <1>10 DEF IsQuery, IsPage, PageRecords
  <1>12. Candles(r) = {x \in traded : Reach(r) <= x /\ x < Anchor(p)}
    <2> DEFINE old == {j \in DOMAIN p : p[j].page # Null}
    <2>1. old \subseteq 1..n /\ n \notin old BY <1>1, <1>4
    <2>2. CASE new.page = Null
      <3>1. {j \in DOMAIN r : r[j].page # Null} = old BY <1>1, <1>3, <1>4, <2>2
      <3>2. \A i \in old : r[i] = p[i] BY <1>3, <2>1
      <3>3. Candles(r) = Candles(p) BY <3>1, <3>2 DEF Candles
      <3> QED BY <1>4, <1>8, <1>9, <1>10, <2>2, <3>3
    <2>3. CASE new.page # Null
      <3>1. {j \in DOMAIN r : r[j].page # Null} = old \cup {n} BY <1>1, <1>3, <1>4, <2>3
      <3>2. \A i \in old : r[i] = p[i] BY <1>3, <2>1
      <3>3. Candles(r) = Candles(p) \cup new.page.t
        <4> HIDE DEF old
        <4>1. Candles(r) = UNION {r[i].page.t : i \in old \cup {n}} BY <3>1 DEF Candles
        <4>2. Candles(p) = UNION {p[i].page.t : i \in old} BY DEF Candles, old
        <4>3. \A x : x \in Candles(r) <=> \E i \in old \cup {n} : x \in r[i].page.t BY <4>1
        <4>4. \A x : x \in Candles(p) <=> \E i \in old : x \in p[i].page.t BY <4>2
        <4>5. \A x : x \in Candles(r) <=> x \in Candles(p) \/ x \in new.page.t
          BY <4>3, <4>4, <3>2, <1>3
        <4> QED BY <4>5
      <3>4. new.page.t = {x \in traded : new.page.start <= x /\ x < new.page.end}
            /\ new.page.end = Reach(p) /\ new.page.start = Reach(r)
        BY <1>4, <1>8, <1>9, <2>3 DEF IsQuery, IsPage
      <3>5. Candles(r) = {x \in traded : Reach(p) <= x /\ x < Anchor(p)}
                         \cup {x \in traded : Reach(r) <= x /\ x < Reach(p)}
        BY <1>10, <3>3, <3>4
      <3>6. \A x \in Int : (Reach(r) <= x /\ x < Anchor(p))
                 <=> ((Reach(p) <= x /\ x < Anchor(p)) \/ (Reach(r) <= x /\ x < Reach(p)))
        BY <1>10, <1>11
      <3> QED BY <3>5, <3>6
    <2> QED BY <2>2, <2>3
  <1>13. OlderIs(r)
    <2>1. Reach(r) <= Anchor(r) BY <1>7, <1>10, <1>11
    <2>2. Candles(r) = {x \in traded : Reach(r) <= x /\ x < Anchor(r)} BY <1>7, <1>12
    <2>3. Len(r) = n /\ r \in Seq(Queries) BY <1>3
    <2> QED BY <1>5, <1>6, <2>1, <2>2, <2>3 DEF OlderIs
  <1>14. IsPrefix(EndsOf(p), EndsOf(r))
    <2>1. Len(p) <= Len(r) /\ \A i \in 1..Len(p) : p[i].end = r[i].end BY <1>0, <1>1, <1>3, <1>5
    <2>2. p \in Seq(Queries) /\ r \in Seq(Queries) BY <1>1, <1>3
    <2> QED BY <2>1, <2>2, SamePrefix
  <1> QED BY <1>3, <1>7, <1>11, <1>13, <1>14 DEF Follows

-----------------------------------------------------------------------------
\* The steps.

\* Nothing goes but for a restart, and that when the bridge has just ended.
Kept ==
    /\ traded' = traded
    /\ IF restarts' # restarts THEN bridge.fetching /\ bridge.end = latest'.page.start
       ELSE older # <<>> =>
                /\ older' # <<>> /\ Reach(older') <= Reach(older)
                /\ IsPrefix(EndsOf(older), EndsOf(older'))
                /\ shown'.latest.end >= shown.latest.end

LEMMA Stepping ==
  ASSUME ChartInv, NEW n, NEW q, NEW p,
         Rendered(n, q, p), now' = now,
         LatestIs(n), n.page = latest.page \/ (n.page # Null /\ n.page.end = now),
         BridgeIs(q), q.end = bridge.end, ~TooFar(q, older) \/ bridge.fetching,
         Follows(older, p),
         older = <<>> /\ p # <<>> => latest.page # Null /\ Anchor(p) = latest.page.start
  PROVE  ChartInv' /\ Kept
  <1>1. p # <<>> => ShownAbove(shown, n.page, Anchor(p))
    <2> SUFFICES ASSUME p # <<>> PROVE ShownAbove(shown, n.page, Anchor(p)) OBVIOUS
    <2>1. CASE older = <<>>
      <3>1. shown = [latest |-> latest.page, bridge |-> Null] BY <2>1 DEF ChartInv, ShownIs
      <3>2. latest.page # Null /\ Anchor(p) = latest.page.start BY <2>1
      <3>3. IsLatest(latest.page) /\ latest.page.end <= now BY <3>2 DEF ChartInv, LatestIs
      <3>4. /\ latest.page.end \in Int /\ latest.page.start \in Int /\ now \in Int
        BY <3>3 DEF IsLatest, IsPage, PageRecords, ChartInv, Typed
      <3>5. n.page # Null /\ latest.page.end <= n.page.end BY <3>2, <3>3, <3>4
      <3> QED BY <3>1, <3>2, <3>3, <3>4, <3>5 DEF ShownAbove
    <2>2. CASE older # <<>>
      <3>1. ShownAbove(shown, latest.page, Anchor(older)) BY <2>2 DEF ChartInv, ShownIs
      <3>2. Anchor(p) = Anchor(older) BY <2>2 DEF Follows
      <3>3. latest.page # Null /\ IsLatest(latest.page) /\ latest.page.end <= now
        BY <3>1 DEF ChartInv, LatestIs, ShownAbove
      <3>4. n.page # Null /\ shown.latest.end <= n.page.end
        BY <3>1, <3>3 DEF ShownAbove, IsLatest, IsPage, PageRecords, ChartInv, Typed
      <3> QED BY <3>1, <3>2, <3>4 DEF ShownAbove
    <2> QED BY <2>1, <2>2
  <1>2. Renders(n, q, p) BY <1>1 DEF Renders, ChartInv, Follows
  <1>3. ChartInv' BY <1>2, Rendering
  <1>4. latest' = n /\ traded' = traded /\ restarts \in Nat BY <1>2, RenderedFrame DEF ChartInv, Typed
  <1>5. \/ restarts' = restarts + 1 /\ TooFar(q, p) /\ q.end = BridgeTo(n.page, p)
        \/ /\ restarts' = restarts /\ older' = p
           /\ p # <<>> => shown'.latest.end >= shown.latest.end
    BY <1>2, Rendering
  <1>6. ASSUME TooFar(q, p), q.end = BridgeTo(n.page, p), restarts' = restarts + 1 PROVE Kept
    <2>1. q.end # Null /\ p # <<>> /\ q.end = n.page.start BY <1>6 DEF TooFar, BridgeTo
    <2>2. older # <<>> BY <2>1 DEF ChartInv, BridgeTo
    <2>3. Anchor(p) = Anchor(older) BY <2>2 DEF Follows
    <2>4. TooFar(q, older) BY <1>6, <2>3 DEF TooFar
    <2> QED BY <1>4, <1>6, <2>1, <2>4 DEF Kept
  <1>7. ASSUME restarts' = restarts, older' = p, p # <<>> => shown'.latest.end >= shown.latest.end
        PROVE Kept
    BY <1>4, <1>7 DEF Kept, Follows
  <1> QED BY <1>3, <1>5, <1>6, <1>7

\* The latest page.
LEMMA LatestKeeps ==
  ASSUME ChartInv, now' = now, NEW n, Rendered(n, bridge, older),
         \/ n = AskedFor(latest)
         \/ n = Arrived(latest, Page(now, PageSize))
         \/ n = Failed(latest, "failed")
  PROVE  ChartInv' /\ Kept
  <1>1. LatestIs(n) /\ (n.page = latest.page \/ (n.page # Null /\ n.page.end = now))
    <2>1. LatestIs(latest) /\ latest \in Queries /\ Typed BY DEF ChartInv, LatestIs
    <2>2. LET page == Page(now, PageSize)
          IN  page # Null /\ IsLatest(page) /\ page.end = now /\ page \in PageRecords
      <3>1. now \in Int /\ First <= now /\ PageSize \in Nat BY <2>1, CandleHistoryAssumption DEF Typed
      <3>2. LET page == Page(now, PageSize)
            IN  /\ page # Null /\ IsPage(page) /\ page.end = now
                /\ page.start = Max({First, now - PageSize})
        BY <2>1, <3>1, PageIsPage
      <3> QED BY <3>2 DEF IsLatest, IsPage
    <2>3. CASE n = AskedFor(latest) BY <2>1, <2>3, QueryChanges DEF LatestIs, Waiting
    <2>4. CASE n = Arrived(latest, Page(now, PageSize))
      <3>1. n \in Queries /\ n.page = Page(now, PageSize) BY <2>1, <2>2, <2>4, QueryChanges
      <3> QED BY <2>1, <2>2, <3>1 DEF LatestIs, Waiting, Typed
    <2>5. CASE n = Failed(latest, "failed") BY <2>1, <2>5, QueryChanges DEF LatestIs, Waiting
    <2> QED BY <2>3, <2>4, <2>5
  <1>2. Follows(older, older) BY Unchanged DEF ChartInv
  <1>3. PICK q, p : q = bridge /\ p = older OBVIOUS
  <1>4. Rendered(n, q, p) BY <1>3
  <1> QED BY <1>1, <1>2, <1>3, <1>4, Stepping DEF ChartInv

\* The bridge.
LEMMA BridgeKeeps ==
  ASSUME ChartInv, now' = now, NEW q, Rendered(latest, q, older),
         \/ q = AskedFor(bridge) /\ bridge.error # Null
         \/ bridge.fetching /\ q = Arrived(bridge, Page(bridge.end, BridgeSize))
         \/ bridge.fetching /\ q \in {Failed(bridge, "failed"), Failed(bridge, "refused")}
  PROVE  ChartInv' /\ Kept
  <1>1. bridge # NoBridge BY DEF NoBridge
  <1>2. IsQuery(bridge) /\ bridge \in Queries BY <1>1 DEF ChartInv, BridgeIs, IsQuery
  <1>3. IsQuery(q) /\ q.end = bridge.end /\ (~TooFar(q, older) \/ bridge.fetching)
    <2>1. CASE q = AskedFor(bridge) /\ bridge.error # Null
      <3>1. bridge.page = Null BY <1>2, <2>1 DEF IsQuery
      <3>2. /\ q \in Queries /\ q.end = bridge.end /\ q.page = Null /\ q.fetching
            /\ q.error = Null
        BY <1>2, <2>1, <3>1, QueryChanges
      <3>3. ~TooFar(q, older) BY <3>2, CandleHistoryAssumption DEF TooFar
      <3> QED BY <1>2, <3>2, <3>3 DEF IsQuery, Waiting
    <2>2. CASE bridge.fetching /\ q = Arrived(bridge, Page(bridge.end, BridgeSize))
      <3>1. LET page == Page(bridge.end, BridgeSize)
            IN  page # Null /\ IsPage(page) /\ page.end = bridge.end /\ page \in PageRecords
        BY <1>2, PageIsPage, CandleHistoryAssumption DEF ChartInv, IsPage, IsQuery
      <3> QED BY <1>2, <2>2, <3>1, QueryChanges DEF IsQuery, Waiting
    <2>3. CASE bridge.fetching /\ q \in {Failed(bridge, "failed"), Failed(bridge, "refused")}
      <3>1. bridge.page = Null BY <1>2, <2>3 DEF IsQuery
      <3> QED BY <1>2, <2>3, <3>1, QueryChanges DEF IsQuery, Waiting
    <2> QED BY <2>1, <2>2, <2>3
  <1>4. Follows(older, older) BY Unchanged DEF ChartInv
  <1>5. PICK n, p : n = latest /\ p = older OBVIOUS
  <1>6. Rendered(n, q, p) BY <1>5
  <1> QED BY <1>3, <1>4, <1>5, <1>6, Stepping DEF ChartInv, BridgeIs

\* The older pages.
LEMMA OlderKeeps ==
  ASSUME ChartInv, now' = now, NEW p, Rendered(latest, bridge, p),
         Follows(older, p),
         older = <<>> /\ p # <<>> => latest.page # Null /\ Anchor(p) = latest.page.start
  PROVE  ChartInv' /\ Kept
  <1>1. PICK n, q : n = latest /\ q = bridge OBVIOUS
  <1>2. Rendered(n, q, p) BY <1>1
  <1> QED BY <1>1, <1>2, Stepping DEF ChartInv

LEMMA LoadOlderKeeps ==
  ASSUME ChartInv, LoadOlder
  PROVE  ChartInv' /\ Kept
  <1>1. PICK p : p = Append(older, Query(NextEnd, Null)) OBVIOUS
  <1>2. Rendered(latest, bridge, p) /\ now' = now /\ NextEnd # Null
    <2> DEFINE e == NextEnd
    <2>1. Rendered(latest, bridge, Append(older, Query(e, Null))) BY DEF LoadOlder
    <2>2. Rendered(latest, bridge, p) BY <1>1, <2>1
    <2>3. NextEnd # Null /\ now' = now BY DEF LoadOlder, HasOlder
    <2> QED BY <2>2, <2>3
  <1>3. shown.latest # Null /\ Arrivals = DOMAIN older
    <2>1. older = <<>> => Arrivals = DOMAIN older BY DEF Arrivals
    <2>2. CASE shown.latest = Null BY <1>2, <2>2 DEF NextEnd
    <2>3. CASE Arrivals # DOMAIN older /\ older # <<>> BY <1>2, <2>3 DEF NextEnd
    <2> QED BY <2>1, <2>2, <2>3
  <1>4. \A i \in DOMAIN older : older[i].page # Null BY <1>3 DEF Arrivals
  <1>5. CASE older = <<>>
    <2>1. NextEnd = shown.latest.start BY <1>3, <1>5 DEF NextEnd
    <2>2. latest.page # Null /\ NextEnd = latest.page.start BY <1>3, <1>5, <2>1 DEF ChartInv, ShownIs
    <2>3. NextEnd \in Int /\ First <= NextEnd BY <2>2 DEF ChartInv, LatestIs, IsLatest, IsPage, PageRecords
    <2>4. PICK o, e : o = older /\ e = NextEnd OBVIOUS
    <2>5. Follows(o, p) /\ (o = <<>> => Anchor(p) = e)
      BY <1>1, <1>4, <1>5, <2>3, <2>4, Adding DEF ChartInv, Typed
    <2> QED BY <1>2, <1>5, <2>2, <2>4, <2>5, OlderKeeps
  <1>6. CASE older # <<>>
    <2>1. NextEnd = Last(older).page.start BY <1>2, <1>3, <1>6 DEF NextEnd
    <2>2. Len(older) \in 1..Len(older) /\ DOMAIN older = 1..Len(older)
      BY <1>6 DEF ChartInv, OlderIs
    <2>3. NextEnd \in Int /\ First <= NextEnd
      BY <1>4, <2>1, <2>2 DEF ChartInv, OlderIs, IsQuery, IsPage, PageRecords, Last
    <2>4. PICK o, e : o = older /\ e = NextEnd OBVIOUS
    <2>5. Follows(o, p) BY <1>1, <1>4, <1>6, <2>1, <2>3, <2>4, Adding DEF ChartInv, Typed
    <2> QED BY <1>2, <1>6, <2>4, <2>5, OlderKeeps
  <1> QED BY <1>5, <1>6

\* A page of the older ones that is asked for again, fails or arrives.
LEMMA OlderChanges ==
  ASSUME ChartInv, now' = now, NEW i, NEW new,
         i \in DOMAIN older => /\ older[i].fetching \/ older[i].error # Null
                             /\ \/ new = AskedFor(older[i]) \/ new = Failed(older[i], "failed")
                                \/ new = Arrived(older[i], Page(older[i].end, PageSize)),
         Rendered(latest, bridge, [older EXCEPT ![i] = new])
  PROVE  ChartInv' /\ Kept
  <1>1. PICK p : p = [older EXCEPT ![i] = new] OBVIOUS
  <1>2. Rendered(latest, bridge, p) BY <1>1
  <1>3. PICK o : o = older OBVIOUS
  <1>4. OlderIs(o) /\ o \in Seq(Queries) BY <1>3 DEF ChartInv, OlderIs
  <1>5. CASE i \notin DOMAIN older
    <2>1. p = o BY <1>1, <1>3, <1>4, <1>5
    <2> QED BY <1>2, <1>3, <1>4, <2>1, Unchanged, OlderKeeps
  <1>6. CASE i \in DOMAIN older
    <2>1. IsQuery(o[i]) /\ o[i] \in Queries /\ o # <<>> BY <1>3, <1>4, <1>6 DEF OlderIs, IsQuery
    <2>2. o[i].page = Null BY <1>3, <1>6, <2>1 DEF IsQuery
    <2>3. i = Len(o) BY <1>3, <1>4, <1>6, <2>2 DEF OlderIs
    <2>4. IsQuery(new) /\ new.end = o[i].end
      <3>1. LET page == Page(o[i].end, PageSize)
            IN  page # Null /\ IsPage(page) /\ page.end = o[i].end /\ page \in PageRecords
        <4>1. Typed /\ o[i].end \in Int /\ First <= o[i].end /\ PageSize \in Nat
          BY <2>1, CandleHistoryAssumption DEF ChartInv, IsQuery
        <4>2. IsPage(Page(o[i].end, PageSize)) /\ Page(o[i].end, PageSize) # Null
              /\ Page(o[i].end, PageSize).end = o[i].end
          BY <4>1, PageIsPage
        <4> QED BY <4>2 DEF IsPage
      <3>2. \/ new = AskedFor(o[i]) \/ new = Failed(o[i], "failed")
            \/ new = Arrived(o[i], Page(o[i].end, PageSize))
        BY <1>3, <1>6
      <3> QED BY <2>1, <2>2, <3>1, <3>2, QueryChanges DEF IsQuery, Waiting
    <2>5. Last(o).page = Null /\ new.end = Last(o).end BY <2>2, <2>3, <2>4 DEF Last
    <2>6. Follows(o, p) BY <1>1, <1>3, <1>4, <2>1, <2>3, <2>4, <2>5, Changing DEF ChartInv, Typed
    <2> QED BY <1>2, <1>3, <2>1, <2>6, OlderKeeps
  <1> QED BY <1>5, <1>6

LEMMA ChartInvInit ==
  ASSUME ChartInit
  PROVE  ChartInv
  <1>1. Typed
    <2>1. now = Opens /\ traded \in Histories /\ restarts = 0 BY DEF ChartInit
    <2> QED BY <2>1, CandleHistoryAssumption DEF Typed
  <1>2. LatestIs(latest)
    <2>1. CASE latest = Query(Null, Null)
      BY <2>1 DEF LatestIs, Queries, Query, Waiting
    <2>2. ASSUME NEW end \in First + 1..Opens,
                 latest \in {Query(Null, Page(end, PageSize)), AskedFor(Query(Null, Page(end, PageSize)))}
          PROVE  LatestIs(latest)
      <3> DEFINE page == Page(end, PageSize)
                 query == Query(Null, page)
      <3>1. page # Null /\ IsLatest(page) /\ page.end = end /\ end <= now
        <4>1. end \in Int /\ First <= end /\ end <= now BY CandleHistoryAssumption DEF ChartInit
        <4> QED BY <1>1, <4>1, PageIsPage, CandleHistoryAssumption DEF IsLatest
      <3>2. query \in Queries /\ query.page = page /\ ~query.fetching /\ query.error = Null
        BY <3>1 DEF Query, Queries, IsLatest, IsPage
      <3> HIDE DEF query, page
      <3>3. latest \in {query, AskedFor(query)} BY <2>2 DEF query, page
      <3>4. latest \in Queries /\ latest.page = page BY <3>2, <3>3, QueryChanges
      <3> QED BY <3>1, <3>4 DEF LatestIs, Waiting
    <2> QED BY <2>1, <2>2 DEF ChartInit
  <1>3. bridge = NoBridge /\ older = <<>> /\ shown = [latest |-> latest.page, bridge |-> Null]
    BY DEF ChartInit
  <1>4. OlderIs(older) BY <1>3 DEF OlderIs
  <1>5. bridge.end = BridgeTo(latest.page, older) /\ ~TooFar(bridge, older)
    BY <1>3, NoBridgeIs DEF BridgeTo, TooFar
  <1> QED BY <1>1, <1>2, <1>3, <1>4, <1>5 DEF ChartInv, BridgeIs, ShownIs

LEMMA ChartInvStep ==
  ASSUME ChartInv, [ChartNext]_chart
  PROVE  ChartInv' /\ Kept
  <1>1. CASE LoadOlder BY <1>1, LoadOlderKeeps
  <1>2. CASE RefreshLatest
    <2>1. PICK n : n = AskedFor(latest) OBVIOUS
    <2>2. Rendered(AskedFor(latest), bridge, older) /\ now' = now BY <1>2 DEF RefreshLatest
    <2>3. Rendered(n, bridge, older) BY <2>1, <2>2
    <2> QED BY <2>1, <2>2, <2>3, LatestKeeps
  <1>3. CASE LatestEnds
    <2>1. PICK n \in {Arrived(latest, Page(now, PageSize)), Failed(latest, "failed")} :
             Rendered(n, bridge, older)
      BY <1>3 DEF LatestEnds
    <2> QED BY <1>3, <2>1, LatestKeeps DEF LatestEnds
  <1>4. CASE BridgeEnds
    <2>1. PICK q \in {Arrived(bridge, Page(bridge.end, BridgeSize)),
                      Failed(bridge, "failed"), Failed(bridge, "refused")} :
             Rendered(latest, q, older)
      BY <1>4 DEF BridgeEnds
    <2> QED BY <1>4, <2>1, BridgeKeeps DEF BridgeEnds
  <1>5. CASE OlderEnds
    <2>1. PICK i \in DOMAIN older :
             /\ older[i].fetching
             /\ \E new \in {Arrived(older[i], Page(older[i].end, PageSize)), Failed(older[i], "failed")} :
                    Rendered(latest, bridge, [older EXCEPT ![i] = new])
      BY <1>5 DEF OlderEnds
    <2>2. PICK new \in {Arrived(older[i], Page(older[i].end, PageSize)), Failed(older[i], "failed")} :
             Rendered(latest, bridge, [older EXCEPT ![i] = new])
      BY <2>1
    <2> QED BY <1>5, <2>1, <2>2, OlderChanges DEF OlderEnds
  <1>6. CASE Retry
    <2>1. CASE latest.error # Null /\ Rendered(AskedFor(latest), bridge, older)
      <3>1. PICK n : n = AskedFor(latest) OBVIOUS
      <3>2. Rendered(n, bridge, older) BY <2>1, <3>1
      <3> QED BY <1>6, <3>1, <3>2, LatestKeeps DEF Retry
    <2>2. CASE bridge.error # Null /\ Rendered(latest, AskedFor(bridge), older)
      <3>1. PICK q : q = AskedFor(bridge) OBVIOUS
      <3>2. Rendered(latest, q, older) BY <2>2, <3>1
      <3> QED BY <1>6, <2>2, <3>1, <3>2, BridgeKeeps DEF Retry
    <2>3. ASSUME latest.error = Null, bridge.error = Null, HasFailed,
                 LET i == Min({j \in DOMAIN older : older[j].error # Null})
                 IN  Rendered(latest, bridge, [older EXCEPT ![i] = AskedFor(@)])
          PROVE  ChartInv' /\ Kept
      <3>1. PICK i : i = Min({j \in DOMAIN older : older[j].error # Null}) OBVIOUS
      <3>2. PICK new : new = AskedFor(older[i]) OBVIOUS
      <3>3. Rendered(latest, bridge, [older EXCEPT ![i] = new]) BY <2>3, <3>1, <3>2
      <3>4. older[i].error # Null
        <4>1. \E j \in DOMAIN older : older[j].error # Null BY <2>3 DEF HasFailed
        <4>2. DOMAIN older = 1..Len(older) /\ Len(older) \in Nat BY DEF ChartInv, OlderIs
        <4>3. \A j \in DOMAIN older : older[j].error # Null => j = Len(older)
          BY <4>2 DEF ChartInv, OlderIs, IsQuery
        <4>4. {j \in DOMAIN older : older[j].error # Null} = {Len(older)} BY <4>1, <4>3
        <4>5. \A k \in Int : Min({k}) = k BY DEF Min
        <4>6. i = Len(older) BY <3>1, <4>2, <4>4, <4>5
        <4> QED BY <4>1, <4>3, <4>6
      <3> QED BY <1>6, <3>2, <3>3, <3>4, OlderChanges DEF Retry
    <2> QED BY <1>6, <2>1, <2>2, <2>3 DEF Retry
  <1>7. ASSUME now' \in Int, now' >= now,
               UNCHANGED <<traded, latest, bridge, older, shown, restarts>>
        PROVE  ChartInv' /\ Kept
    <2>1. /\ \A page : IsPage(page)' <=> IsPage(page)
          /\ \A page : IsLatest(page)' <=> IsLatest(page)
          /\ \A query : IsQuery(query)' <=> IsQuery(query)
      BY <1>7 DEF IsPage, IsLatest, IsQuery, Waiting
    <2>2. Typed' BY <1>7, CandleHistoryAssumption DEF ChartInv, Typed
    <2>3. LatestIs(latest)'
      <3>1. latest.page # Null => latest.page.end \in Int /\ latest.page.end <= now /\ now \in Int
        BY DEF ChartInv, LatestIs, IsLatest, IsPage, PageRecords, Typed
      <3> QED BY <1>7, <2>1, <3>1 DEF ChartInv, LatestIs, Waiting
    <2>4. BridgeIs(bridge)' BY <1>7, <2>1 DEF ChartInv, BridgeIs
    <2>5. OlderIs(older)' BY <1>7, <2>1 DEF ChartInv, OlderIs, Reach, Candles, Anchor
    <2>6. (bridge.end = BridgeTo(latest.page, older))' /\ ~TooFar(bridge, older)'
      BY <1>7 DEF ChartInv, BridgeTo, TooFar, Anchor
    <2>7. ShownIs(shown, latest.page, older)'
      BY <1>7, <2>1 DEF ChartInv, ShownIs, ShownAbove, Anchor
    <2>8. ChartInv' BY <2>2, <2>3, <2>4, <2>5, <2>6, <2>7 DEF ChartInv
    <2>9. PICK o, r : o = older /\ r = older' OBVIOUS
    <2>10. Follows(o, o) /\ o = r BY <1>7, <2>9, Unchanged DEF ChartInv
    <2>11. older # <<>> => shown.latest.end \in Int
      BY DEF ChartInv, ShownIs, ShownAbove, IsLatest, IsPage, PageRecords
    <2>12. Kept BY <1>7, <2>9, <2>10, <2>11 DEF Kept, Follows
    <2> QED BY <2>8, <2>12
  <1>8. CASE ClockTicks
    <2>1. now' \in Int /\ now' >= now BY <1>8 DEF ClockTicks, ChartInv, Typed
    <2> QED BY <1>7, <1>8, <2>1 DEF ClockTicks
  <1>9. CASE UNCHANGED chart
    <2>1. now' \in Int /\ now' >= now BY <1>9 DEF chart, ChartInv, Typed
    <2> QED BY <1>7, <1>9, <2>1 DEF chart
  <1> QED BY <1>1, <1>2, <1>3, <1>4, <1>5, <1>6, <1>8, <1>9 DEF ChartNext

-----------------------------------------------------------------------------
\* The bars are those of one period.
ShowsAPeriod ==
    /\ BarsHaveNoHole /\ traded \subseteq Int
    /\ older # <<>> => /\ BarsBegin = Reach(older) /\ BarsBegin \in Int
                      /\ shown.latest # Null /\ shown.latest.end \in Int

LEMMA BarsOfAPeriod ==
  ASSUME ChartInv
  PROVE  ShowsAPeriod
  <1>1. /\ older \in Seq(Queries) /\ Len(older) \in Nat /\ DOMAIN older = 1..Len(older)
        /\ \A i \in 1..Len(older) : IsQuery(older[i])
        /\ \A i \in 1..Len(older) - 1 : older[i].page # Null
        /\ traded \subseteq Int
    BY DEF ChartInv, OlderIs, Typed
  <1>2. older # <<>> => /\ BarsBegin = Reach(older) /\ BarsBegin \in Int /\ Anchor(older) \in Int
                        /\ BarsBegin <= Anchor(older)
                        /\ shown.latest # Null /\ shown.latest.end \in Int
    <2> SUFFICES ASSUME older # <<>>
                 PROVE  /\ BarsBegin = Reach(older) /\ BarsBegin \in Int /\ Anchor(older) \in Int
                        /\ BarsBegin <= Anchor(older)
                        /\ shown.latest # Null /\ shown.latest.end \in Int
      OBVIOUS
    <2>1. PICK n \in Nat \ {0} : n = Len(older) /\ DOMAIN older = 1..n /\ n \in 1..n
      <3>1. Len(older) \in Nat \ {0}
        <4>1. Len(older) # 0 BY <1>1
        <4> QED BY <1>1, <4>1
      <3>2. Len(older) \in 1..Len(older) BY <3>1
      <3>3. DOMAIN older = 1..Len(older) BY <1>1
      <3> QED BY <3>1, <3>2, <3>3
    <2>2. Anchor(older) \in Int /\ Anchor(older) = older[1].end BY <1>1, <2>1 DEF Anchor, IsQuery
    <2>3. BarsBegin = Reach(older)
      <3>1. CASE older[n].page # Null
        <4>1. \A i \in 1..n : i = n \/ i \in 1..n - 1 OBVIOUS
        <4>2. \A i \in 1..n : older[i].page # Null BY <1>1, <2>1, <3>1, <4>1
        <4>5. Arrivals = 1..n
          <5>1. \A i : i \in Arrivals <=> i \in 1..n /\ older[i].page # Null BY <2>1 DEF Arrivals
          <5>2. \A i : i \in Arrivals <=> i \in 1..n BY <5>1, <4>2
          <5> QED BY <5>2
        <4>3. Arrivals # {} /\ Max(Arrivals) = n
          <5>1. Max(1..n) = n BY MaxOfFirst
          <5> QED BY <5>1, <4>5, <2>1
        <4> QED BY <2>1, <3>1, <4>3 DEF BarsBegin, Reach, Last
      <3>2. CASE older[n].page = Null /\ n = 1
        <4>1. Arrivals = {} BY <1>1, <2>1, <3>2 DEF Arrivals
        <4> QED BY <2>1, <2>2, <3>2, <4>1 DEF BarsBegin, Reach, Last
      <3>3. CASE older[n].page = Null /\ n # 1
        <4>1. \A i : i \in 1..n - 1 <=> i \in 1..n /\ i # n OBVIOUS
        <4>6. \A i \in 1..n - 1 : older[i].page # Null BY <1>1, <2>1
        <4>2. Arrivals = 1..n - 1 BY <2>1, <3>3, <4>1, <4>6 DEF Arrivals
        <4>3. n - 1 \in Nat \ {0} BY <3>3
        <4>4. Arrivals # {} /\ Max(Arrivals) = n - 1 BY <4>2, <4>3, MaxOfFirst
        <4>5. older[n].end = older[n - 1].page.start
          <5>1. n - 1 \in 1..n - 1 /\ n - 1 + 1 = n BY <4>3
          <5>2. older[n - 1 + 1].end = older[n - 1].page.start BY <2>1, <5>1 DEF ChartInv, OlderIs
          <5> QED BY <5>1, <5>2
        <4> QED BY <2>1, <3>3, <4>4, <4>5 DEF BarsBegin, Reach, Last
      <3> QED BY <3>1, <3>2, <3>3
    <2>4. Reach(older) \in Int /\ Reach(older) <= Anchor(older)
      BY <1>1, <2>1 DEF Reach, Last, IsQuery, IsPage, PageRecords, ChartInv, OlderIs
    <2>5. shown.latest # Null /\ shown.latest.end \in Int
      BY DEF ChartInv, ShownIs, ShownAbove, IsLatest, IsPage, PageRecords
    <2> QED BY <2>2, <2>3, <2>4, <2>5
  <1>3. shown.latest # Null => Bars = {x \in traded : BarsBegin <= x /\ x < shown.latest.end}
    <2> SUFFICES ASSUME shown.latest # Null
                 PROVE  Bars = {x \in traded : BarsBegin <= x /\ x < shown.latest.end}
      OBVIOUS
    <2>1. CASE older = <<>>
      <3>1. shown = [latest |-> latest.page, bridge |-> Null] BY <2>1 DEF ChartInv, ShownIs
      <3>2. Arrivals = {} /\ BarsBegin = shown.latest.start BY <2>1 DEF Arrivals, BarsBegin
      <3>3. IsPage(shown.latest) BY <3>1 DEF ChartInv, LatestIs, IsLatest
      <3>4. Bars = shown.latest.t BY <3>1, <3>2 DEF Bars
      <3> QED BY <3>2, <3>3, <3>4 DEF IsPage
    <2>2. CASE older # <<>>
      <3>1. ShownAbove(shown, latest.page, Anchor(older)) BY <2>2 DEF ChartInv, ShownIs
      <3>2. UNION {older[i].page.t : i \in Arrivals}
                = {x \in traded : BarsBegin <= x /\ x < Anchor(older)}
        BY <1>2, <2>2 DEF ChartInv, OlderIs, Candles, Arrivals
      <3>3. /\ shown.latest.t = {x \in traded : shown.latest.start <= x /\ x < shown.latest.end}
            /\ shown.latest.start \in Int /\ shown.latest.end \in Int
            /\ shown.latest.start <= shown.latest.end
        BY <3>1 DEF ShownAbove, IsLatest, IsPage, PageRecords
      <3>4. CASE shown.bridge = Null
        <4>1. shown.latest.start <= Anchor(older) BY <3>1, <3>4 DEF ShownAbove
        <4>2. Bars = shown.latest.t \cup {x \in traded : BarsBegin <= x /\ x < Anchor(older)}
          BY <3>2, <3>4 DEF Bars
        <4>3. Anchor(older) <= shown.latest.start BY <3>1 DEF ShownAbove
        <4>4. \A x \in Int : BarsBegin <= x /\ x < shown.latest.end
                <=> \/ shown.latest.start <= x /\ x < shown.latest.end
                    \/ BarsBegin <= x /\ x < Anchor(older)
          BY <1>2, <2>2, <3>3, <4>1, <4>3
        <4> QED BY <1>1, <3>3, <4>2, <4>4
      <3>5. CASE shown.bridge # Null
        <4>1. /\ shown.bridge.t = {x \in traded : shown.bridge.start <= x /\ x < shown.latest.start}
              /\ shown.bridge.start \in Int /\ shown.bridge.start <= Anchor(older)
          BY <3>1, <3>5 DEF ShownAbove, IsLatest, IsPage, PageRecords
        <4>2. Bars = shown.latest.t \cup {x \in shown.bridge.t : x >= Anchor(older)}
                     \cup {x \in traded : BarsBegin <= x /\ x < Anchor(older)}
          BY <3>2, <3>5 DEF Bars
        <4>4. \A x \in Int : BarsBegin <= x /\ x < shown.latest.end
                <=> \/ shown.latest.start <= x /\ x < shown.latest.end
                    \/ shown.bridge.start <= x /\ x < shown.latest.start /\ x >= Anchor(older)
                    \/ BarsBegin <= x /\ x < Anchor(older)
          <5>1. Anchor(older) <= shown.latest.start BY <3>1 DEF ShownAbove
          <5> QED BY <1>2, <2>2, <3>3, <4>1, <5>1
        <4> QED BY <1>1, <3>3, <4>1, <4>2, <4>4
      <3> QED BY <3>4, <3>5
    <2> QED BY <2>1, <2>2
  <1>4. \A i \in DOMAIN older : i < Len(older) => older[i].page # Null BY <1>1
  <1>5. \A query \in ToSet(older) \cup {latest, bridge} :
          query.page = Null /\ query # NoBridge => query.fetching \/ query.error # Null
    <2>1. Waiting(latest) /\ (bridge # NoBridge => Waiting(bridge)) BY DEF ChartInv, LatestIs, BridgeIs, IsQuery
    <2>2. \A query \in ToSet(older) : Waiting(query) BY <1>1 DEF ToSet, IsQuery
    <2> QED BY <2>1, <2>2 DEF Waiting
  <1> QED BY <1>1, <1>2, <1>3, <1>4, <1>5 DEF BarsHaveNoHole, ShowsAPeriod

\* A step takes no bar away, unless history starts over.
LEMMA BarsAreKept ==
  ASSUME ShowsAPeriod, ShowsAPeriod', Kept
  PROVE  BarsHaveNoHole' /\ BarsStay
  <1>3. ASSUME restarts' = restarts, older # <<>>
        PROVE  Bars \subseteq Bars' /\ IsPrefix(EndsOf(older), EndsOf(older'))
    <2>1. /\ older' # <<>> /\ Reach(older') <= Reach(older)
          /\ IsPrefix(EndsOf(older), EndsOf(older'))
          /\ shown'.latest.end >= shown.latest.end
      BY <1>3 DEF Kept
    <2>2. Reach(older)' = Reach(older') BY DEF Reach, Last
    <2>3. Bars = {x \in traded : BarsBegin <= x /\ x < shown.latest.end}
      BY <1>3 DEF ShowsAPeriod, BarsHaveNoHole
    <2>4. Bars' = {x \in traded' : BarsBegin' <= x /\ x < shown'.latest.end}
      BY <2>1 DEF ShowsAPeriod, BarsHaveNoHole
    <2>5. traded' = traded /\ traded \subseteq Int BY DEF Kept, ShowsAPeriod
    <2>6. /\ BarsBegin \in Int /\ BarsBegin' \in Int /\ BarsBegin' <= BarsBegin
          /\ shown.latest.end \in Int /\ shown'.latest.end \in Int
      BY <1>3, <2>1, <2>2 DEF ShowsAPeriod
    <2>7. \A x \in Int : BarsBegin <= x /\ x < shown.latest.end => BarsBegin' <= x /\ x < shown'.latest.end
      BY <2>1, <2>6
    <2>8. Bars \subseteq Bars' BY <2>3, <2>4, <2>5, <2>7
    <2> QED BY <2>1, <2>8
  <1>4. restarts' # restarts => bridge.fetching /\ bridge.end = latest'.page.start BY DEF Kept
  <1> QED BY <1>3, <1>4 DEF BarsStay, EndsOf, ShowsAPeriod

\* However the pages come, the chart shows a stretch of the candles without a hole, and
\* loses nothing of it but where the bridge cannot reach (useCandleHistory.ts).
THEOREM ChartsStayWhole == ChartSpec => ChartStaysWhole
  <1> DEFINE Whole == BarsHaveNoHole' /\ BarsStay
  <1>1. ChartInit => ChartInv BY ChartInvInit
  <1>2. ChartInv /\ [ChartNext]_chart => ChartInv' /\ Kept BY ChartInvStep
  <1>3. ChartInv => ShowsAPeriod BY BarsOfAPeriod
  <1>4. ShowsAPeriod /\ ShowsAPeriod' /\ Kept => Whole BY BarsAreKept
  <1>5. ChartStaysWhole <=> [][Whole]_chart BY DEF ChartStaysWhole
  <1> HIDE DEF Whole
  <1> QED BY <1>1, <1>2, <1>3, <1>4, <1>5, PTL DEF ChartSpec
=============================================================================
