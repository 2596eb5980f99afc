-------------------------- MODULE Backtests_proofs --------------------------
(***************************************************************************)
(* Backtests in the database and on disk.                                  *)
(*                                                                         *)
(* The transactions of Experiments, for any requests, models, backtests and *)
(* runs of the seed command.  The inductive invariant says of each place of *)
(* a request which locks it has or waits for, and that nobody else's clash  *)
(* with those: a run of the command that deleted the seeded rows has them   *)
(* all, one that inserts has its user and its models, and an account that   *)
(* closes has everything.  That is why a commit finds the rows it wrote for *)
(* and why numbers read before the others' commits are still free.          *)
(* And it is why every request acts at once on what is there when it        *)
(* commits: a star has one row, and a removal the rows that name its model. *)
(* The lists add up because ranks count: an order gives each row another    *)
(* rank, so pages of ranks are full, and groups of rows do not overlap.     *)
(*                                                                         *)
(* The record of a command line run comes last, for any commands, stocks   *)
(* and options.  The order of the files alone does not give it: commands   *)
(* write to the same folder one after the other, and one that was stopped  *)
(* leaves the record of another beside files of its own.  And its exit code *)
(* tells what it wrote: what it took was readable, what it ran still there. *)
(* No stock or model is lost on the way: each has results or is named.     *)
(***************************************************************************)
EXTENDS Experiments, RunCommands, FiniteSetTheorems, FunctionTheorems, WellFoundedInduction, TLAPS

\* What each kind of request may lock.
RowLocks == {Exclusive(Row(id)) : id \in Ids}
ModelLocks == {Exclusive(Model(m)) : m \in DOMAIN Models}
ReferenceLocks == {Shared(UserRow)} \cup {Shared(Model(m)) : m \in DOMAIN Models}
NumberLocks == {Exclusive(Number(n)) : n \in Nat}

SeedLocks == {Advisory} \cup RowLocks \cup ReferenceLocks \cup NumberLocks
StarLocks == RowLocks
RemovalLocks == ModelLocks \cup RowLocks
ClosingLocks == ModelLocks \cup RowLocks \cup {Exclusive(UserRow)}

Asks(r, l) == l \in want[r] \cup got[r]

\* A request of its kind is at a place of that kind and locks what that kind may.
Shape(r, places, locks) ==
    pc[r] \in {"idle", "done"} \cup places /\ want[r] \cup got[r] \subseteq locks

\* The i-th backtest of a run of the command.
IsNew(s, i, b) ==
    /\ b.id = <<s, i>> /\ b.number = first[s] + i - 1 /\ b.seeded = TRUE /\ b.by = s
    /\ DOMAIN b = Fields
    /\ b.model = None \/ b.model \in DOMAIN Models

\* A run of the command: from its first statement on it waits for the advisory lock,
\* then has it; it locks the seeded rows and no other; and it numbers on from the
\* others, which is why a number is never taken.
SeedInv(s) ==
    /\ Shape(s, {"delete", "number", "models", "insert", "commit"}, SeedLocks)
    /\ pc[s] = "delete" => Asks(s, Advisory)
    /\ pc[s] \in {"number", "models", "insert", "commit"} => Advisory \in got[s]
    /\ \A b \in rows : Asks(s, Exclusive(Row(b.id))) => b.seeded
    /\ pc[s] = "number" => \A b \in rows : b.seeded => Asks(s, Exclusive(Row(b.id)))
    /\ pc[s] \in {"models", "insert", "commit"} =>
           /\ \A b \in rows : b.seeded => Exclusive(Row(b.id)) \in got[s]
           /\ first[s] \in Nat \ {0}
           /\ user => first[s] = LastOther + 1
    /\ pc[s] \in {"insert", "commit"} =>
           /\ \A b \in new[s] : \E i \in DOMAIN Runs : IsNew(s, i, b)
           /\ \A i \in DOMAIN Runs : \E b \in new[s] : IsNew(s, i, b)
           /\ \A a, b \in new[s] : a.id = b.id => a = b
    /\ pc[s] = "commit" =>
           /\ Asks(s, Shared(UserRow))
           /\ \A b \in new[s] : b.model # None => Asks(s, Shared(Model(b.model)))
    /\ \A n \in Nat : Exclusive(Number(n)) \in want[s] =>
           pc[s] = "commit" /\ \E b \in new[s] : b.number = n
    /\ result[s] # "number taken"

StarInv(t) == Shape(t, {"update"}, StarLocks)

\* A removal that unset its models has, or waits for, every row that names one.
RemovalInv(d) ==
    /\ Shape(d, {"unset", "commit"}, RemovalLocks)
    /\ pc[d] = "commit" =>
        /\ want[d] \subseteq RowLocks
        /\ \A b \in rows : b.model \in HeldModels(d) => Asks(d, Exclusive(Row(b.id)))

\* A closing account has every model, then its user, then every row.
ClosingInv(k) ==
    /\ Shape(k, {"unset", "user", "cascade", "commit"}, ClosingLocks)
    /\ pc[k] = "unset" => \A m \in DOMAIN models : Asks(k, Exclusive(Model(m)))
    /\ pc[k] \in {"user", "cascade", "commit"} =>
           \A m \in DOMAIN models : Exclusive(Model(m)) \in got[k]
    /\ pc[k] = "cascade" /\ user => Asks(k, Exclusive(UserRow))
    /\ pc[k] = "commit" /\ user =>
           /\ Exclusive(UserRow) \in got[k]
           /\ \A b \in rows : Asks(k, Exclusive(Row(b.id)))

RequestInv(r) ==
    /\ Over(r) => want[r] = {} /\ got[r] = {}
    /\ r \in Seeds => SeedInv(r)
    /\ r \in Stars => StarInv(r)
    /\ r \in Removals => RemovalInv(r)
    /\ r \in Closings => ClosingInv(r)
    /\ r \in Renames => Over(r)

Domains ==
    /\ user \in BOOLEAN
    /\ DOMAIN models \subseteq DOMAIN Models
    /\ DOMAIN pc = Requests /\ DOMAIN result = Requests
    /\ DOMAIN want = Requests /\ DOMAIN got = Requests
    /\ DOMAIN first = Seeds /\ DOMAIN new = Seeds /\ DOMAIN star = Stars

\* No two requests have locks that clash.
Mutex == \A r, q \in Requests : r # q => \A l \in got[r], k \in got[q] : ~Clash(l, k)

\* Who has the user's row or a model's keeps it there.
HeldIsThere ==
    \A r \in Requests : \A l \in got[r] :
        /\ l.on = UserRow => user
        /\ \A m \in DOMAIN Models : l.on = Model(m) => m \in DOMAIN models

\* The rows: the user's other backtests stay, the seeded ones are one run's and
\* numbered on from the others, nothing outlives the account.
RowsInv ==
    /\ \A b \in rows :
        /\ DOMAIN b = Fields /\ b.id \in Ids /\ b.number \in Nat /\ b.seeded \in BOOLEAN
        /\ b.model = None \/ b.model \in DOMAIN models
        /\ \A s \in Seeds, i \in DOMAIN Runs : b.id = <<s, i>> => pc[s] = "done"
    /\ \A a, b \in rows : a.id = b.id \/ a.number = b.number => a = b
    /\ \A a, b \in rows : a.seeded /\ b.seeded => a.by = b.by
    /\ user => /\ \A b \in rows : ~b.seeded => \E o \in Others : o.id = b.id /\ o.number = b.number
               /\ \A o \in Others : \E b \in rows : ~b.seeded /\ o.id = b.id /\ o.number = b.number
               /\ \E n \in Nat : \A k \in Nat :
                      (\E b \in rows : b.seeded /\ b.number = k)
                          <=> k \in (LastOther + 1)..(LastOther + n)
    /\ ~user => rows = {} /\ models = <<>>

Inv == Domains /\ Mutex /\ HeldIsThere /\ RowsInv /\ \A r \in Requests : RequestInv(r)

-----------------------------------------------------------------------------
LEMMA RunsAreCounted ==
  /\ DOMAIN Runs = 1..Len(Runs) /\ Len(Runs) \in Nat
  /\ \A i \in DOMAIN Runs : i \in Nat \ {0}
  <1>1. DOMAIN Runs = 1..Len(Runs) /\ Len(Runs) \in Nat BY ExperimentsAssumption
  <1> QED BY <1>1

\* What is assumed of the rows at first.
LEMMA FirstRows ==
  /\ \A b \in Others \cup Earlier :
         /\ DOMAIN b = Fields /\ b.number \in Nat /\ b.id \notin Seeds \X DOMAIN Runs
         /\ b.seeded \in BOOLEAN /\ (b.seeded <=> b \in Earlier)
         /\ b.model = None \/ b.model \in DOMAIN Models
  /\ \A a, b \in Others \cup Earlier : a.id = b.id \/ a.number = b.number => a = b
  /\ \A a, b \in Earlier : a.by = b.by
  /\ {b.number : b \in Earlier} = (LastOther + 1)..(LastOther + Cardinality(Earlier))
  /\ Cardinality(Earlier) \in Nat
  <1>1. IsFiniteSet(Earlier) BY ExperimentsAssumption
  <1>2. Cardinality(Earlier) \in Nat BY <1>1, FS_CardinalityType
  <1> QED BY <1>2, ExperimentsAssumption

LEMMA LockShapes ==
  /\ \A x, y : Exclusive(x) = Exclusive(y) => x = y
  /\ \A x, y : Shared(x) = Shared(y) => x = y
  /\ \A x, y : Exclusive(x) # Shared(y)
  /\ \A x : Exclusive(x).on = x /\ Shared(x).on = x /\ ~Exclusive(x).shared /\ Shared(x).shared
  /\ \A x : Advisory # Shared(x)
  /\ \A i, j : Row(i) = Row(j) => i = j
  /\ \A i, j : Model(i) = Model(j) => i = j
  /\ \A i, j : Number(i) = Number(j) => i = j
  /\ \A i, j : Row(i) # Model(j) /\ Row(i) # Number(j) /\ Model(i) # Number(j)
  /\ \A i : Row(i) # UserRow /\ Model(i) # UserRow /\ Number(i) # UserRow
  /\ \A i : Row(i) # Advisory.on /\ Model(i) # Advisory.on /\ Number(i) # Advisory.on
  /\ UserRow # Advisory.on /\ Advisory = Exclusive(Advisory.on) /\ ~Advisory.shared
  /\ \A i : Row(i)[1] = "row" /\ Row(i)[2] = i /\ Model(i)[1] = "model" /\ Model(i)[2] = i
            /\ Number(i)[1] = "number" /\ Number(i)[2] = i
  /\ UserRow[1] = "user" /\ Advisory.on[1] = "advisory"
  <1>1. \A x, y : Exclusive(x) = Exclusive(y) => x = y BY DEF Exclusive
  <1>2. \A x, y : Shared(x) = Shared(y) => x = y BY DEF Shared
  <1>3. \A x, y : Exclusive(x) # Shared(y) BY DEF Exclusive, Shared
  <1>4. \A x : Exclusive(x).on = x /\ Shared(x).on = x /\ ~Exclusive(x).shared /\ Shared(x).shared
    BY DEF Exclusive, Shared
  <1>5. /\ \A i, j : Row(i) = Row(j) => i = j
        /\ \A i, j : Model(i) = Model(j) => i = j
        /\ \A i, j : Number(i) = Number(j) => i = j
    BY DEF Row, Model, Number
  <1>6. \A i : Row(i)[1] = "row" /\ Row(i)[2] = i /\ Model(i)[1] = "model" /\ Model(i)[2] = i
               /\ Number(i)[1] = "number" /\ Number(i)[2] = i
    BY DEF Row, Model, Number
  <1>7. UserRow[1] = "user" BY DEF UserRow
  <1>8. Advisory = Exclusive(<<"advisory", "experiments:backtests">>) BY DEF Advisory
  <1>9. Advisory.on = <<"advisory", "experiments:backtests">> /\ ~Advisory.shared BY <1>4, <1>8
  <1>10. Advisory.on[1] = "advisory" BY <1>9
  <1>11. \A x : Advisory # Shared(x) BY <1>3, <1>8
  <1>12. \A i, j : Row(i) # Model(j) /\ Row(i) # Number(j) /\ Model(i) # Number(j) BY <1>6
  <1>13. \A i : Row(i) # UserRow /\ Model(i) # UserRow /\ Number(i) # UserRow BY <1>6, <1>7
  <1>14. \A i : Row(i) # Advisory.on /\ Model(i) # Advisory.on /\ Number(i) # Advisory.on
    BY <1>6, <1>10
  <1>15. UserRow # Advisory.on BY <1>7, <1>10
  <1> QED BY <1>1, <1>2, <1>3, <1>4, <1>5, <1>6, <1>7, <1>8, <1>9, <1>10, <1>11, <1>12, <1>13, <1>14, <1>15

\* What an action of r that changes no committed row leaves alone.
Quiet(r) ==
    /\ rows' = rows /\ user' = user
    /\ DOMAIN models' = DOMAIN models /\ (models = <<>> => models' = <<>>)
    /\ DOMAIN pc' = Requests /\ DOMAIN result' = Requests
    /\ DOMAIN want' = Requests /\ DOMAIN got' = Requests
    /\ DOMAIN first' = Seeds /\ DOMAIN new' = Seeds /\ DOMAIN star' = Stars
    /\ \A q \in Requests \ {r} :
           pc'[q] = pc[q] /\ result'[q] = result[q] /\ want'[q] = want[q] /\ got'[q] = got[q]
    /\ \A s \in Seeds \ {r} : first'[s] = first[s] /\ new'[s] = new[s]

\* ... so that the others' part of the invariant stays,
LEMMA OthersStay ==
  ASSUME NEW r \in Requests, Quiet(r), NEW q \in Requests \ {r}, RequestInv(q)
  PROVE  RequestInv(q)'
  <1>1. /\ rows' = rows /\ user' = user /\ DOMAIN models' = DOMAIN models
        /\ pc'[q] = pc[q] /\ result'[q] = result[q] /\ want'[q] = want[q] /\ got'[q] = got[q]
    BY DEF Quiet
  <1>2. ASSUME NEW places, NEW locks, Shape(q, places, locks) PROVE Shape(q, places, locks)'
    BY <1>1, <1>2 DEF Shape
  <1>3. \A l : Asks(q, l)' <=> Asks(q, l) BY <1>1 DEF Asks
  <1>4. HeldModels(q)' = HeldModels(q) BY <1>1 DEF HeldModels, Holds
  <1>5. ASSUME q \in Seeds, SeedInv(q) PROVE SeedInv(q)'
    <2>1. first'[q] = first[q] /\ new'[q] = new[q] BY <1>5 DEF Quiet
    <2>2. \A i, b : IsNew(q, i, b)' <=> IsNew(q, i, b) BY <2>1 DEF IsNew
    <2> QED BY <1>1, <1>2, <1>3, <1>5, <2>1, <2>2 DEF SeedInv
  <1>6. ASSUME RemovalInv(q) PROVE RemovalInv(q)'
    BY <1>1, <1>2, <1>3, <1>4, <1>6 DEF RemovalInv
  <1>7. ASSUME ClosingInv(q) PROVE ClosingInv(q)'
    BY <1>1, <1>2, <1>3, <1>7 DEF ClosingInv
  <1>8. ASSUME StarInv(q) PROVE StarInv(q)' BY <1>2, <1>8 DEF StarInv
  <1>9. Over(q)' <=> Over(q) BY <1>1 DEF Over
  <1> QED BY <1>1, <1>5, <1>6, <1>7, <1>8, <1>9 DEF RequestInv

\* ... and one that takes no new lock only has to keep its own.
LEMMA QuietSteps ==
  ASSUME Inv, NEW r \in Requests, Quiet(r), got'[r] \subseteq got[r],
         pc[r] = "done" => pc'[r] = "done", RequestInv(r)'
  PROVE  Inv'
  <1>1. /\ rows' = rows /\ user' = user /\ DOMAIN models' = DOMAIN models /\ (models = <<>> => models' = <<>>)
        /\ \A q \in Requests \ {r} : got'[q] = got[q] /\ pc'[q] = pc[q]
    BY DEF Quiet
  <1>2. \A q \in Requests : got'[q] \subseteq got[q] BY <1>1
  <1>3. \A q \in Requests : pc[q] = "done" => pc'[q] = "done" BY <1>1
  <1>4. Domains' BY DEF Inv, Domains, Quiet
  <1>5. Mutex' BY <1>2 DEF Inv, Mutex, Clash
  <1>6. HeldIsThere' BY <1>1, <1>2 DEF Inv, HeldIsThere, UserRow, Model
  <1>7. RowsInv'
    <2>1. Seeds \subseteq Requests BY DEF Requests
    <2> QED BY <1>1, <1>3, <2>1 DEF Inv, RowsInv
  <1>8. \A q \in Requests : RequestInv(q)'
    <2> TAKE q \in Requests
    <2>1. CASE q = r BY <2>1
    <2>2. CASE q # r BY <2>2, OthersStay DEF Inv
    <2> QED BY <2>1, <2>2
  <1> QED BY <1>4, <1>5, <1>6, <1>7, <1>8 DEF Inv

LEMMA KindsOfRequests ==
  /\ Seeds \subseteq Requests /\ Stars \subseteq Requests /\ Removals \subseteq Requests
  /\ Closings \subseteq Requests /\ Renames \subseteq Requests
  /\ \A s \in Seeds : s \notin Stars /\ s \notin Removals /\ s \notin Closings /\ s \notin Renames
  /\ \A t \in Stars : t \notin Removals /\ t \notin Closings /\ t \notin Renames
  /\ \A d \in Removals : d \notin Closings /\ d \notin Renames
  /\ \A k \in Closings : k \notin Renames
  BY ExperimentsAssumption DEF Requests

\* A request that ends and commits nothing.
LEMMA EndsQuietly ==
  ASSUME Inv, NEW r \in Requests, NEW how, Ends(r, how), Scratch, rows' = rows, user' = user,
         DOMAIN models' = DOMAIN models, (models = <<>> => models' = <<>>),
         how # "number taken"
  PROVE  Inv'
  <1>1. Domains BY DEF Inv
  <1>2. /\ DOMAIN pc' = Requests /\ DOMAIN result' = Requests
        /\ DOMAIN want' = Requests /\ DOMAIN got' = Requests
        /\ pc'[r] = "done" /\ result'[r] = how /\ want'[r] = {} /\ got'[r] = {}
        /\ \A q \in Requests \ {r} :
             pc'[q] = pc[q] /\ result'[q] = result[q] /\ want'[q] = want[q] /\ got'[q] = got[q]
    BY <1>1 DEF Domains, Ends
  <1>3. Quiet(r) BY <1>1, <1>2 DEF Quiet, Domains, Scratch
  <1>4. \A places, locks : Shape(r, places, locks)' BY <1>2 DEF Shape
  <1>5. \A l : ~Asks(r, l)' BY <1>2 DEF Asks
  <1>6. SeedInv(r)' BY <1>2, <1>4, <1>5 DEF SeedInv
  <1>7. RemovalInv(r)' BY <1>2, <1>4 DEF RemovalInv
  <1>8. ClosingInv(r)' BY <1>2, <1>4 DEF ClosingInv
  <1>9. Over(r)' BY <1>2 DEF Over
  <1>10. RequestInv(r)' BY <1>2, <1>4, <1>6, <1>7, <1>8, <1>9 DEF RequestInv, StarInv
  <1> QED BY <1>2, <1>3, <1>10, QuietSteps

\* A request that goes to its next statement.
LEMMA GoesOn ==
  ASSUME Inv, NEW r \in Requests, NEW where, NEW locks, Goto(r, where, locks), Committed,
         DOMAIN first' = Seeds, DOMAIN new' = Seeds, DOMAIN star' = Stars,
         \A s \in Seeds \ {r} : first'[s] = first[s] /\ new'[s] = new[s],
         pc[r] # "done"
  PROVE  /\ Quiet(r) /\ rows' = rows /\ user' = user /\ models' = models
         /\ pc'[r] = where /\ want'[r] = locks /\ got'[r] = got[r] /\ result'[r] = result[r]
         /\ RequestInv(r)' => Inv'
  <1>1. Domains BY DEF Inv
  <1>2. /\ DOMAIN pc' = Requests /\ DOMAIN result' = Requests
        /\ DOMAIN want' = Requests /\ DOMAIN got' = Requests
        /\ pc'[r] = where /\ result'[r] = result[r] /\ want'[r] = locks /\ got'[r] = got[r]
        /\ \A q \in Requests \ {r} :
             pc'[q] = pc[q] /\ result'[q] = result[q] /\ want'[q] = want[q] /\ got'[q] = got[q]
    BY <1>1 DEF Domains, Goto
  <1>3. rows' = rows /\ user' = user /\ models' = models BY DEF Committed
  <1>4. Quiet(r) BY <1>1, <1>2, <1>3 DEF Quiet, Domains
  <1>5. RequestInv(r)' => Inv' BY <1>2, <1>4, QuietSteps
  <1> QED BY <1>2, <1>3, <1>4, <1>5

-----------------------------------------------------------------------------
\* The greatest of some numbers.
LEMMA SmallestSubset ==
  ASSUME NEW U, IsFiniteSet(U), NEW T, T \subseteq SUBSET U, T # {}
  PROVE  \E s \in T : \A t \in T : t \subseteq s => t = s
  <1>1. T \subseteq FiniteSubsetsOf(U) BY FS_FiniteSubsetsOfFinite
  <1>2. \E s \in T : \A t \in T : <<t, s>> \notin StrictSubsetOrdering(U)
    BY <1>1, FS_StrictSubsetOrderingWellFounded, WFMin
  <1> QED BY <1>2 DEF StrictSubsetOrdering

LEMMA LeastAbove ==
  ASSUME NEW S, IsFiniteSet(S), S # {}
  PROVE  \E x \in S : \A y \in S :
             (\A z \in S : z > y => z > x) => (\A z \in S : z > x => z > y)
  <1> DEFINE Above(x) == {z \in S : z > x}
             Tops == {Above(x) : x \in S}
  <1>1. PICK t \in Tops : \A u \in Tops : u \subseteq t => u = t
    <2>1. Tops \subseteq SUBSET S OBVIOUS
    <2>2. Tops # {} OBVIOUS
    <2> HIDE DEF Tops
    <2> QED BY <2>1, <2>2, SmallestSubset
  <1>2. PICK x \in S : t = Above(x) OBVIOUS
  <1>3. ASSUME NEW y \in S, \A z \in S : z > y => z > x
        PROVE  \A z \in S : z > x => z > y
    <2>1. Above(y) \subseteq Above(x) BY <1>3
    <2>2. Above(y) = Above(x) BY <1>1, <1>2, <2>1
    <2> QED BY <2>2
  <1> QED BY <1>3

LEMMA MaxOfNumbers ==
  ASSUME NEW S, IsFiniteSet(S), S # {}, S \subseteq Nat
  PROVE  Max(S) \in S /\ \A y \in S : Max(S) >= y
  <1>1. PICK x \in S : \A y \in S :
             (\A z \in S : z > y => z > x) => (\A z \in S : z > x => z > y)
    BY LeastAbove
  <1>2. \A y \in S : x >= y
    <2> SUFFICES ASSUME NEW y \in S, y > x PROVE FALSE OBVIOUS
    <2>1. \A z \in S : z > y => z > x OBVIOUS
    <2>2. y > y BY <1>1, <2>1
    <2> QED BY <2>2
  <1> QED BY <1>2 DEF Max

LEMMA NumbersOfOthers ==
  /\ LastOther \in Nat
  /\ \A o \in Others : o.number \in Nat /\ o.number <= LastOther
  /\ Others # {} => LastOther = Max({b.number : b \in Others})
  /\ Others = {} => LastOther = 0
  <1>1. \A o \in Others : o.number \in Nat BY ExperimentsAssumption
  <1>2. CASE Others = {} BY <1>2 DEF LastOther
  <1>3. CASE Others # {}
    <2> DEFINE S == {b.number : b \in Others}
    <2>1. S \in SUBSET Nat /\ S # {} BY <1>1, <1>3
    <2>2. IsFiniteSet(S)
      <3>1. IsFiniteSet(Others) BY ExperimentsAssumption
      <3>2. [b \in Others |-> b.number] \in Surjection(Others, S) BY DEF Surjection
      <3> HIDE DEF S
      <3> QED BY <3>1, <3>2, FS_Surjection
    <2>3. Max(S) \in S /\ \A y \in S : Max(S) >= y
      <3> HIDE DEF S
      <3> QED BY <2>1, <2>2, MaxOfNumbers
    <2>4. LastOther = Max(S) BY <1>3 DEF LastOther
    <2>5. LastOther \in Nat BY <2>1, <2>3, <2>4
    <2>6. \A o \in Others : o.number <= LastOther
      <3> TAKE o \in Others
      <3>1. o.number \in S OBVIOUS
      <3> QED BY <1>1, <2>3, <2>4, <2>5, <3>1
    <2> QED BY <1>1, <1>3, <2>4, <2>5, <2>6
  <1> QED BY <1>2, <1>3

-----------------------------------------------------------------------------
(***************************************************************************)
(* The actions, one lemma each.                                            *)
(***************************************************************************)

\* A lock that is free or gone.
LEMMA AcquireKeeps ==
  ASSUME Inv, NEW r \in Requests, Acquire(r)
  PROVE  Inv'
  <1>1. PICK l \in want[r] :
           /\ Holders(l, r) = {}
           /\ IF Found(l, r)
                THEN /\ want' = [want EXCEPT ![r] = @ \ {l}]
                     /\ got' = [got EXCEPT ![r] = @ \cup {l}]
                     /\ UNCHANGED <<pc, result>>
                ELSE CASE l.on[1] = "number" -> Ends(r, "number taken")
                       [] l.shared           -> Ends(r, "reference gone")
                       [] r \in Stars        -> Ends(r, "stale")
                       [] OTHER -> /\ want' = [want EXCEPT ![r] = @ \ {l}]
                                   /\ UNCHANGED <<pc, result, got>>
    BY DEF Acquire
  <1>2. /\ rows' = rows /\ user' = user /\ models' = models
        /\ first' = first /\ new' = new /\ star' = star
    BY DEF Acquire, Committed, Scratch
  <1>3. Domains /\ RequestInv(r) BY DEF Inv
  <1>4. ~Over(r) BY <1>1, <1>3 DEF RequestInv
  <1>5. r \notin Renames /\ r \in Seeds \cup Stars \cup Removals \cup Closings
    BY <1>3, <1>4 DEF RequestInv, Requests
  <1>6. CASE Found(l, r)
    <2>1. /\ pc' = pc /\ result' = result
          /\ DOMAIN want' = Requests /\ DOMAIN got' = Requests
          /\ want'[r] = want[r] \ {l} /\ got'[r] = got[r] \cup {l}
          /\ \A q \in Requests \ {r} : want'[q] = want[q] /\ got'[q] = got[q]
      BY <1>1, <1>3, <1>6 DEF Domains
    <2>2. Quiet(r) BY <1>2, <1>3, <2>1 DEF Quiet, Domains
    <2>3. Domains' BY <1>2, <1>3, <2>1 DEF Domains
    <2>4. RowsInv' BY <1>2, <2>1 DEF Inv, RowsInv
    <2>5. Mutex'
      <3>1. \A q \in Requests \ {r} : \A k \in got[q] : ~Clash(k, l) BY <1>1 DEF Holders
      <3>2. \A k : Clash(k, l) <=> Clash(l, k) BY DEF Clash
      <3> QED BY <2>1, <3>1, <3>2 DEF Inv, Mutex, Clash
    <2>6. HeldIsThere'
      <3>1. l.on = UserRow => user BY <1>6, LockShapes DEF Found
      <3>2. \A m : l.on = Model(m) => m \in DOMAIN models BY <1>6, LockShapes DEF Found
      <3> QED BY <1>2, <2>1, <3>1, <3>2 DEF Inv, HeldIsThere, UserRow, Model
    <2>7. \A x : Asks(r, x)' <=> Asks(r, x) BY <1>1, <2>1 DEF Asks
    <2>8. \A places, locks : Shape(r, places, locks)' <=> Shape(r, places, locks)
      BY <1>1, <2>1 DEF Shape
    <2>9. ASSUME SeedInv(r) PROVE SeedInv(r)'
      <3>1. \A i, b : IsNew(r, i, b)' <=> IsNew(r, i, b) BY <1>2 DEF IsNew
      <3> QED BY <1>2, <2>1, <2>7, <2>8, <2>9, <3>1 DEF SeedInv
    <2>10. ASSUME RemovalInv(r) PROVE RemovalInv(r)'
      <3>1. CASE pc[r] = "commit"
        <4>1. l \in RowLocks BY <1>1, <2>10, <3>1 DEF RemovalInv
        <4>3. PICK id : l = Exclusive(Row(id)) BY <4>1 DEF RowLocks
        <4>4. \A m : l.on # Model(m) BY <4>3, LockShapes
        <4>2. HeldModels(r)' = HeldModels(r) BY <1>2, <2>1, <4>4 DEF HeldModels, Holds
        <4> QED BY <1>2, <2>1, <2>7, <2>8, <2>10, <4>2 DEF RemovalInv
      <3>2. CASE pc[r] # "commit" BY <2>1, <2>8, <2>10, <3>2 DEF RemovalInv
      <3> QED BY <3>1, <3>2
    <2>11. ASSUME ClosingInv(r) PROVE ClosingInv(r)'
      BY <1>2, <2>1, <2>7, <2>8, <2>11 DEF ClosingInv
    <2>12. RequestInv(r)'
      BY <1>3, <1>4, <1>5, <2>1, <2>8, <2>9, <2>10, <2>11 DEF RequestInv, StarInv, Over
    <2>13. \A q \in Requests : RequestInv(q)' BY <2>2, <2>12, OthersStay DEF Inv
    <2> QED BY <2>3, <2>4, <2>5, <2>6, <2>13 DEF Inv
  <1>7. CASE ~Found(l, r)
    <2>1. CASE l.on[1] = "number"
      <3>1. r \in Seeds /\ SeedInv(r)
        <4>1. l \notin StarLocks \cup RemovalLocks \cup ClosingLocks
          BY <2>1, LockShapes DEF StarLocks, RemovalLocks, ClosingLocks, RowLocks, ModelLocks
        <4> QED BY <1>1, <1>3, <1>5, <4>1 DEF RequestInv, StarInv, RemovalInv, ClosingInv, Shape
      <3>2. PICK n \in Nat : l = Exclusive(Number(n))
        <4>1. l \in SeedLocks BY <1>1, <3>1 DEF SeedInv, Shape
        <4>2. l \notin RowLocks BY <2>1, LockShapes DEF RowLocks
        <4>3. l \notin ReferenceLocks BY <2>1, LockShapes DEF ReferenceLocks
        <4>4. l # Advisory BY <2>1, LockShapes
        <4> QED BY <4>1, <4>2, <4>3, <4>4 DEF SeedLocks, NumberLocks
      <3>3. pc[r] = "commit" /\ \E b \in new[r] : b.number = n BY <1>1, <3>1, <3>2 DEF SeedInv
      <3>4. PICK c \in rows \ HeldRows(r) : c.number = n BY <1>7, <2>1, <3>2, LockShapes DEF Found
      <3>5. ~c.seeded
        <4>1. c.seeded => Exclusive(Row(c.id)) \in got[r] BY <3>1, <3>3, <3>4 DEF SeedInv
        <4>2. Exclusive(Row(c.id)) \notin got[r] BY <3>4, LockShapes DEF HeldRows, Holds
        <4> QED BY <4>1, <4>2
      <3>6. user BY <3>4 DEF Inv, Domains, RowsInv
      <3>7. PICK o \in Others : o.number = n BY <3>4, <3>5, <3>6 DEF Inv, RowsInv
      <3>8. first[r] = LastOther + 1 BY <3>1, <3>3, <3>6 DEF SeedInv
      <3>9. PICK i \in DOMAIN Runs : n = first[r] + i - 1
        <4>1. PICK b \in new[r] : b.number = n BY <3>3
        <4>2. \E i \in DOMAIN Runs : IsNew(r, i, b) BY <3>1, <3>3, <4>1 DEF SeedInv
        <4> QED BY <4>1, <4>2 DEF IsNew
      <3>10. i \in Nat \ {0} BY <3>9, RunsAreCounted
      <3> QED BY <3>7, <3>8, <3>9, <3>10, NumbersOfOthers
    <2>2. CASE l.on[1] # "number" /\ l.shared
      <3>1. r \notin Stars
        <4>1. l \notin StarLocks BY <2>2, LockShapes DEF StarLocks, RowLocks
        <4> QED BY <1>1, <1>3, <4>1 DEF RequestInv, StarInv, Shape
      <3>2. Ends(r, "reference gone") BY <1>1, <1>7, <2>2, <3>1
      <3> QED BY <1>2, <1>3, <3>2, EndsQuietly DEF Domains, Scratch
    <2>3. CASE l.on[1] # "number" /\ ~l.shared /\ r \in Stars
      <3>1. Ends(r, "stale") BY <1>1, <1>7, <2>3
      <3> QED BY <1>2, <1>3, <3>1, EndsQuietly DEF Domains, Scratch
    <2>4. CASE l.on[1] # "number" /\ ~l.shared /\ r \notin Stars
      <3>1. want' = [want EXCEPT ![r] = @ \ {l}] /\ UNCHANGED <<pc, result, got>>
        BY <1>1, <1>7, <2>4
      <3>2. /\ DOMAIN want' = Requests /\ want'[r] = want[r] \ {l}
            /\ \A q \in Requests \ {r} : want'[q] = want[q]
        BY <1>3, <3>1 DEF Domains
      <3>3. Quiet(r) BY <1>2, <1>3, <3>1, <3>2 DEF Quiet, Domains
      <3>4. \A x : x # l => (Asks(r, x)' <=> Asks(r, x)) BY <3>1, <3>2 DEF Asks
      <3>5. \A x : Asks(r, x)' => Asks(r, x) BY <3>1, <3>2 DEF Asks
      <3>6. \A places, locks : Shape(r, places, locks) => Shape(r, places, locks)'
        BY <3>1, <3>2 DEF Shape
      <3>7. /\ l # Advisory
            /\ \A x : l # Shared(x)
            /\ \A b \in rows : l # Exclusive(Row(b.id))
            /\ \A m \in DOMAIN models : l # Exclusive(Model(m))
            /\ user => l # Exclusive(UserRow)
        BY <1>7, <2>4, LockShapes DEF Found
      <3>8. ASSUME SeedInv(r) PROVE SeedInv(r)'
        <4>1. \A i, b : IsNew(r, i, b)' <=> IsNew(r, i, b) BY <1>2 DEF IsNew
        <4> QED BY <1>2, <3>1, <3>2, <3>4, <3>5, <3>6, <3>7, <3>8, <4>1 DEF SeedInv
      <3>9. ASSUME RemovalInv(r) PROVE RemovalInv(r)'
        <4>1. HeldModels(r)' = HeldModels(r) BY <1>2, <3>1 DEF HeldModels, Holds
        <4> QED BY <1>2, <3>1, <3>2, <3>4, <3>6, <3>7, <3>9, <4>1 DEF RemovalInv
      <3>10. ASSUME ClosingInv(r) PROVE ClosingInv(r)'
        BY <1>2, <3>1, <3>2, <3>4, <3>6, <3>7, <3>10 DEF ClosingInv
      <3>11. RequestInv(r)'
        BY <1>3, <1>4, <1>5, <2>4, <3>1, <3>8, <3>9, <3>10 DEF RequestInv, Over
      <3> QED BY <3>1, <3>3, <3>11, QuietSteps
    <2> QED BY <2>1, <2>2, <2>3, <2>4
  <1> QED BY <1>6, <1>7

\* A request of another kind keeps its invariant once it is that of its own kind.
LEMMA SeedsOwn ==
  ASSUME NEW s \in Seeds, SeedInv(s)', ~Over(s)'
  PROVE  RequestInv(s)'
  BY KindsOfRequests DEF RequestInv

LEMMA FindUserKeeps ==
  ASSUME Inv, NEW s \in Seeds, FindUser(s)
  PROVE  Inv'
  <1>1. Domains /\ RequestInv(s) /\ s \in Requests BY KindsOfRequests DEF Inv
  <1>2. pc[s] = "idle" BY DEF FindUser
  <1>3. want[s] = {} /\ got[s] = {} BY <1>1, <1>2 DEF RequestInv, Over
  <1>4. CASE user
    <2>1. Goto(s, "delete", {Advisory}) /\ Committed /\ Scratch BY <1>4 DEF FindUser
    <2>2. /\ rows' = rows /\ pc'[s] = "delete" /\ want'[s] = {Advisory} /\ got'[s] = {}
          /\ result'[s] = result[s] /\ (RequestInv(s)' => Inv')
      BY <1>1, <1>2, <1>3, <2>1, GoesOn DEF Domains, Scratch
    <2>3. \A l : Asks(s, l)' <=> l = Advisory BY <2>2 DEF Asks
    <2>4. \A i : Exclusive(Row(i)) # Advisory BY LockShapes
    <2>5. \A n : Exclusive(Number(n)) # Advisory BY LockShapes
    <2>6. Shape(s, {"delete", "number", "models", "insert", "commit"}, SeedLocks)'
      BY <2>2 DEF Shape, SeedLocks
    <2>7. SeedInv(s)'
      BY <1>1, <2>2, <2>3, <2>4, <2>5, <2>6 DEF SeedInv, RequestInv
    <2> QED BY <2>2, <2>7, SeedsOwn DEF Over
  <1>5. CASE ~user
    <2>1. Ends(s, "unknown user") /\ Committed /\ Scratch BY <1>5 DEF FindUser
    <2> QED BY <1>1, <2>1, EndsQuietly DEF Domains, Committed
  <1> QED BY <1>4, <1>5

LEMMA DeleteSeededKeeps ==
  ASSUME Inv, NEW s \in Seeds, DeleteSeeded(s)
  PROVE  Inv'
  <1>1. Domains /\ RowsInv /\ SeedInv(s) /\ s \in Requests
    BY KindsOfRequests DEF Inv, RequestInv
  <1>2. pc[s] = "delete" /\ want[s] = {} BY DEF DeleteSeeded, Ready
  <1>3. /\ rows' = rows /\ pc'[s] = "number" /\ want'[s] = SeededOnes /\ got'[s] = got[s]
        /\ result'[s] = result[s] /\ (RequestInv(s)' => Inv')
    BY <1>1, <1>2, GoesOn DEF DeleteSeeded, Domains, Scratch
  <1>4. Advisory \in got[s] BY <1>1, <1>2 DEF SeedInv, Asks
  <1>5. \A b \in rows : Exclusive(Row(b.id)) \in SeededOnes <=> b.seeded
    <2>1. \A b \in rows : b.seeded => Exclusive(Row(b.id)) \in SeededOnes BY DEF SeededOnes
    <2>2. ASSUME NEW b \in rows, Exclusive(Row(b.id)) \in SeededOnes PROVE b.seeded
      <3>1. PICK c \in rows : c.seeded /\ Exclusive(Row(b.id)) = Exclusive(Row(c.id))
        BY <2>2 DEF SeededOnes
      <3>2. b.id = c.id BY <3>1, LockShapes
      <3> QED BY <1>1, <3>1, <3>2 DEF RowsInv
    <2> QED BY <2>1, <2>2
  <1>6. SeededOnes \subseteq RowLocks BY <1>1 DEF SeededOnes, RowLocks, RowsInv
  <1>7. Shape(s, {"delete", "number", "models", "insert", "commit"}, SeedLocks)'
    BY <1>1, <1>3, <1>6 DEF Shape, SeedLocks, SeedInv
  <1>8. \A n : Exclusive(Number(n)) \notin RowLocks BY LockShapes DEF RowLocks
  <1>9. SeedInv(s)'
    BY <1>1, <1>2, <1>3, <1>4, <1>5, <1>6, <1>7, <1>8 DEF SeedInv, Asks
  <1> QED BY <1>3, <1>9, SeedsOwn DEF Over

\* A run that deleted the seeded rows holds these alone.
LEMMA SeededAreHeld ==
  ASSUME Inv, NEW s \in Seeds, want[s] = {}, pc[s] \in {"number", "commit"}
  PROVE  rows \ HeldRows(s) = {b \in rows : ~b.seeded}
  <1>1. SeedInv(s) BY KindsOfRequests DEF Inv, RequestInv
  <1>2. \A b \in rows : b.seeded <=> Exclusive(Row(b.id)) \in got[s] BY <1>1 DEF SeedInv, Asks
  <1>3. ASSUME NEW b \in rows PROVE Holds(s, Row(b.id)) <=> b.seeded
    <2>1. b.seeded => Holds(s, Row(b.id)) BY <1>2, LockShapes DEF Holds
    <2>2. ASSUME Holds(s, Row(b.id)) PROVE b.seeded
      <3>1. PICK l \in got[s] : l.on = Row(b.id) BY <2>2 DEF Holds
      <3>2. l \in SeedLocks BY <1>1 DEF SeedInv, Shape
      <3>3. l \in RowLocks BY <3>1, <3>2, LockShapes DEF SeedLocks, ReferenceLocks, NumberLocks
      <3>4. l = Exclusive(Row(b.id)) BY <3>1, <3>3, LockShapes DEF RowLocks
      <3> QED BY <1>2, <3>4
    <2> QED BY <2>1, <2>2
  <1> QED BY <1>3 DEF HeldRows

LEMMA LastNumberKeeps ==
  ASSUME Inv, NEW s \in Seeds, LastNumber(s)
  PROVE  Inv'
  <1> DEFINE left == rows \ HeldRows(s)
  <1>1. Domains /\ RowsInv /\ SeedInv(s) /\ s \in Requests
    BY KindsOfRequests DEF Inv, RequestInv
  <1>2. pc[s] = "number" /\ want[s] = {} BY DEF LastNumber, Ready
  <1>3. first'[s] = 1 + (IF left = {} THEN 0 ELSE Max({b.number : b \in left}))
    BY <1>1 DEF LastNumber, Domains
  <1>4. /\ rows' = rows /\ user' = user
        /\ pc'[s] = "models" /\ want'[s] = {} /\ got'[s] = got[s]
        /\ result'[s] = result[s] /\ (RequestInv(s)' => Inv')
    BY <1>1, <1>2, GoesOn DEF LastNumber, Domains
  <1>5. \A b \in rows : b.seeded <=> Exclusive(Row(b.id)) \in got[s]
    BY <1>1, <1>2 DEF SeedInv, Asks
  <1>6. left = {b \in rows : ~b.seeded} BY <1>2, SeededAreHeld
  <1>7. user => first'[s] = LastOther + 1
    <2> SUFFICES ASSUME user PROVE first'[s] = LastOther + 1 OBVIOUS
    <2>1. \A b \in left : \E o \in Others : o.number = b.number BY <1>1, <1>6 DEF RowsInv
    <2>2. \A o \in Others : \E b \in left : o.number = b.number BY <1>1, <1>6 DEF RowsInv
    <2>3. {b.number : b \in left} = {o.number : o \in Others} BY <2>1, <2>2
    <2>4. left = {} <=> Others = {} BY <2>1, <2>2
    <2> HIDE DEF left
    <2>5. CASE Others = {} BY <1>3, <2>4, <2>5, NumbersOfOthers
    <2>6. CASE Others # {}
      <3>1. first'[s] = 1 + Max({b.number : b \in left}) BY <1>3, <2>4, <2>6
      <3>2. LastOther = Max({o.number : o \in Others}) BY <2>6, NumbersOfOthers
      <3>3. first'[s] = 1 + LastOther BY <2>3, <3>1, <3>2
      <3> QED BY <3>3, NumbersOfOthers
    <2> QED BY <2>5, <2>6
  <1>8. first'[s] \in Nat \ {0}
    <2>1. CASE user BY <1>7, <2>1, NumbersOfOthers
    <2>2. CASE ~user BY <1>1, <1>3, <2>2 DEF RowsInv
    <2> QED BY <2>1, <2>2
  <1>9. Shape(s, {"delete", "number", "models", "insert", "commit"}, SeedLocks)'
    BY <1>1, <1>4 DEF Shape, SeedInv
  <1>10. SeedInv(s)'
    BY <1>1, <1>2, <1>4, <1>5, <1>7, <1>8, <1>9 DEF SeedInv, Asks
  <1> QED BY <1>4, <1>10, SeedsOwn DEF Over

LEMMA AddAllKeeps ==
  ASSUME Inv, NEW s \in Seeds, AddAll(s)
  PROVE  Inv'
  <1>1. Domains /\ RowsInv /\ SeedInv(s) /\ s \in Requests
    BY KindsOfRequests DEF Inv, RequestInv
  <1>2. pc[s] = "models" /\ want[s] = {} BY DEF AddAll, Ready
  <1>3. new'[s] = {Backtest(s, i) : i \in DOMAIN Runs} /\ first' = first
    BY <1>1 DEF AddAll, Domains
  <1>4. /\ rows' = rows /\ user' = user
        /\ pc'[s] = "insert" /\ want'[s] = {} /\ got'[s] = got[s]
        /\ result'[s] = result[s] /\ (RequestInv(s)' => Inv')
    BY <1>1, <1>2, GoesOn DEF AddAll, Domains
  <1>5. ASSUME NEW i \in DOMAIN Runs, NEW b, b = Backtest(s, i) PROVE IsNew(s, i, b)'
    <2> DEFINE m == ModelOf(Runs[i])
    <2>1. m = None \/ m \in DOMAIN Models BY <1>1 DEF ModelOf, Domains
    <2>2. /\ b.id = <<s, i>> /\ b.number = first[s] + i - 1 /\ b.seeded = TRUE /\ b.by = s
          /\ b.model = m /\ DOMAIN b = Fields
      BY <1>5 DEF Backtest, Fields
    <2> QED BY <1>3, <2>1, <2>2 DEF IsNew
  <1>6. \A i : Backtest(s, i).id = <<s, i>> BY DEF Backtest
  <1>7. /\ \A b \in new'[s] : \E i \in DOMAIN Runs : IsNew(s, i, b)'
        /\ \A i \in DOMAIN Runs : \E b \in new'[s] : IsNew(s, i, b)'
        /\ \A a, b \in new'[s] : a.id = b.id => a = b
    <2>1. \A b \in new'[s] : \E i \in DOMAIN Runs : b = Backtest(s, i) BY <1>3
    <2>2. \A i \in DOMAIN Runs : Backtest(s, i) \in new'[s] BY <1>3
    <2>3. \A b \in new'[s] : \E i \in DOMAIN Runs : IsNew(s, i, b)' BY <1>5, <2>1
    <2>4. \A i \in DOMAIN Runs : \E b \in new'[s] : IsNew(s, i, b)'
      <3> TAKE i \in DOMAIN Runs
      <3>1. PICK b \in new'[s] : b = Backtest(s, i) BY <2>2
      <3>2. IsNew(s, i, b)' BY <1>5, <3>1
      <3> QED BY <3>2
    <2>5. \A a, b \in new'[s] : a.id = b.id => a = b BY <1>6, <2>1
    <2> QED BY <2>3, <2>4, <2>5
  <1>8. Shape(s, {"delete", "number", "models", "insert", "commit"}, SeedLocks)'
    BY <1>1, <1>4 DEF Shape, SeedInv
  <1>9. SeedInv(s)'
    BY <1>1, <1>2, <1>3, <1>4, <1>7, <1>8 DEF SeedInv, Asks
  <1> QED BY <1>4, <1>9, SeedsOwn DEF Over

LEMMA InsertKeeps ==
  ASSUME Inv, NEW s \in Seeds, Insert(s)
  PROVE  Inv'
  <1> DEFINE numbers == {Exclusive(Number(b.number)) : b \in new[s]}
  <1>1. Domains /\ RowsInv /\ SeedInv(s) /\ s \in Requests
    BY KindsOfRequests DEF Inv, RequestInv
  <1>2. pc[s] = "insert" /\ want[s] = {} BY DEF Insert, Ready
  <1>3. /\ rows' = rows /\ user' = user /\ first' = first /\ new' = new
        /\ pc'[s] = "commit" /\ want'[s] = References(new[s]) \cup numbers /\ got'[s] = got[s]
        /\ result'[s] = result[s] /\ (RequestInv(s)' => Inv')
    BY <1>1, <1>2, GoesOn DEF Insert, Domains, Scratch
  <1>4. \A i, b : IsNew(s, i, b)' <=> IsNew(s, i, b) BY <1>3 DEF IsNew
  <1>5. \A b \in new[s] : b.number \in Nat /\ (b.model = None \/ b.model \in DOMAIN Models)
    <2> TAKE b \in new[s]
    <2>1. PICK i \in DOMAIN Runs : IsNew(s, i, b) BY <1>1, <1>2 DEF SeedInv
    <2>2. i \in Nat \ {0} BY RunsAreCounted
    <2>3. first[s] \in Nat \ {0} BY <1>1, <1>2 DEF SeedInv
    <2> QED BY <2>1, <2>2, <2>3 DEF IsNew
  <1>6. References(new[s]) \subseteq ReferenceLocks /\ numbers \subseteq NumberLocks
    BY <1>5 DEF References, ReferenceLocks, NumberLocks
  <1>7. Shape(s, {"delete", "number", "models", "insert", "commit"}, SeedLocks)'
    BY <1>1, <1>3, <1>6 DEF Shape, SeedInv, SeedLocks
  <1>8. \A i : Exclusive(Row(i)) \notin want'[s]
    <2>1. \A i : Exclusive(Row(i)) \notin ReferenceLocks BY LockShapes DEF ReferenceLocks
    <2>2. \A i : Exclusive(Row(i)) \notin NumberLocks BY LockShapes DEF NumberLocks
    <2> QED BY <1>3, <1>6, <2>1, <2>2
  <1>9. /\ Asks(s, Shared(UserRow))'
        /\ \A b \in new[s] : b.model # None => Asks(s, Shared(Model(b.model)))'
    BY <1>3 DEF Asks, References
  <1>10. \A n \in Nat : Exclusive(Number(n)) \in want'[s] => \E b \in new[s] : b.number = n
    <2> TAKE n \in Nat
    <2>1. Exclusive(Number(n)) \notin ReferenceLocks BY LockShapes DEF ReferenceLocks
    <2>2. Exclusive(Number(n)) \in numbers => \E b \in new[s] : b.number = n BY LockShapes
    <2> QED BY <1>3, <1>6, <2>1, <2>2
  <1> HIDE DEF numbers
  <1>11. SeedInv(s)'
    BY <1>1, <1>2, <1>3, <1>4, <1>7, <1>8, <1>9, <1>10 DEF SeedInv, Asks
  <1> QED BY <1>3, <1>11, SeedsOwn DEF Over

\* Others of a request that ends: where they are and what they lock.
LEMMA EndsOf ==
  ASSUME Domains, NEW r \in Requests, NEW how, Ends(r, how), Scratch
  PROVE  /\ DOMAIN pc' = Requests /\ DOMAIN result' = Requests
         /\ DOMAIN want' = Requests /\ DOMAIN got' = Requests
         /\ DOMAIN first' = Seeds /\ DOMAIN new' = Seeds /\ DOMAIN star' = Stars
         /\ pc'[r] = "done" /\ result'[r] = how /\ want'[r] = {} /\ got'[r] = {}
         /\ \A q \in Requests \ {r} :
              pc'[q] = pc[q] /\ result'[q] = result[q] /\ want'[q] = want[q] /\ got'[q] = got[q]
         /\ first' = first /\ new' = new
         /\ \A q \in Requests : got'[q] \subseteq got[q]
         /\ \A q \in Requests : pc[q] = "done" => pc'[q] = "done"
         /\ Over(r)'
  <1>1. /\ DOMAIN pc' = Requests /\ DOMAIN result' = Requests
        /\ DOMAIN want' = Requests /\ DOMAIN got' = Requests
        /\ pc'[r] = "done" /\ result'[r] = how /\ want'[r] = {} /\ got'[r] = {}
        /\ \A q \in Requests \ {r} :
             pc'[q] = pc[q] /\ result'[q] = result[q] /\ want'[q] = want[q] /\ got'[q] = got[q]
    BY DEF Domains, Ends
  <1>2. /\ DOMAIN first' = Seeds /\ DOMAIN new' = Seeds /\ DOMAIN star' = Stars
        /\ first' = first /\ new' = new
    BY DEF Domains, Scratch
  <1> QED BY <1>1, <1>2 DEF Over

\* The invariant of one that ended, with a result that no run of the command may not have.
LEMMA EndedKeepsItsOwn ==
  ASSUME Domains, NEW r \in Requests, NEW how, Ends(r, how), Scratch, how # "number taken"
  PROVE  RequestInv(r)'
  <1>1. pc'[r] = "done" /\ result'[r] = how /\ want'[r] = {} /\ got'[r] = {} /\ Over(r)' BY EndsOf
  <1>2. \A places, locks : Shape(r, places, locks)' BY <1>1 DEF Shape
  <1>3. \A l : ~Asks(r, l)' BY <1>1 DEF Asks
  <1>4. SeedInv(r)' BY <1>1, <1>2, <1>3 DEF SeedInv
  <1>5. RemovalInv(r)' BY <1>1, <1>2 DEF RemovalInv
  <1>6. ClosingInv(r)' BY <1>1, <1>2 DEF ClosingInv
  <1> QED BY <1>1, <1>2, <1>4, <1>5, <1>6 DEF RequestInv, StarInv

LEMMA CommitSeedRows ==
  ASSUME Inv, NEW s \in Seeds, CommitSeed(s)
  PROVE  /\ user /\ user' /\ models' = models
         /\ rows' = {b \in rows : ~b.seeded} \cup new[s]
         /\ \A b \in new[s] : \E i \in DOMAIN Runs : IsNew(s, i, b)
         /\ \A b \in new[s] : b.model # None => Shared(Model(b.model)) \in got[s]
         /\ Shared(UserRow) \in got[s]
         /\ RowsInv'
  <1>1. Domains /\ RowsInv /\ SeedInv(s) /\ s \in Requests /\ HeldIsThere
    BY KindsOfRequests DEF Inv, RequestInv
  <1>2. pc[s] = "commit" /\ want[s] = {} BY DEF CommitSeed, Ready
  <1>3. rows' = {b \in rows : ~b.seeded} \cup new[s] BY <1>2, SeededAreHeld DEF CommitSeed
  <1>4. models' = models /\ user' = user BY DEF CommitSeed
  <1>5. /\ \A b \in new[s] : b.model # None => Shared(Model(b.model)) \in got[s]
        /\ Shared(UserRow) \in got[s]
    BY <1>1, <1>2 DEF SeedInv, Asks
  <1>6. user BY <1>1, <1>5, LockShapes DEF HeldIsThere
  <1>7. /\ \A b \in new[s] : \E i \in DOMAIN Runs : IsNew(s, i, b)
        /\ \A i \in DOMAIN Runs : \E b \in new[s] : IsNew(s, i, b)
        /\ \A a, b \in new[s] : a.id = b.id => a = b
        /\ first[s] = LastOther + 1
    BY <1>1, <1>2, <1>6 DEF SeedInv
  <1>8. \A i \in DOMAIN Runs : i \in Nat \ {0} BY RunsAreCounted
  <1>9. /\ pc'[s] = "done"
        /\ \A q \in Requests : pc[q] = "done" => pc'[q] = "done"
    BY <1>1, EndsOf DEF CommitSeed
  <1>10. \A b \in new[s] :
           /\ b.seeded = TRUE /\ b.by = s /\ DOMAIN b = Fields /\ b.id \in Ids
           /\ b.number \in Nat /\ b.number > LastOther
           /\ b.model = None \/ b.model \in DOMAIN models
           /\ \E i \in DOMAIN Runs : b.id = <<s, i>>
    <2> TAKE b \in new[s]
    <2>1. PICK i \in DOMAIN Runs : IsNew(s, i, b) BY <1>7
    <2>2. b.number = LastOther + 1 + i - 1 BY <1>7, <2>1 DEF IsNew
    <2>3. b.number \in Nat /\ b.number > LastOther BY <1>8, <2>2, NumbersOfOthers
    <2>4. b.model = None \/ b.model \in DOMAIN models
      <3> SUFFICES ASSUME b.model # None PROVE b.model \in DOMAIN models OBVIOUS
      <3>1. b.model \in DOMAIN Models BY <2>1 DEF IsNew
      <3>2. Shared(Model(b.model)) \in got[s] BY <1>5
      <3>3. Shared(Model(b.model)).on = Model(b.model) BY LockShapes
      <3> QED BY <1>1, <3>1, <3>2, <3>3 DEF HeldIsThere
    <2>5. b.id = <<s, i>> BY <2>1 DEF IsNew
    <2>6. b.id \in Ids BY <2>5 DEF Ids
    <2> QED BY <2>1, <2>3, <2>4, <2>5, <2>6 DEF IsNew
  <1>11. \A b \in rows : ~b.seeded => b.number <= LastOther
    BY <1>1, <1>6, NumbersOfOthers DEF RowsInv
  <1>12. \A b \in rows' :
          /\ DOMAIN b = Fields /\ b.id \in Ids /\ b.number \in Nat /\ b.seeded \in BOOLEAN
          /\ b.model = None \/ b.model \in DOMAIN models
    BY <1>1, <1>3, <1>10 DEF RowsInv
  <1>13. \A b \in rows' : \A q \in Seeds, i \in DOMAIN Runs : b.id = <<q, i>> => pc'[q] = "done"
    <2> SUFFICES ASSUME NEW b \in rows', NEW q \in Seeds, NEW i \in DOMAIN Runs, b.id = <<q, i>>
                 PROVE  pc'[q] = "done"
      OBVIOUS
    <2>1. CASE b \in rows
      <3>1. pc[q] = "done" BY <1>1, <2>1 DEF RowsInv
      <3> QED BY <1>9, <3>1, KindsOfRequests
    <2>2. CASE b \in new[s]
      <3>1. q = s BY <1>10, <2>2
      <3> QED BY <1>9, <3>1
    <2> QED BY <1>3, <2>1, <2>2
  <1>14. \A a, b \in rows' : a.id = b.id \/ a.number = b.number => a = b
    <2> SUFFICES ASSUME NEW a \in rows', NEW b \in rows', a.id = b.id \/ a.number = b.number
                 PROVE  a = b
      OBVIOUS
    <2>1. CASE a \in rows /\ b \in rows BY <1>1, <2>1 DEF RowsInv
    <2>2. CASE a \in new[s] /\ b \in new[s]
      <3>1. PICK i \in DOMAIN Runs : IsNew(s, i, a) BY <1>7, <2>2
      <3>2. PICK j \in DOMAIN Runs : IsNew(s, j, b) BY <1>7, <2>2
      <3>3. a.number = first[s] + i - 1 /\ b.number = first[s] + j - 1 /\ a.id = <<s, i>> /\ b.id = <<s, j>>
        BY <3>1, <3>2 DEF IsNew
      <3>4. i \in Nat /\ j \in Nat /\ first[s] \in Nat BY <1>7, <1>8, NumbersOfOthers
      <3>5. a.number = b.number => i = j BY <3>3, <3>4
      <3>6. a.id = b.id BY <3>3, <3>5
      <3> QED BY <1>7, <2>2, <3>6
    <2>3. CASE a \in new[s] /\ b \in rows /\ ~b.seeded
      <3>1. a.id # b.id BY <1>1, <1>2, <1>10, <2>3 DEF RowsInv
      <3>2. a.number # b.number BY <1>10, <1>11, <2>3, NumbersOfOthers
      <3> QED BY <3>1, <3>2
    <2>4. CASE b \in new[s] /\ a \in rows /\ ~a.seeded
      <3>1. a.id # b.id BY <1>1, <1>2, <1>10, <2>4 DEF RowsInv
      <3>2. a.number # b.number BY <1>10, <1>11, <2>4, NumbersOfOthers
      <3> QED BY <3>1, <3>2
    <2> QED BY <1>3, <2>1, <2>2, <2>3, <2>4
  <1>15. \A a, b \in rows' : a.seeded /\ b.seeded => a.by = b.by BY <1>3, <1>10
  <1>16. \A b \in rows' : ~b.seeded <=> b \in rows /\ ~b.seeded BY <1>3, <1>10
  <1>17. \E n \in Nat : \A k \in Nat :
           (\E b \in rows' : b.seeded /\ b.number = k) <=> k \in (LastOther + 1)..(LastOther + n)
    <2>1. DOMAIN Runs = 1..Len(Runs) /\ Len(Runs) \in Nat BY ExperimentsAssumption
    <2>2. ASSUME NEW k \in Nat, NEW b \in rows', b.seeded, b.number = k
          PROVE  k \in (LastOther + 1)..(LastOther + Len(Runs))
      <3>1. b \in new[s] BY <1>16, <1>3, <2>2
      <3>2. PICK i \in DOMAIN Runs : IsNew(s, i, b) BY <1>7, <3>1
      <3>3. k = LastOther + 1 + i - 1 BY <1>7, <2>2, <3>2 DEF IsNew
      <3> QED BY <2>1, <3>3, NumbersOfOthers
    <2>3. ASSUME NEW k \in (LastOther + 1)..(LastOther + Len(Runs))
          PROVE  \E b \in rows' : b.seeded /\ b.number = k
      <3>1. k - LastOther \in DOMAIN Runs BY <2>1, NumbersOfOthers
      <3>2. PICK b \in new[s] : IsNew(s, k - LastOther, b) BY <1>7, <3>1
      <3>3. b.number = LastOther + 1 + (k - LastOther) - 1 BY <1>7, <3>2 DEF IsNew
      <3>4. b.number = k BY <3>3, NumbersOfOthers
      <3> QED BY <1>3, <1>10, <3>4
    <2> QED BY <2>1, <2>2, <2>3
  <1>18. RowsInv'
    BY <1>1, <1>3, <1>4, <1>6, <1>12, <1>13, <1>14, <1>15, <1>16, <1>17 DEF RowsInv
  <1> QED BY <1>3, <1>4, <1>5, <1>6, <1>7, <1>18

LEMMA CommitSeedKeeps ==
  ASSUME Inv, NEW s \in Seeds, CommitSeed(s)
  PROVE  Inv'
  <1>1. /\ Domains /\ RowsInv /\ SeedInv(s) /\ s \in Requests /\ HeldIsThere /\ Mutex
        /\ \A r \in Requests : RequestInv(r)
    BY KindsOfRequests DEF Inv, RequestInv
  <1>2. pc[s] = "commit" /\ want[s] = {} BY DEF CommitSeed, Ready
  <1>3. /\ user /\ user' /\ models' = models
        /\ rows' = {b \in rows : ~b.seeded} \cup new[s]
        /\ \A b \in new[s] : \E i \in DOMAIN Runs : IsNew(s, i, b)
        /\ \A b \in new[s] : b.model # None => Shared(Model(b.model)) \in got[s]
        /\ Shared(UserRow) \in got[s]
        /\ RowsInv'
    BY CommitSeedRows
  <1>4. Ends(s, "ok") /\ Scratch BY DEF CommitSeed
  <1>5. /\ got'[s] = {} /\ first' = first /\ new' = new
        /\ \A q \in Requests \ {s} :
             pc'[q] = pc[q] /\ result'[q] = result[q] /\ want'[q] = want[q] /\ got'[q] = got[q]
        /\ \A q \in Requests : got'[q] \subseteq got[q]
    BY <1>1, <1>4, EndsOf
  <1>6. Domains' BY <1>1, <1>3, <1>4, EndsOf DEF Domains
  <1>7. Mutex' BY <1>1, <1>5 DEF Mutex, Clash
  <1>8. HeldIsThere' BY <1>1, <1>3, <1>5 DEF HeldIsThere, UserRow, Model
  <1>9. RequestInv(s)' BY <1>1, <1>4, EndedKeepsItsOwn
  <1>10. \A b \in new[s] : b.seeded = TRUE BY <1>3 DEF IsNew
  <1>11. ASSUME NEW q \in Requests \ {s} PROVE RequestInv(q)'
    <2>1. \A l : Asks(q, l)' <=> Asks(q, l) BY <1>5 DEF Asks
    <2>2. \A places, locks : Shape(q, places, locks)' <=> Shape(q, places, locks) BY <1>5 DEF Shape
    <2>3. ASSUME q \in Seeds PROVE SeedInv(q)'
      <3>1. SeedInv(q) BY <1>1, <2>3 DEF RequestInv
      <3>2. Advisory \notin got[q]
        <4>1. Advisory \in got[s] BY <1>1, <1>2 DEF SeedInv
        <4>2. Clash(Advisory, Advisory) BY LockShapes DEF Clash
        <4> QED BY <1>1, <4>1, <4>2 DEF Mutex
      <3>3. pc[q] \in {"idle", "done", "delete"} BY <3>1, <3>2 DEF SeedInv, Shape
      <3>4. \A b \in rows' : Asks(q, Exclusive(Row(b.id))) => b.seeded
        BY <1>3, <1>10, <3>1 DEF SeedInv
      <3> QED BY <1>5, <2>1, <2>2, <3>1, <3>3, <3>4 DEF SeedInv
    <2>4. ASSUME q \in Removals PROVE RemovalInv(q)'
      <3>1. RemovalInv(q) BY <1>1, <2>4 DEF RequestInv
      <3>2. HeldModels(q)' = HeldModels(q) BY <1>3, <1>5 DEF HeldModels, Holds
      <3>3. ASSUME NEW b \in new[s], b.model \in HeldModels(q) PROVE FALSE
        <4>1. PICK l \in got[q] : l.on = Model(b.model) BY <3>3 DEF HeldModels, Holds
        <4>2. PICK i \in DOMAIN Runs : IsNew(s, i, b) BY <1>3
        <4>3. b.model # None
          BY <1>1, <3>3, ExperimentsAssumption DEF HeldModels, Domains
        <4>4. Shared(Model(b.model)) \in got[s] BY <1>3, <4>3
        <4>5. l \in RemovalLocks BY <3>1 DEF RemovalInv, Shape
        <4>6. ~l.shared BY <4>5, LockShapes DEF RemovalLocks, ModelLocks, RowLocks
        <4>7. Clash(l, Shared(Model(b.model))) BY <4>1, <4>6, LockShapes DEF Clash
        <4> QED BY <1>1, <4>4, <4>7 DEF Mutex
      <3> QED BY <1>3, <1>5, <2>1, <2>2, <3>1, <3>2, <3>3 DEF RemovalInv
    <2>5. ASSUME q \in Closings PROVE ClosingInv(q)'
      <3>1. ClosingInv(q) BY <1>1, <2>5 DEF RequestInv
      <3>2. Exclusive(UserRow) \notin got[q]
        <4>1. Clash(Exclusive(UserRow), Shared(UserRow)) BY LockShapes DEF Clash
        <4> QED BY <1>1, <1>3, <4>1 DEF Mutex
      <3>3. pc[q] # "commit" BY <1>3, <3>1, <3>2 DEF ClosingInv
      <3> QED BY <1>3, <1>5, <2>1, <2>2, <3>1, <3>3 DEF ClosingInv
    <2>6. Over(q)' <=> Over(q) BY <1>5 DEF Over
    <2> QED BY <1>1, <1>5, <2>2, <2>3, <2>4, <2>5, <2>6 DEF RequestInv, StarInv
  <1> QED BY <1>3, <1>6, <1>7, <1>8, <1>9, <1>11 DEF Inv

-----------------------------------------------------------------------------
\* A changed backtest is the one it was but for its model and what is not said of it.
Alike(c, b) ==
    /\ c.id = b.id /\ c.number = b.number /\ c.seeded = b.seeded /\ c.by = b.by
    /\ DOMAIN c = DOMAIN b
    /\ c.model = b.model \/ c.model = None

RowsAlike ==
    /\ \A c \in rows' : \E b \in rows : Alike(c, b)
    /\ \A b \in rows : \E c \in rows' : Alike(c, b)
    /\ \A c, d \in rows' : c.id = d.id => c = d

LEMMA StarredAreAlike ==
  ASSUME Inv, NEW t \in Stars, CommitStar(t)
  PROVE  RowsAlike /\ \A c \in rows' : \E b \in rows : Alike(c, b) /\ c.model = b.model
  <1> DEFINE f(b) == IF Holds(t, Row(b.id)) THEN Written(t, b) ELSE b
  <1>1. rows' = {f(b) : b \in rows} BY DEF CommitStar
  <1>2. \A b \in rows : Alike(f(b), b) /\ f(b).model = b.model
    <2> TAKE b \in rows
    <2>1. DOMAIN b = Fields BY DEF Inv, RowsInv
    <2>2. Alike(b, b) BY DEF Alike
    <2>3. Alike(Written(t, b), b) /\ Written(t, b).model = b.model
      BY <2>1 DEF Written, Alike, Fields
    <2> QED BY <2>2, <2>3
  <1> HIDE DEF f
  <1>3. \A c \in rows' : \E b \in rows : c = f(b) BY <1>1
  <1>4. \A b \in rows : f(b) \in rows' BY <1>1
  <1>5. \A c, d \in rows' : c.id = d.id => c = d
    <2> SUFFICES ASSUME NEW c \in rows', NEW d \in rows', c.id = d.id PROVE c = d OBVIOUS
    <2>1. PICK a \in rows : c = f(a) BY <1>3
    <2>2. PICK b \in rows : d = f(b) BY <1>3
    <2>3. a.id = b.id BY <1>2, <2>1, <2>2 DEF Alike
    <2>4. a = b BY <2>3 DEF Inv, RowsInv
    <2> QED BY <2>1, <2>2, <2>4
  <1> QED BY <1>2, <1>3, <1>4, <1>5 DEF RowsAlike

LEMMA UnsetAreAlike ==
  ASSUME Inv, NEW d \in Removals, CommitRemoval(d)
  PROVE  /\ RowsAlike
         /\ \A c \in rows' : \E b \in rows :
                Alike(c, b) /\ (Exclusive(Row(b.id)) \in got[d] => c.model = None)
  <1> DEFINE f(b) == IF Holds(d, Row(b.id)) THEN Without(b) ELSE b
  <1>1. rows' = {f(b) : b \in rows} BY DEF CommitRemoval
  <1>2. \A b \in rows : Alike(f(b), b) /\ (Exclusive(Row(b.id)) \in got[d] => f(b).model = None)
    <2> TAKE b \in rows
    <2>1. DOMAIN b = Fields BY DEF Inv, RowsInv
    <2>2. Alike(b, b) BY DEF Alike
    <2>3. Alike(Without(b), b) /\ Without(b).model = None
      BY <2>1 DEF Without, Alike, Fields
    <2>4. Exclusive(Row(b.id)) \in got[d] => Holds(d, Row(b.id)) BY LockShapes DEF Holds
    <2> QED BY <2>2, <2>3, <2>4
  <1> HIDE DEF f
  <1>3. \A c \in rows' : \E b \in rows : c = f(b) BY <1>1
  <1>4. \A b \in rows : f(b) \in rows' BY <1>1
  <1>5. \A c, e \in rows' : c.id = e.id => c = e
    <2> SUFFICES ASSUME NEW c \in rows', NEW e \in rows', c.id = e.id PROVE c = e OBVIOUS
    <2>1. PICK a \in rows : c = f(a) BY <1>3
    <2>2. PICK b \in rows : e = f(b) BY <1>3
    <2>3. a.id = b.id BY <1>2, <2>1, <2>2 DEF Alike
    <2>4. a = b BY <2>3 DEF Inv, RowsInv
    <2> QED BY <2>1, <2>2, <2>4
  <1> QED BY <1>2, <1>3, <1>4, <1>5 DEF RowsAlike

\* Rows that are alike keep what is said of them, once no model of theirs goes.
LEMMA AlikeKeepsRows ==
  ASSUME Inv, RowsAlike, user' = user, DOMAIN models' \subseteq DOMAIN models,
         models = <<>> => models' = <<>>,
         \A q \in Requests : pc[q] = "done" => pc'[q] = "done",
         \A c \in rows' : c.model = None \/ c.model \in DOMAIN models'
  PROVE  RowsInv'
  <1>1. RowsInv BY DEF Inv
  <1>2. \A b \in rows' :
          /\ DOMAIN b = Fields /\ b.id \in Ids /\ b.number \in Nat /\ b.seeded \in BOOLEAN
          /\ b.model = None \/ b.model \in DOMAIN models'
    BY <1>1 DEF RowsInv, RowsAlike, Alike
  <1>3. \A b \in rows' : \A q \in Seeds, i \in DOMAIN Runs : b.id = <<q, i>> => pc'[q] = "done"
    <2> SUFFICES ASSUME NEW c \in rows', NEW q \in Seeds, NEW i \in DOMAIN Runs, c.id = <<q, i>>
                 PROVE  pc'[q] = "done"
      OBVIOUS
    <2>1. PICK b \in rows : b.id = <<q, i>> BY DEF RowsAlike, Alike
    <2>2. pc[q] = "done" BY <1>1, <2>1 DEF RowsInv
    <2> QED BY <2>2, KindsOfRequests
  <1>4. \A a, b \in rows' : a.id = b.id \/ a.number = b.number => a = b
    <2> SUFFICES ASSUME NEW a \in rows', NEW b \in rows', a.id = b.id \/ a.number = b.number
                 PROVE  a = b
      OBVIOUS
    <2>1. PICK c \in rows : Alike(a, c) BY DEF RowsAlike
    <2>2. PICK e \in rows : Alike(b, e) BY DEF RowsAlike
    <2>3. c = e BY <1>1, <2>1, <2>2 DEF RowsInv, Alike
    <2>4. a.id = b.id BY <2>1, <2>2, <2>3 DEF Alike
    <2> QED BY <2>4 DEF RowsAlike
  <1>5. \A a, b \in rows' : a.seeded /\ b.seeded => a.by = b.by
    BY <1>1 DEF RowsInv, RowsAlike, Alike
  <1>6. \A b \in rows' : \E c \in rows : c.id = b.id /\ c.number = b.number /\ c.seeded = b.seeded
    BY DEF RowsAlike, Alike
  <1>7. \A c \in rows : \E b \in rows' : c.id = b.id /\ c.number = b.number /\ c.seeded = b.seeded
    BY DEF RowsAlike, Alike
  <1>8. user =>
          /\ \A b \in rows' : ~b.seeded => \E o \in Others : o.id = b.id /\ o.number = b.number
          /\ \A o \in Others : \E b \in rows' : ~b.seeded /\ o.id = b.id /\ o.number = b.number
    BY <1>1, <1>6, <1>7 DEF RowsInv
  <1>9. \A k \in Nat : (\E b \in rows' : b.seeded /\ b.number = k)
                           <=> (\E b \in rows : b.seeded /\ b.number = k)
    BY <1>6, <1>7
  <1>10. user => \E n \in Nat : \A k \in Nat :
           (\E b \in rows' : b.seeded /\ b.number = k) <=> k \in (LastOther + 1)..(LastOther + n)
    <2> SUFFICES ASSUME user
                 PROVE  \E n \in Nat : \A k \in Nat :
                            (\E b \in rows' : b.seeded /\ b.number = k)
                                <=> k \in (LastOther + 1)..(LastOther + n)
      OBVIOUS
    <2>1. PICK n \in Nat : \A k \in Nat :
             (\E b \in rows : b.seeded /\ b.number = k) <=> k \in (LastOther + 1)..(LastOther + n)
      BY <1>1 DEF RowsInv
    <2> QED BY <1>9, <2>1
  <1>11. ~user => rows' = {} /\ models' = <<>> BY <1>1, <1>6 DEF RowsInv
  <1> QED BY <1>2, <1>3, <1>4, <1>5, <1>8, <1>10, <1>11 DEF RowsInv

\* ... and so do the requests that did not change them.
LEMMA AlikeKeepsRequests ==
  ASSUME Inv, RowsAlike, user' = user, DOMAIN models' \subseteq DOMAIN models,
         first' = first, new' = new, NEW q \in Requests,
         pc'[q] = pc[q], result'[q] = result[q], want'[q] = want[q], got'[q] = got[q]
  PROVE  RequestInv(q)'
  <1>1. RequestInv(q) /\ Domains BY DEF Inv
  <1>2. \A l : Asks(q, l)' <=> Asks(q, l) BY DEF Asks
  <1>3. \A places, locks : Shape(q, places, locks)' <=> Shape(q, places, locks) BY DEF Shape
  <1>4. \A b \in rows' : \E c \in rows : c.id = b.id /\ c.seeded = b.seeded
    BY DEF RowsAlike, Alike
  <1>5. ASSUME SeedInv(q) PROVE SeedInv(q)'
    <2>1. \A i, b : IsNew(q, i, b)' <=> IsNew(q, i, b) BY DEF IsNew
    <2>2. ASSUME NEW b \in rows', Asks(q, Exclusive(Row(b.id))) PROVE b.seeded
      <3>1. PICK c \in rows : c.id = b.id /\ c.seeded = b.seeded BY <1>4
      <3>2. c.seeded BY <1>5, <2>2, <3>1 DEF SeedInv
      <3> QED BY <3>1, <3>2
    <2>3. pc[q] = "number" => \A b \in rows' : b.seeded => Asks(q, Exclusive(Row(b.id)))
      BY <1>4, <1>5 DEF SeedInv
    <2>4. pc[q] \in {"models", "insert", "commit"} =>
            \A b \in rows' : b.seeded => Exclusive(Row(b.id)) \in got[q]
      BY <1>4, <1>5 DEF SeedInv
    <2> QED BY <1>2, <1>3, <1>5, <2>1, <2>2, <2>3, <2>4 DEF SeedInv
  <1>6. ASSUME RemovalInv(q) PROVE RemovalInv(q)'
    <2>1. HeldModels(q)' \subseteq HeldModels(q) BY DEF HeldModels, Holds
    <2>2. None \notin HeldModels(q) BY <1>1, ExperimentsAssumption DEF HeldModels, Domains
    <2>3. ASSUME pc[q] = "commit", NEW c \in rows', c.model \in HeldModels(q)'
          PROVE  Asks(q, Exclusive(Row(c.id)))
      <3>1. PICK b \in rows : Alike(c, b) BY DEF RowsAlike
      <3>2. b.model \in HeldModels(q) BY <2>1, <2>2, <2>3, <3>1 DEF Alike
      <3>3. b.id = c.id BY <3>1 DEF Alike
      <3> QED BY <1>6, <2>3, <3>2, <3>3 DEF RemovalInv
    <2> QED BY <1>2, <1>3, <1>6, <2>3 DEF RemovalInv
  <1>7. ASSUME ClosingInv(q) PROVE ClosingInv(q)'
    BY <1>2, <1>3, <1>4, <1>7 DEF ClosingInv
  <1>8. Over(q)' <=> Over(q) BY DEF Over
  <1> QED BY <1>1, <1>3, <1>5, <1>6, <1>7, <1>8 DEF RequestInv, StarInv

LEMMA CommitStarKeeps ==
  ASSUME Inv, NEW t \in Stars, CommitStar(t)
  PROVE  Inv'
  <1>1. /\ Domains /\ RowsInv /\ t \in Requests /\ HeldIsThere /\ Mutex
    BY KindsOfRequests DEF Inv
  <1>2. user' = user /\ models' = models /\ Ends(t, "ok") /\ Scratch BY DEF CommitStar
  <1>3. /\ first' = first /\ new' = new
        /\ \A q \in Requests \ {t} :
             pc'[q] = pc[q] /\ result'[q] = result[q] /\ want'[q] = want[q] /\ got'[q] = got[q]
        /\ \A q \in Requests : got'[q] \subseteq got[q]
        /\ \A q \in Requests : pc[q] = "done" => pc'[q] = "done"
    BY <1>1, <1>2, EndsOf
  <1>4. RowsAlike /\ \A c \in rows' : \E b \in rows : Alike(c, b) /\ c.model = b.model
    BY StarredAreAlike
  <1>5. Domains' BY <1>1, <1>2, EndsOf DEF Domains
  <1>6. Mutex' BY <1>1, <1>3 DEF Mutex, Clash
  <1>7. HeldIsThere' BY <1>1, <1>2, <1>3 DEF HeldIsThere, UserRow, Model
  <1>8. RequestInv(t)' BY <1>1, <1>2, EndedKeepsItsOwn
  <1>9. \A q \in Requests \ {t} : RequestInv(q)' BY <1>2, <1>3, <1>4, AlikeKeepsRequests
  <1>10. \A c \in rows' : c.model = None \/ c.model \in DOMAIN models'
    BY <1>1, <1>2, <1>4 DEF RowsInv
  <1>11. RowsInv' BY <1>2, <1>3, <1>4, <1>10, AlikeKeepsRows
  <1> QED BY <1>5, <1>6, <1>7, <1>8, <1>9, <1>11 DEF Inv

LEMMA CommitRemovalKeeps ==
  ASSUME Inv, NEW d \in Removals, CommitRemoval(d)
  PROVE  Inv'
  <1>1. /\ Domains /\ RowsInv /\ d \in Requests /\ HeldIsThere /\ Mutex /\ RemovalInv(d)
    BY KindsOfRequests DEF Inv, RequestInv
  <1>2. /\ user' = user /\ Ends(d, "ok") /\ Scratch /\ pc[d] = "commit" /\ want[d] = {}
        /\ models' = [m \in DOMAIN models \ HeldModels(d) |-> models[m]]
    BY DEF CommitRemoval, Ready
  <1>3. /\ first' = first /\ new' = new /\ got'[d] = {}
        /\ \A q \in Requests \ {d} :
             pc'[q] = pc[q] /\ result'[q] = result[q] /\ want'[q] = want[q] /\ got'[q] = got[q]
        /\ \A q \in Requests : got'[q] \subseteq got[q]
        /\ \A q \in Requests : pc[q] = "done" => pc'[q] = "done"
    BY <1>1, <1>2, EndsOf
  <1>4. /\ RowsAlike
        /\ \A c \in rows' : \E b \in rows :
               Alike(c, b) /\ (Exclusive(Row(b.id)) \in got[d] => c.model = None)
    BY UnsetAreAlike
  <1>5. /\ DOMAIN models' = DOMAIN models \ HeldModels(d)
        /\ (models = <<>> => models' = <<>>)
    <2>1. models = <<>> => DOMAIN models \ HeldModels(d) = {} OBVIOUS
    <2> QED BY <1>2, <2>1
  <1>6. Domains' BY <1>1, <1>2, <1>5, EndsOf DEF Domains
  <1>7. Mutex' BY <1>1, <1>3 DEF Mutex, Clash
  <1>8. HeldIsThere'
    <2> SUFFICES ASSUME NEW q \in Requests \ {d}, NEW l \in got[q]
                 PROVE  /\ l.on = UserRow => user
                        /\ \A m \in DOMAIN Models : l.on = Model(m) => m \in DOMAIN models'
      BY <1>2, <1>3 DEF HeldIsThere, UserRow, Model
    <2>1. l.on = UserRow => user BY <1>1 DEF HeldIsThere
    <2>2. ASSUME NEW m \in DOMAIN Models, l.on = Model(m) PROVE m \in DOMAIN models'
      <3>1. m \in DOMAIN models BY <1>1, <2>2 DEF HeldIsThere
      <3>2. ASSUME m \in HeldModels(d) PROVE FALSE
        <4>1. PICK k \in got[d] : k.on = Model(m) BY <3>2 DEF HeldModels, Holds
        <4>2. k \in RemovalLocks BY <1>1 DEF RemovalInv, Shape
        <4>3. ~k.shared BY <4>2, LockShapes DEF RemovalLocks, ModelLocks, RowLocks
        <4>4. Clash(k, l) BY <2>2, <4>1, <4>3 DEF Clash
        <4> QED BY <1>1, <4>4 DEF Mutex
      <3> QED BY <1>5, <3>1, <3>2
    <2> QED BY <2>1, <2>2
  <1>9. RequestInv(d)' BY <1>1, <1>2, EndedKeepsItsOwn
  <1>10. \A q \in Requests \ {d} : RequestInv(q)' BY <1>2, <1>3, <1>4, <1>5, AlikeKeepsRequests
  <1>11. \A c \in rows' : c.model = None \/ c.model \in DOMAIN models'
    <2> SUFFICES ASSUME NEW c \in rows', c.model # None PROVE c.model \in DOMAIN models' OBVIOUS
    <2>1. PICK b \in rows : Alike(c, b) /\ (Exclusive(Row(b.id)) \in got[d] => c.model = None)
      BY <1>4
    <2>2. c.model = b.model BY <2>1 DEF Alike
    <2>3. b.model \in DOMAIN models BY <1>1, <2>2 DEF RowsInv
    <2>4. b.model \notin HeldModels(d) BY <1>1, <1>2, <2>1 DEF RemovalInv, Asks
    <2> QED BY <1>5, <2>2, <2>3, <2>4
  <1>12. RowsInv' BY <1>2, <1>3, <1>4, <1>5, <1>11, AlikeKeepsRows
  <1> QED BY <1>6, <1>7, <1>8, <1>9, <1>10, <1>12 DEF Inv

-----------------------------------------------------------------------------
LEMMA StarsOwn ==
  ASSUME NEW t \in Stars, StarInv(t)', ~Over(t)'
  PROVE  RequestInv(t)'
  BY KindsOfRequests DEF RequestInv

LEMMA RemovalsOwn ==
  ASSUME NEW d \in Removals, RemovalInv(d)', ~Over(d)'
  PROVE  RequestInv(d)'
  BY KindsOfRequests DEF RequestInv

LEMMA ClosingsOwn ==
  ASSUME NEW k \in Closings, ClosingInv(k)', ~Over(k)'
  PROVE  RequestInv(k)'
  BY KindsOfRequests DEF RequestInv

LEMMA SelectBacktestKeeps ==
  ASSUME Inv, NEW t \in Stars, NEW id \in Ids, NEW starred \in BOOLEAN,
         SelectBacktest(t, id, starred)
  PROVE  Inv'
  <1>1. Domains /\ RequestInv(t) /\ t \in Requests BY KindsOfRequests DEF Inv
  <1>2. pc[t] = "idle" BY DEF SelectBacktest
  <1>3. want[t] = {} /\ got[t] = {} BY <1>1, <1>2 DEF RequestInv, Over
  <1>4. CASE \E b \in rows : b.id = id
    <2>1. PICK locks : Goto(t, "update", locks) /\ locks \subseteq {Exclusive(Row(id))}
      BY <1>4 DEF SelectBacktest
    <2>2. /\ Committed /\ first' = first /\ new' = new
          /\ DOMAIN star' = Stars
      BY <1>1, <1>4 DEF SelectBacktest, Domains
    <2>3. /\ pc'[t] = "update" /\ want'[t] = locks /\ got'[t] = {}
          /\ (RequestInv(t)' => Inv')
      BY <1>1, <1>2, <1>3, <2>1, <2>2, GoesOn DEF Domains
    <2>4. locks \subseteq StarLocks BY <2>1 DEF StarLocks, RowLocks
    <2>5. StarInv(t)' BY <2>3, <2>4 DEF StarInv, Shape
    <2> QED BY <2>3, <2>5, StarsOwn DEF Over
  <1>5. CASE ~ \E b \in rows : b.id = id
    <2>1. Ends(t, "not found") /\ Committed /\ Scratch BY <1>5 DEF SelectBacktest, Scratch
    <2> QED BY <1>1, <2>1, EndsQuietly DEF Domains, Committed
  <1> QED BY <1>4, <1>5

LEMMA RenameKeeps ==
  ASSUME Inv, NEW r \in Renames, NEW m \in DOMAIN Models, NEW name, Rename(r, m, name)
  PROVE  Inv'
  <1>1. Domains /\ r \in Requests BY KindsOfRequests DEF Inv
  <1>2. Ends(r, "ok") \/ Ends(r, "refused") BY DEF Rename
  <1>3. rows' = rows /\ user' = user /\ Scratch BY DEF Rename
  <1>4. DOMAIN models' = DOMAIN models /\ (models = <<>> => models' = <<>>)
    <2>1. (m \in DOMAIN models /\ models' = [models EXCEPT ![m] = name]) \/ models' = models
      BY DEF Rename
    <2>2. models = <<>> => m \notin DOMAIN models OBVIOUS
    <2> QED BY <2>1, <2>2
  <1> QED BY <1>1, <1>2, <1>3, <1>4, EndsQuietly

LEMMA DeleteModelKeeps ==
  ASSUME Inv, NEW d \in Removals, NEW m \in DOMAIN Models, DeleteModel(d, m)
  PROVE  Inv'
  <1>1. Domains /\ RequestInv(d) /\ d \in Requests BY KindsOfRequests DEF Inv
  <1>2. pc[d] = "idle" BY DEF DeleteModel
  <1>3. want[d] = {} /\ got[d] = {} BY <1>1, <1>2 DEF RequestInv, Over
  <1>4. CASE m \in DOMAIN models
    <2>1. Goto(d, "unset", {Exclusive(Model(m))}) /\ Committed /\ Scratch
      BY <1>4 DEF DeleteModel
    <2>2. /\ pc'[d] = "unset" /\ want'[d] = {Exclusive(Model(m))} /\ got'[d] = {}
          /\ (RequestInv(d)' => Inv')
      BY <1>1, <1>2, <1>3, <2>1, GoesOn DEF Domains, Scratch
    <2>3. RemovalInv(d)' BY <2>2 DEF RemovalInv, Shape, RemovalLocks, ModelLocks
    <2> QED BY <2>2, <2>3, RemovalsOwn DEF Over
  <1>5. CASE m \notin DOMAIN models
    <2>1. Ends(d, "not found") /\ Committed /\ Scratch BY <1>5 DEF DeleteModel
    <2> QED BY <1>1, <2>1, EndsQuietly DEF Domains, Committed
  <1> QED BY <1>4, <1>5

\* The rows that a removal and a closing wait for.
LEMMA RowsOfModels ==
  ASSUME Inv, NEW r \in Requests
  PROVE  /\ UNION {RowsOf(m) : m \in HeldModels(r)} \subseteq RowLocks
         /\ \A b \in rows : b.model \in HeldModels(r) =>
                Exclusive(Row(b.id)) \in UNION {RowsOf(m) : m \in HeldModels(r)}
  <1>1. \A m : RowsOf(m) \subseteq RowLocks BY DEF Inv, RowsInv, RowsOf, RowLocks
  <1>2. \A b \in rows : Exclusive(Row(b.id)) \in RowsOf(b.model) BY DEF RowsOf
  <1> QED BY <1>1, <1>2

LEMMA UnsetModelKeeps ==
  ASSUME Inv, NEW d \in Removals, UnsetModel(d)
  PROVE  Inv'
  <1> DEFINE locks == UNION {RowsOf(m) : m \in HeldModels(d)}
  <1>1. Domains /\ RemovalInv(d) /\ d \in Requests BY KindsOfRequests DEF Inv, RequestInv
  <1>2. pc[d] = "unset" /\ want[d] = {} BY DEF UnsetModel, Ready
  <1>3. CASE HeldModels(d) = {}
    <2>1. Ends(d, "not found") /\ Committed /\ Scratch BY <1>3 DEF UnsetModel
    <2> QED BY <1>1, <2>1, EndsQuietly DEF Domains, Committed
  <1>4. CASE HeldModels(d) # {}
    <2>1. Goto(d, "commit", locks) /\ Committed /\ Scratch BY <1>4 DEF UnsetModel
    <2>2. /\ locks \subseteq RowLocks
          /\ \A b \in rows : b.model \in HeldModels(d) => Exclusive(Row(b.id)) \in locks
      BY <1>1, RowsOfModels
    <2> HIDE DEF locks
    <2>3. /\ pc'[d] = "commit" /\ want'[d] = locks /\ got'[d] = got[d] /\ rows' = rows
          /\ models' = models /\ (RequestInv(d)' => Inv')
      BY <1>1, <1>2, <2>1, GoesOn DEF Domains, Scratch
    <2>4. HeldModels(d)' = HeldModels(d) BY <2>3 DEF HeldModels, Holds
    <2>5. RemovalInv(d)'
      BY <1>1, <2>2, <2>3, <2>4 DEF RemovalInv, Shape, RemovalLocks, Asks
    <2> QED BY <2>3, <2>5, RemovalsOwn DEF Over
  <1> QED BY <1>3, <1>4

LEMMA DeleteModelsKeeps ==
  ASSUME Inv, NEW k \in Closings, DeleteModels(k)
  PROVE  Inv'
  <1> DEFINE locks == {Exclusive(Model(m)) : m \in DOMAIN models}
  <1>1. Domains /\ RequestInv(k) /\ k \in Requests BY KindsOfRequests DEF Inv
  <1>2. pc[k] = "idle" BY DEF DeleteModels
  <1>3. want[k] = {} /\ got[k] = {} BY <1>1, <1>2 DEF RequestInv, Over
  <1>4. locks \subseteq ModelLocks BY <1>1 DEF ModelLocks, Domains
  <1>5. \A m \in DOMAIN models : Exclusive(Model(m)) \in locks OBVIOUS
  <1>6. Goto(k, "unset", locks) /\ Committed /\ Scratch BY DEF DeleteModels
  <1> HIDE DEF locks
  <1>7. /\ pc'[k] = "unset" /\ want'[k] = locks /\ got'[k] = {} /\ models' = models
        /\ (RequestInv(k)' => Inv')
    BY <1>1, <1>2, <1>3, <1>6, GoesOn DEF Domains, Scratch
  <1>8. ClosingInv(k)' BY <1>4, <1>5, <1>7 DEF ClosingInv, Shape, ClosingLocks, Asks
  <1> QED BY <1>7, <1>8, ClosingsOwn DEF Over

LEMMA UnsetModelsKeeps ==
  ASSUME Inv, NEW k \in Closings, UnsetModels(k)
  PROVE  Inv'
  <1> DEFINE locks == UNION {RowsOf(m) : m \in HeldModels(k)}
  <1>1. Domains /\ ClosingInv(k) /\ k \in Requests BY KindsOfRequests DEF Inv, RequestInv
  <1>2. pc[k] = "unset" /\ want[k] = {} BY DEF UnsetModels, Ready
  <1>3. locks \subseteq RowLocks BY <1>1, RowsOfModels
  <1>4. Goto(k, "user", locks) /\ Committed /\ Scratch BY DEF UnsetModels
  <1> HIDE DEF locks
  <1>5. /\ pc'[k] = "user" /\ want'[k] = locks /\ got'[k] = got[k] /\ models' = models
        /\ (RequestInv(k)' => Inv')
    BY <1>1, <1>2, <1>4, GoesOn DEF Domains, Scratch
  <1>6. ClosingInv(k)' BY <1>1, <1>2, <1>3, <1>5 DEF ClosingInv, Shape, ClosingLocks, Asks
  <1> QED BY <1>5, <1>6, ClosingsOwn DEF Over

LEMMA DeleteUserKeeps ==
  ASSUME Inv, NEW k \in Closings, DeleteUser(k)
  PROVE  Inv'
  <1>1. Domains /\ ClosingInv(k) /\ k \in Requests BY KindsOfRequests DEF Inv, RequestInv
  <1>2. pc[k] = "user" /\ want[k] = {} BY DEF DeleteUser, Ready
  <1>3. /\ pc'[k] = "cascade" /\ want'[k] = {Exclusive(UserRow)} /\ got'[k] = got[k]
        /\ models' = models /\ (RequestInv(k)' => Inv')
    BY <1>1, <1>2, GoesOn DEF DeleteUser, Domains, Scratch
  <1>4. ClosingInv(k)' BY <1>1, <1>2, <1>3 DEF ClosingInv, Shape, ClosingLocks, Asks
  <1> QED BY <1>3, <1>4, ClosingsOwn DEF Over

LEMMA CascadeKeeps ==
  ASSUME Inv, NEW k \in Closings, Cascade(k)
  PROVE  Inv'
  <1> DEFINE locks == {Exclusive(Row(b.id)) : b \in rows \ HeldRows(k)}
  <1>1. Domains /\ RowsInv /\ ClosingInv(k) /\ k \in Requests
    BY KindsOfRequests DEF Inv, RequestInv
  <1>2. pc[k] = "cascade" /\ want[k] = {} BY DEF Cascade, Ready
  <1>3. locks \subseteq RowLocks BY <1>1 DEF RowLocks, RowsInv
  <1>4. Goto(k, "commit", locks) /\ Committed /\ Scratch BY DEF Cascade
  <1>5. \A b \in rows : Exclusive(Row(b.id)) \in locks \cup got[k]
    <2> TAKE b \in rows
    <2>1. CASE b \notin HeldRows(k) BY <2>1
    <2>2. CASE b \in HeldRows(k)
      <3>1. PICK l \in got[k] : l.on = Row(b.id) BY <2>2 DEF HeldRows, Holds
      <3>2. l \in ClosingLocks BY <1>1 DEF ClosingInv, Shape
      <3>3. l \in RowLocks BY <3>1, <3>2, LockShapes DEF ClosingLocks, ModelLocks
      <3>4. l = Exclusive(Row(b.id)) BY <3>1, <3>3, LockShapes DEF RowLocks
      <3> QED BY <3>1, <3>4
    <2> QED BY <2>1, <2>2
  <1> HIDE DEF locks
  <1>6. /\ pc'[k] = "commit" /\ want'[k] = locks /\ got'[k] = got[k] /\ rows' = rows
        /\ user' = user /\ models' = models /\ (RequestInv(k)' => Inv')
    BY <1>1, <1>2, <1>4, GoesOn DEF Domains, Scratch
  <1>7. ClosingInv(k)' BY <1>1, <1>2, <1>3, <1>5, <1>6 DEF ClosingInv, Shape, ClosingLocks, Asks
  <1> QED BY <1>6, <1>7, ClosingsOwn DEF Over

LEMMA CommitClosingKeeps ==
  ASSUME Inv, NEW k \in Closings, CommitClosing(k)
  PROVE  Inv'
  <1>1. /\ Domains /\ RowsInv /\ k \in Requests /\ HeldIsThere /\ Mutex /\ ClosingInv(k)
        /\ \A r \in Requests : RequestInv(r)
    BY KindsOfRequests DEF Inv, RequestInv
  <1>2. /\ user' = FALSE /\ Ends(k, "ok") /\ Scratch /\ pc[k] = "commit" /\ want[k] = {}
        /\ models' = [m \in DOMAIN models \ HeldModels(k) |-> models[m]]
        /\ rows' = rows \ HeldRows(k)
    BY DEF CommitClosing, Ready
  <1>3. /\ first' = first /\ new' = new /\ got'[k] = {}
        /\ \A q \in Requests \ {k} :
             pc'[q] = pc[q] /\ result'[q] = result[q] /\ want'[q] = want[q] /\ got'[q] = got[q]
        /\ \A q \in Requests : got'[q] \subseteq got[q]
    BY <1>1, <1>2, EndsOf
  <1>4. HeldModels(k) = DOMAIN models
    <2>1. \A m \in DOMAIN models : Exclusive(Model(m)) \in got[k] BY <1>1, <1>2 DEF ClosingInv
    <2> QED BY <2>1, LockShapes DEF HeldModels, Holds
  <1>5. DOMAIN models' = {} /\ models' = <<>>
    <2>1. models' = [m \in {} |-> models[m]] BY <1>2, <1>4
    <2> QED BY <2>1
  <1>6. rows' = {}
    <2>1. CASE user
      <3>1. \A b \in rows : Exclusive(Row(b.id)) \in got[k]
        BY <1>1, <1>2, <2>1 DEF ClosingInv, Asks
      <3>2. HeldRows(k) = rows BY <3>1, LockShapes DEF HeldRows, Holds
      <3> QED BY <1>2, <3>2
    <2>2. CASE ~user BY <1>1, <1>2, <2>2 DEF RowsInv
    <2> QED BY <2>1, <2>2
  <1>7. Domains' BY <1>1, <1>2, <1>5, EndsOf DEF Domains
  <1>8. Mutex' BY <1>1, <1>3 DEF Mutex, Clash
  <1>9. HeldIsThere'
    <2> SUFFICES ASSUME NEW q \in Requests \ {k}, NEW l \in got[q]
                 PROVE  /\ l.on # UserRow
                        /\ \A m \in DOMAIN Models : l.on # Model(m)
      BY <1>2, <1>3 DEF HeldIsThere, UserRow, Model
    <2>1. ASSUME l.on = UserRow PROVE FALSE
      <3>1. user BY <1>1, <2>1 DEF HeldIsThere
      <3>2. Exclusive(UserRow) \in got[k] BY <1>1, <1>2, <3>1 DEF ClosingInv
      <3>3. Clash(Exclusive(UserRow), l) BY <2>1, LockShapes DEF Clash
      <3> QED BY <1>1, <3>2, <3>3 DEF Mutex
    <2>2. ASSUME NEW m \in DOMAIN Models, l.on = Model(m) PROVE FALSE
      <3>1. m \in DOMAIN models BY <1>1, <2>2 DEF HeldIsThere
      <3>2. Exclusive(Model(m)) \in got[k] BY <1>1, <1>2, <3>1 DEF ClosingInv
      <3>3. Clash(Exclusive(Model(m)), l) BY <2>2, LockShapes DEF Clash
      <3> QED BY <1>1, <3>2, <3>3 DEF Mutex
    <2> QED BY <2>1, <2>2
  <1>10. RequestInv(k)' BY <1>1, <1>2, EndedKeepsItsOwn
  <1>11. ASSUME NEW q \in Requests \ {k} PROVE RequestInv(q)'
    <2>1. \A l : Asks(q, l)' <=> Asks(q, l) BY <1>3 DEF Asks
    <2>2. \A places, locks : Shape(q, places, locks)' <=> Shape(q, places, locks) BY <1>3 DEF Shape
    <2>3. ASSUME SeedInv(q) PROVE SeedInv(q)'
      <3>1. \A i, b : IsNew(q, i, b)' <=> IsNew(q, i, b) BY <1>3 DEF IsNew
      <3> QED BY <1>2, <1>3, <1>6, <2>1, <2>2, <2>3, <3>1 DEF SeedInv
    <2>4. ASSUME RemovalInv(q) PROVE RemovalInv(q)'
      BY <1>3, <1>6, <2>1, <2>2, <2>4 DEF RemovalInv
    <2>5. ASSUME ClosingInv(q) PROVE ClosingInv(q)'
      BY <1>2, <1>3, <1>5, <1>6, <2>1, <2>2, <2>5 DEF ClosingInv
    <2>6. Over(q)' <=> Over(q) BY <1>3 DEF Over
    <2> QED BY <1>1, <1>3, <2>2, <2>3, <2>4, <2>5, <2>6 DEF RequestInv, StarInv
  <1>12. RowsInv' BY <1>2, <1>5, <1>6 DEF RowsInv
  <1> QED BY <1>7, <1>8, <1>9, <1>10, <1>11, <1>12 DEF Inv

LEMMA InvHoldsAtFirst ==
  ASSUME Init
  PROVE  Inv
  <1>1. \A r \in Requests : pc[r] = "idle" /\ result[r] = None /\ want[r] = {} /\ got[r] = {}
    BY DEF Init
  <1>2. rows = Others \cup Earlier /\ user = TRUE /\ models = Models BY DEF Init
  <1>3. Domains
    BY <1>2 DEF Domains, Init
  <1>4. Mutex /\ HeldIsThere BY <1>1 DEF Mutex, HeldIsThere
  <1>5. None # "number taken" BY ExperimentsAssumption
  <1>6. ASSUME NEW r \in Requests PROVE RequestInv(r)
    <2>1. \A places, locks : Shape(r, places, locks) BY <1>1 DEF Shape
    <2>2. \A l : ~Asks(r, l) BY <1>1 DEF Asks
    <2>3. SeedInv(r) BY <1>1, <1>5, <2>1, <2>2 DEF SeedInv
    <2>4. RemovalInv(r) /\ ClosingInv(r) BY <1>1, <2>1 DEF RemovalInv, ClosingInv
    <2> QED BY <1>1, <2>1, <2>3, <2>4 DEF RequestInv, StarInv, Over
  <1>7. RowsInv
    <2>1. \A b \in rows :
            /\ DOMAIN b = Fields /\ b.number \in Nat
            /\ b.model = None \/ b.model \in DOMAIN models
            /\ b.id \notin Seeds \X DOMAIN Runs
      BY <1>2, FirstRows
    <2>2. \A b \in rows : b.id \in Ids BY <1>2 DEF Ids
    <2>3. \A b \in rows : b.seeded \in BOOLEAN /\ (b.seeded <=> b \in Earlier) BY <1>2, FirstRows
    <2>4. \A b \in rows : b.seeded \in BOOLEAN BY <2>3
    <2>5. \A b \in rows, s \in Seeds, i \in DOMAIN Runs : b.id # <<s, i>> BY <2>1
    <2>6. \A a, b \in rows : a.id = b.id \/ a.number = b.number => a = b
      BY <1>2, FirstRows
    <2>7. \A a, b \in rows : a.seeded /\ b.seeded => a.by = b.by
      BY <2>3, FirstRows
    <2>8. \A o \in Others : o \in rows /\ ~o.seeded
      <3> TAKE o \in Others
      <3>1. ASSUME o \in Earlier PROVE FALSE
        <4>1. o.number \in {b.number : b \in Earlier} BY <3>1
        <4>2. o.number \in (LastOther + 1)..(LastOther + Cardinality(Earlier))
          BY <4>1, FirstRows
        <4>3. LastOther \in Nat /\ o.number \in Nat /\ o.number <= LastOther BY NumbersOfOthers
        <4>4. Cardinality(Earlier) \in Nat BY FirstRows
        <4> QED BY <4>2, <4>3, <4>4
      <3> QED BY <1>2, <2>3, <3>1
    <2>9. \A b \in rows : ~b.seeded => b \in Others BY <1>2, <2>3
    <2>10. \E n \in Nat : \A k \in Nat :
            (\E b \in rows : b.seeded /\ b.number = k) <=> k \in (LastOther + 1)..(LastOther + n)
      <3>1. \A k \in Nat : (\E b \in rows : b.seeded /\ b.number = k)
                               <=> (\E b \in Earlier : b.number = k)
        BY <1>2, <2>3
      <3>2. \A k \in Nat : (\E b \in Earlier : b.number = k) <=> k \in {b.number : b \in Earlier}
        OBVIOUS
      <3>3. {b.number : b \in Earlier} = (LastOther + 1)..(LastOther + Cardinality(Earlier))
        BY FirstRows
      <3>4. \A k \in Nat : (\E b \in rows : b.seeded /\ b.number = k)
                               <=> k \in (LastOther + 1)..(LastOther + Cardinality(Earlier))
        BY <3>1, <3>2, <3>3
      <3>5. Cardinality(Earlier) \in Nat BY FirstRows
      <3> QED BY <3>4, <3>5
    <2>11. /\ \A b \in rows : ~b.seeded => \E o \in Others : o.id = b.id /\ o.number = b.number
           /\ \A o \in Others : \E b \in rows : ~b.seeded /\ o.id = b.id /\ o.number = b.number
      BY <2>8, <2>9
    <2> QED BY <1>2, <2>1, <2>2, <2>4, <2>5, <2>6, <2>7, <2>10, <2>11 DEF RowsInv
  <1> QED BY <1>3, <1>4, <1>6, <1>7 DEF Inv

LEMMA InvIsKept ==
  ASSUME Inv, [Next]_vars
  PROVE  Inv'
  <1>1. CASE UNCHANGED vars
    <2>1. /\ user' = user /\ models' = models /\ rows' = rows /\ pc' = pc /\ result' = result
          /\ want' = want /\ got' = got /\ first' = first /\ new' = new /\ star' = star
      BY <1>1 DEF vars
    <2>2. Domains' /\ Mutex' /\ HeldIsThere' /\ RowsInv'
      BY <2>1 DEF Inv, Domains, Mutex, HeldIsThere, RowsInv, Clash, UserRow, Model
    <2>4. \A r \in Requests : RequestInv(r)'
      <3> TAKE r \in Requests
      <3>1. RequestInv(r) BY DEF Inv
      <3>2. \A l : Asks(r, l)' <=> Asks(r, l) BY <2>1 DEF Asks
      <3>3. \A places, locks : Shape(r, places, locks)' <=> Shape(r, places, locks)
        BY <2>1 DEF Shape
      <3>4. \A i, b : IsNew(r, i, b)' <=> IsNew(r, i, b) BY <2>1 DEF IsNew
      <3>5. HeldModels(r)' = HeldModels(r) BY <2>1 DEF HeldModels, Holds
      <3>6. SeedInv(r) => SeedInv(r)' BY <2>1, <3>2, <3>3, <3>4 DEF SeedInv
      <3>7. RemovalInv(r) => RemovalInv(r)' BY <2>1, <3>2, <3>3, <3>5 DEF RemovalInv
      <3>8. ClosingInv(r) => ClosingInv(r)' BY <2>1, <3>2, <3>3 DEF ClosingInv
      <3>9. Over(r)' <=> Over(r) BY <2>1 DEF Over
      <3> QED BY <2>1, <3>1, <3>3, <3>6, <3>7, <3>8, <3>9 DEF RequestInv, StarInv
    <2> QED BY <2>2, <2>4 DEF Inv
  <1>2. ASSUME NEW r \in Requests, Step(r) PROVE Inv'
    <2>1. CASE Acquire(r) BY <2>1, AcquireKeeps
    <2>2. CASE r \in Seeds /\ SeedStep(r)
      BY <2>2, FindUserKeeps, DeleteSeededKeeps, LastNumberKeeps, AddAllKeeps, InsertKeeps,
         CommitSeedKeeps DEF SeedStep
    <2>3. CASE r \in Stars /\ CommitStar(r) BY <2>3, CommitStarKeeps
    <2>4. CASE r \in Removals /\ (UnsetModel(r) \/ CommitRemoval(r))
      BY <2>4, UnsetModelKeeps, CommitRemovalKeeps
    <2>5. CASE r \in Closings /\ (UnsetModels(r) \/ DeleteUser(r) \/ Cascade(r) \/ CommitClosing(r))
      BY <2>5, UnsetModelsKeeps, DeleteUserKeeps, CascadeKeeps, CommitClosingKeeps
    <2> QED BY <1>2, <2>1, <2>2, <2>3, <2>4, <2>5 DEF Step
  <1>3. ASSUME NEW r \in Requests, Deadlock(r) \/ Crash(r) PROVE Inv'
    <2>1. PICK how \in {"deadlock", "crashed"} : Ends(r, how) BY <1>3 DEF Deadlock, Crash
    <2>2. Committed /\ Scratch BY <1>3 DEF Deadlock, Crash
    <2>3. Domains BY DEF Inv
    <2> QED BY <2>1, <2>2, <2>3, EndsQuietly DEF Domains, Committed
  <1>4. ASSUME NEW s \in Seeds, FindUser(s) PROVE Inv' BY <1>4, FindUserKeeps
  <1>5. ASSUME NEW t \in Stars, NEW id \in Ids, NEW starred \in BOOLEAN,
               SelectBacktest(t, id, starred)
        PROVE  Inv'
    BY <1>5, SelectBacktestKeeps
  <1>6. ASSUME NEW r \in Renames, NEW m \in DOMAIN Models, NEW name \in Renamed, Rename(r, m, name)
        PROVE  Inv'
    BY <1>6, RenameKeeps
  <1>7. ASSUME NEW d \in Removals, NEW m \in DOMAIN Models, DeleteModel(d, m) PROVE Inv'
    BY <1>7, DeleteModelKeeps
  <1>8. ASSUME NEW k \in Closings, DeleteModels(k) PROVE Inv' BY <1>8, DeleteModelsKeeps
  <1> QED BY <1>1, <1>2, <1>3, <1>4, <1>5, <1>6, <1>7, <1>8 DEF Next

\* The transactions of the backtests exclude each other as the locks say, for any
\* requests, models and backtests.
THEOREM TransactionsExclude == Spec => []Inv
  <1>1. Init => Inv BY InvHoldsAtFirst
  <1>2. Inv /\ [Next]_vars => Inv' BY InvIsKept
  <1> QED BY <1>1, <1>2, PTL DEF Spec

-----------------------------------------------------------------------------
LEMMA InvSaysModels ==
  ASSUME Inv
  PROVE  ModelsAreThere
  <1>1. \A b \in rows : b.model # None => b.model \in DOMAIN models BY DEF Inv, RowsInv
  <1>2. ~user => rows = {} /\ models = <<>> BY DEF Inv, RowsInv
  <1> QED BY <1>1, <1>2 DEF ModelsAreThere

\* A backtest names no model that is gone, and nothing is left of a closed account.
THEOREM BacktestsNameModels == Spec => []ModelsAreThere
  <1>1. Inv => ModelsAreThere BY InvSaysModels
  <1> QED BY <1>1, TransactionsExclude, PTL

\* As many numbers as backtests.
LEMMA InvSaysSeeded ==
  ASSUME Inv
  PROVE  SeedReplacesItself
  <1> DEFINE seeded == {b \in rows : b.seeded}
             others == rows \ seeded
  <1>1. RowsInv BY DEF Inv
  <1>2. user => {b.id : b \in others} = {b.id : b \in Others}
    <2> SUFFICES ASSUME user PROVE {b.id : b \in others} = {b.id : b \in Others} OBVIOUS
    <2>1. \A b \in others : \E o \in Others : o.id = b.id BY <1>1 DEF RowsInv
    <2>2. \A o \in Others : \E b \in others : o.id = b.id BY <1>1 DEF RowsInv
    <2> QED BY <2>1, <2>2
  <1>3. user => {b.number : b \in seeded}
                   = (LastOther + 1)..(LastOther + Cardinality(seeded))
    <2> SUFFICES ASSUME user
                 PROVE  {b.number : b \in seeded}
                            = (LastOther + 1)..(LastOther + Cardinality(seeded))
      OBVIOUS
    <2>1. PICK n \in Nat : \A k \in Nat :
             (\E b \in rows : b.seeded /\ b.number = k) <=> k \in (LastOther + 1)..(LastOther + n)
      BY <1>1 DEF RowsInv
    <2>2. \A b \in seeded : b.number \in Nat BY <1>1 DEF RowsInv
    <2>3. \A b \in seeded : b.number - LastOther \in 1..n
      <3> TAKE b \in seeded
      <3>1. b.number \in (LastOther + 1)..(LastOther + n) BY <2>1, <2>2
      <3> QED BY <2>2, <3>1, NumbersOfOthers
    <2>4. \A i \in 1..n : \E b \in seeded : b.number - LastOther = i
      <3> TAKE i \in 1..n
      <3>1. LastOther + i \in Nat /\ LastOther + i \in (LastOther + 1)..(LastOther + n)
        BY NumbersOfOthers
      <3>2. PICK b \in rows : b.seeded /\ b.number = LastOther + i BY <2>1, <3>1
      <3> QED BY <3>2, NumbersOfOthers
    <2>5. \A a, b \in seeded : a.number = b.number => a = b BY <1>1 DEF RowsInv
    <2>6. Cardinality(seeded) = n
      <3> DEFINE f == [b \in seeded |-> b.number - LastOther]
      <3>1. f \in [seeded -> 1..n] BY <2>3
      <3>2. \A a, b \in seeded : f[a] = f[b] => a = b BY <2>2, <2>5, NumbersOfOthers
      <3>3. \A i \in 1..n : \E b \in seeded : f[b] = i BY <2>4
      <3>4. f \in Bijection(seeded, 1..n)
        <4> HIDE DEF f, seeded
        <4> QED BY <3>1, <3>2, <3>3 DEF Bijection, Injection, Surjection, IsInjective
      <3>5. ExistsBijection(1..n, seeded)
        <4> HIDE DEF f, seeded
        <4> QED BY <3>4, Fun_ExistsBijSymmetric DEF ExistsBijection
      <3> HIDE DEF f, seeded
      <3> QED BY <3>5, FS_CountingElements
    <2>7. {b.number : b \in seeded} = (LastOther + 1)..(LastOther + n)
      <3>1. \A b \in seeded : b.number \in (LastOther + 1)..(LastOther + n) BY <2>1, <2>2
      <3>2. \A k \in (LastOther + 1)..(LastOther + n) : \E b \in seeded : b.number = k
        BY <2>1, NumbersOfOthers
      <3> QED BY <3>1, <3>2
    <2> QED BY <2>6, <2>7
  <1>4. \A a, b \in seeded : a.by = b.by BY <1>1 DEF RowsInv
  <1>5. \A s \in Seeds : result[s] # "number taken"
    BY KindsOfRequests DEF Inv, RequestInv, SeedInv
  <1> QED BY <1>2, <1>3, <1>4, <1>5 DEF SeedReplacesItself

\* A run of the command replaces what an earlier one made and nothing else, and its
\* numbers are never taken.
THEOREM SeedingReplacesItself == Spec => []SeedReplacesItself
  <1>1. Inv => SeedReplacesItself BY InvSaysSeeded
  <1> QED BY <1>1, TransactionsExclude, PTL

-----------------------------------------------------------------------------
(***************************************************************************)
(* Each request acts at once.                                              *)
(***************************************************************************)

\* What a run of the command adds are the backtests of its list.
MadeBy(s, i, b) ==
    /\ b = [id |-> <<s, i>>, number |-> first[s] + i - 1, seeded |-> TRUE, by |-> s,
            starred |-> Runs[i].starred, failed |-> Runs[i].failed,
            result |-> Runs[i].result, made |-> Runs[i].made,
            model |-> b.model, name |-> b.name]
    /\ Lower(b.name) = Lower(Runs[i].model)

AddsItsList(s) ==
    pc[s] \in {"insert", "commit"} => \A b \in new[s] : \E i \in DOMAIN Runs : MadeBy(s, i, b)

\* A star locks one row.
StarsOne(t) ==
    pc[t] = "update" => star[t].starred \in BOOLEAN /\ \A k, l \in want[t] \cup got[t] : k = l

\* A removal locks one model, and the rows that name it as long as they are there.
RemovesOne(d) ==
    /\ \A m, n \in DOMAIN Models : Asks(d, Exclusive(Model(m))) /\ Asks(d, Exclusive(Model(n))) => m = n
    /\ \A id \in Ids : Asks(d, Exclusive(Row(id))) =>
           /\ pc[d] = "commit"
           /\ \A s \in Seeds, i \in DOMAIN Runs : id = <<s, i>> => pc[s] = "done"
    /\ \A b \in rows : Asks(d, Exclusive(Row(b.id))) => b.model \in HeldModels(d)
    /\ pc[d] = "commit" => HeldModels(d) # {}

ActsOn(r) ==
    /\ r \in Seeds => AddsItsList(r)
    /\ r \in Stars => StarsOne(r)
    /\ r \in Removals => RemovesOne(r)

ActsInv == \A r \in Requests : ActsOn(r)

\* What an action of r leaves to the others.
Alone(r) ==
    /\ \A q \in Requests \ {r} : pc'[q] = pc[q] /\ want'[q] = want[q] /\ got'[q] = got[q]
    /\ \A q \in Requests : pc[q] = "done" => pc'[q] = "done"
    /\ \A s \in Seeds \ {r} : first'[s] = first[s] /\ new'[s] = new[s]
    /\ \A t \in Stars \ {r} : star'[t] = star[t]

\* The rows a removal asked for name its model still.
Told(d) ==
    /\ HeldModels(d)' = HeldModels(d)
    /\ \A c \in rows' : Asks(d, Exclusive(Row(c.id))) =>
           \E b \in rows : b.id = c.id /\ b.model = c.model

LEMMA OthersAct ==
  ASSUME ActsInv, NEW r \in Requests, Alone(r), NEW q \in Requests \ {r},
         q \in Removals => Told(q)
  PROVE  ActsOn(q)'
  <1>1. ActsOn(q) BY DEF ActsInv
  <1>2. pc'[q] = pc[q] /\ want'[q] = want[q] /\ got'[q] = got[q] BY DEF Alone
  <1>3. \A l : Asks(q, l)' <=> Asks(q, l) BY <1>2 DEF Asks
  <1>4. ASSUME q \in Seeds PROVE AddsItsList(q)'
    <2>1. first'[q] = first[q] /\ new'[q] = new[q] BY <1>4 DEF Alone
    <2>2. \A i, b : MadeBy(q, i, b)' <=> MadeBy(q, i, b) BY <2>1 DEF MadeBy
    <2> QED BY <1>1, <1>2, <1>4, <2>1, <2>2 DEF ActsOn, AddsItsList
  <1>5. ASSUME q \in Stars PROVE StarsOne(q)'
    <2>1. star'[q] = star[q] BY <1>5 DEF Alone
    <2> QED BY <1>1, <1>2, <1>5, <2>1 DEF ActsOn, StarsOne
  <1>6. ASSUME q \in Removals PROVE RemovesOne(q)'
    <2>1. RemovesOne(q) /\ Told(q) BY <1>1, <1>6 DEF ActsOn
    <2>2. \A s \in Seeds : pc[s] = "done" => pc'[s] = "done" BY KindsOfRequests DEF Alone
    <2>3. \A id \in Ids : Asks(q, Exclusive(Row(id)))' =>
            /\ pc'[q] = "commit"
            /\ \A s \in Seeds, i \in DOMAIN Runs : id = <<s, i>> => pc'[s] = "done"
      BY <1>2, <1>3, <2>1, <2>2 DEF RemovesOne
    <2>4. \A c \in rows' : Asks(q, Exclusive(Row(c.id)))' => c.model \in HeldModels(q)'
      BY <1>3, <2>1 DEF RemovesOne, Told
    <2>5. \A m, n \in DOMAIN Models :
            Asks(q, Exclusive(Model(m)))' /\ Asks(q, Exclusive(Model(n)))' => m = n
      BY <1>3, <2>1 DEF RemovesOne
    <2> QED BY <1>2, <2>1, <2>3, <2>4, <2>5 DEF RemovesOne, Told
  <1> QED BY <1>4, <1>5, <1>6 DEF ActsOn

\* Nothing was committed.
Same == rows' = rows /\ models' = models /\ user' = user

\* What a step does with the models a run of the command read.
Chooses(r) == r \in Seeds => Chosen(r)' = Chosen(r) \/ Chosen(r)' = {} \/ AddAll(r)

LEMMA EndsAct ==
  ASSUME Domains, NEW r \in Requests, NEW how, Ends(r, how), Scratch
  PROVE  Alone(r) /\ ActsOn(r)'
  <1>1. /\ pc'[r] = "done" /\ want'[r] = {} /\ got'[r] = {}
        /\ \A q \in Requests \ {r} : pc'[q] = pc[q] /\ want'[q] = want[q] /\ got'[q] = got[q]
        /\ first' = first /\ new' = new
        /\ \A q \in Requests : pc[q] = "done" => pc'[q] = "done"
    BY EndsOf
  <1>2. star' = star BY DEF Scratch
  <1>3. Alone(r) BY <1>1, <1>2 DEF Alone
  <1>4. \A l : ~Asks(r, l)' BY <1>1 DEF Asks
  <1>5. AddsItsList(r)' /\ StarsOne(r)' BY <1>1 DEF AddsItsList, StarsOne
  <1>6. RemovesOne(r)' BY <1>1, <1>4 DEF RemovesOne
  <1> QED BY <1>3, <1>5, <1>6 DEF ActsOn

\* Who ends, or has not read them yet, has none.
LEMMA EndedChoosesNothing ==
  ASSUME Domains, NEW r \in Requests, NEW how, Ends(r, how)
  PROVE  Chooses(r)
  <1>1. pc'[r] = "done" BY DEF Domains, Ends
  <1> QED BY <1>1 DEF Chooses, Chosen

LEMMA OthersChooseNothing ==
  ASSUME NEW r \in Requests, r \notin Seeds
  PROVE  Chooses(r)
  BY DEF Chooses

LEMMA SeedsChoose ==
  ASSUME Domains, NEW s \in Seeds, s \in Requests, Acquire(s) \/ FindUser(s) \/ SeedStep(s)
  PROVE  Chooses(s)
  <1>1. CASE \E how : Ends(s, how) BY <1>1, EndedChoosesNothing
  <1>2. CASE Acquire(s) /\ ~ \E how : Ends(s, how)
    <2>1. pc' = pc /\ new' = new BY <1>2 DEF Acquire, Scratch
    <2>2. Chosen(s)' = Chosen(s) BY <2>1 DEF Chosen
    <2> QED BY <2>2 DEF Chooses
  <1>3. ASSUME NEW where, NEW locks, Goto(s, where, locks), where \notin {"insert", "commit"}
        PROVE  Chooses(s)
    <2>1. pc'[s] = where BY <1>3 DEF Domains, Goto
    <2> QED BY <1>3, <2>1 DEF Chooses, Chosen
  <1>4. CASE Insert(s)
    <2>1. pc[s] = "insert" /\ new' = new /\ \E locks : Goto(s, "commit", locks)
      BY <1>4 DEF Insert, Ready, Scratch
    <2>2. pc'[s] = "commit" BY <2>1 DEF Domains, Goto
    <2>3. Chosen(s)' = Chosen(s) BY <2>1, <2>2 DEF Chosen
    <2> QED BY <2>3 DEF Chooses
  <1>5. CASE FindUser(s) BY <1>1, <1>3, <1>5 DEF FindUser
  <1>6. CASE DeleteSeeded(s) BY <1>3, <1>6 DEF DeleteSeeded
  <1>7. CASE LastNumber(s) BY <1>3, <1>7 DEF LastNumber
  <1>8. CASE AddAll(s) BY <1>8 DEF Chooses
  <1>9. CASE CommitSeed(s) BY <1>1, <1>9 DEF CommitSeed
  <1> QED BY <1>1, <1>2, <1>4, <1>5, <1>6, <1>7, <1>8, <1>9 DEF SeedStep

\* A request that goes on, and what others keep.
LEMMA GoesAlone ==
  ASSUME Domains, NEW r \in Requests, NEW where, NEW locks, Goto(r, where, locks),
         pc[r] # "done",
         \A s \in Seeds \ {r} : first'[s] = first[s] /\ new'[s] = new[s],
         \A t \in Stars \ {r} : star'[t] = star[t]
  PROVE  Alone(r) /\ pc'[r] = where /\ want'[r] = locks /\ got'[r] = got[r]
  <1>1. /\ pc' = [pc EXCEPT ![r] = where] /\ want' = [want EXCEPT ![r] = locks] /\ got' = got
        /\ DOMAIN pc = Requests /\ DOMAIN want = Requests
    BY DEF Goto, Domains
  <1>2. pc'[r] = where /\ want'[r] = locks /\ got'[r] = got[r] BY <1>1
  <1>3. \A q \in Requests \ {r} : pc'[q] = pc[q] /\ want'[q] = want[q] /\ got'[q] = got[q]
    BY <1>1
  <1> QED BY <1>2, <1>3 DEF Alone

\* A run of the command goes to its next statement.
LEMMA SeedsAct ==
  ASSUME Inv, ActsInv, NEW s \in Seeds, FindUser(s) \/ (SeedStep(s) /\ ~CommitSeed(s))
  PROVE  Alone(s) /\ ActsOn(s)' /\ Same
  <1>1. Domains /\ s \in Requests /\ AddsItsList(s) /\ s \notin Stars \cup Removals
    BY KindsOfRequests DEF Inv, ActsInv, ActsOn
  <1>2. AddsItsList(s)' => ActsOn(s)' BY <1>1 DEF ActsOn
  <1>3. CASE FindUser(s)
    <2>1. pc[s] = "idle" /\ Committed /\ Scratch BY <1>3 DEF FindUser
    <2>2. CASE user
      <3>1. Goto(s, "delete", {Advisory}) BY <1>3, <2>2 DEF FindUser
      <3>2. Alone(s) /\ pc'[s] = "delete" BY <1>1, <2>1, <3>1, GoesAlone DEF Scratch
      <3> QED BY <1>2, <2>1, <3>2 DEF AddsItsList, Same, Committed
    <2>3. CASE ~user
      <3>1. Ends(s, "unknown user") BY <1>3, <2>3 DEF FindUser
      <3> QED BY <1>1, <2>1, <3>1, EndsAct DEF Same, Committed
    <2> QED BY <2>2, <2>3
  <1>4. CASE DeleteSeeded(s)
    <2>1. pc[s] = "delete" /\ Committed /\ Scratch /\ Goto(s, "number", SeededOnes)
      BY <1>4 DEF DeleteSeeded, Ready
    <2>2. Alone(s) /\ pc'[s] = "number" BY <1>1, <2>1, GoesAlone DEF Scratch
    <2> QED BY <1>2, <2>1, <2>2 DEF AddsItsList, Same, Committed
  <1>5. CASE LastNumber(s)
    <2>1. /\ pc[s] = "number" /\ Committed /\ Goto(s, "models", {}) /\ new' = new /\ star' = star
          /\ \A q \in Seeds \ {s} : first'[q] = first[q]
      BY <1>1, <1>5 DEF LastNumber, Ready, Domains
    <2>2. Alone(s) /\ pc'[s] = "models" BY <1>1, <2>1, GoesAlone
    <2> QED BY <1>2, <2>1, <2>2 DEF AddsItsList, Same, Committed
  <1>6. CASE AddAll(s)
    <2>1. /\ pc[s] = "models" /\ Committed /\ Goto(s, "insert", {}) /\ first' = first /\ star' = star
          /\ \A q \in Seeds \ {s} : new'[q] = new[q]
          /\ new'[s] = {Backtest(s, i) : i \in DOMAIN Runs}
      BY <1>1, <1>6 DEF AddAll, Ready, Domains
    <2>2. Alone(s) /\ pc'[s] = "insert" BY <1>1, <2>1, GoesAlone
    <2>3. ASSUME NEW i \in DOMAIN Runs, NEW b, b = Backtest(s, i) PROVE MadeBy(s, i, b)'
      <3> DEFINE m == ModelOf(Runs[i])
      <3>1. /\ b = [id |-> <<s, i>>, number |-> first[s] + i - 1, seeded |-> TRUE, by |-> s,
                    starred |-> Runs[i].starred, failed |-> Runs[i].failed,
                    result |-> Runs[i].result, made |-> Runs[i].made,
                    model |-> m, name |-> IF m = None THEN Runs[i].model ELSE models[m]]
        BY <2>3 DEF Backtest
      <3>2. b.model = m /\ b.name = IF m = None THEN Runs[i].model ELSE models[m] BY <3>1
      <3>3. m # None => Lower(models[m]) = Lower(Runs[i].model) BY DEF ModelOf
      <3> QED BY <2>1, <3>1, <3>2, <3>3 DEF MadeBy
    <2>4. \A b \in new'[s] : \E i \in DOMAIN Runs : MadeBy(s, i, b)'
      <3>1. \A b \in new'[s] : \E i \in DOMAIN Runs : b = Backtest(s, i) BY <2>1
      <3> QED BY <2>3, <3>1
    <2> QED BY <1>2, <2>1, <2>2, <2>4 DEF AddsItsList, Same, Committed
  <1>7. CASE Insert(s)
    <2>1. /\ pc[s] = "insert" /\ Committed /\ Scratch
          /\ \E locks : Goto(s, "commit", locks)
      BY <1>7 DEF Insert, Ready
    <2>2. Alone(s) /\ pc'[s] = "commit" BY <1>1, <2>1, GoesAlone DEF Scratch
    <2>3. \A i, b : MadeBy(s, i, b)' <=> MadeBy(s, i, b) BY <2>1 DEF Scratch, MadeBy
    <2>4. AddsItsList(s)' BY <1>1, <2>1, <2>2, <2>3 DEF AddsItsList, Scratch
    <2> QED BY <1>2, <2>1, <2>2, <2>4 DEF Same, Committed
  <1> QED BY <1>3, <1>4, <1>5, <1>6, <1>7 DEF SeedStep

\* A star reads its backtest.
LEMMA SelectActs ==
  ASSUME Inv, NEW t \in Stars, NEW id \in Ids, NEW starred \in BOOLEAN,
         SelectBacktest(t, id, starred)
  PROVE  Alone(t) /\ ActsOn(t)' /\ Same
  <1>1. Domains /\ t \in Requests /\ RequestInv(t) /\ t \notin Seeds \cup Removals
    BY KindsOfRequests DEF Inv
  <1>2. pc[t] = "idle" /\ Committed /\ first' = first /\ new' = new /\ got[t] = {}
    BY <1>1 DEF SelectBacktest, RequestInv, Over
  <1>3. CASE \E b \in rows : b.id = id
    <2>1. PICK locks : Goto(t, "update", locks) /\ locks \subseteq {Exclusive(Row(id))}
      BY <1>3 DEF SelectBacktest
    <2>2. star' = [star EXCEPT ![t] = [before |-> RowWith(id), starred |-> starred]]
      BY <1>3 DEF SelectBacktest
    <2>3. star'[t].starred = starred /\ \A q \in Stars \ {t} : star'[q] = star[q]
      BY <1>1, <2>2 DEF Domains
    <2>4. Alone(t) /\ want'[t] = locks /\ got'[t] = {} BY <1>1, <1>2, <2>1, <2>3, GoesAlone
    <2>5. StarsOne(t)' BY <2>1, <2>3, <2>4 DEF StarsOne
    <2> QED BY <1>1, <1>2, <2>4, <2>5 DEF ActsOn, Same, Committed
  <1>4. CASE ~ \E b \in rows : b.id = id
    <2>1. Ends(t, "not found") /\ Scratch BY <1>4 DEF SelectBacktest, Scratch
    <2> QED BY <1>1, <1>2, <2>1, EndsAct DEF Same, Committed
  <1> QED BY <1>3, <1>4

\* A removal locks its model, then the rows that name it.
LEMMA RemovalActs ==
  ASSUME Inv, ActsInv, NEW d \in Removals,
         UnsetModel(d) \/ \E m \in DOMAIN Models : DeleteModel(d, m)
  PROVE  Alone(d) /\ ActsOn(d)' /\ Same
  <1>1. /\ Domains /\ d \in Requests /\ RequestInv(d) /\ RemovalInv(d) /\ RemovesOne(d) /\ RowsInv
        /\ d \notin Seeds \cup Stars
    BY KindsOfRequests DEF Inv, RequestInv, ActsInv, ActsOn
  <1>2. Committed /\ Scratch BY DEF UnsetModel, DeleteModel
  <1>3. CASE \E m \in DOMAIN Models : DeleteModel(d, m)
    <2>1. PICK m \in DOMAIN Models : DeleteModel(d, m) BY <1>3
    <2>2. pc[d] = "idle" /\ got[d] = {} BY <1>1, <2>1 DEF DeleteModel, RequestInv, Over
    <2>3. CASE m \in DOMAIN models
      <3>1. Goto(d, "unset", {Exclusive(Model(m))}) BY <2>1, <2>3 DEF DeleteModel
      <3>2. Alone(d) /\ pc'[d] = "unset" /\ want'[d] = {Exclusive(Model(m))} /\ got'[d] = {}
        BY <1>1, <1>2, <2>2, <3>1, GoesAlone DEF Scratch
      <3>3. \A l : Asks(d, l)' <=> l = Exclusive(Model(m)) BY <3>2 DEF Asks
      <3>4. \A n : Asks(d, Exclusive(Model(n)))' => n = m BY <3>3, LockShapes
      <3>5. \A id : ~Asks(d, Exclusive(Row(id)))' BY <3>3, LockShapes
      <3>6. RemovesOne(d)' BY <3>2, <3>4, <3>5 DEF RemovesOne
      <3> QED BY <1>1, <1>2, <3>2, <3>6 DEF ActsOn, Same, Committed
    <2>4. CASE m \notin DOMAIN models
      <3>1. Ends(d, "not found") BY <2>1, <2>4 DEF DeleteModel
      <3> QED BY <1>1, <1>2, <3>1, EndsAct DEF Same, Committed
    <2> QED BY <2>3, <2>4
  <1>4. CASE UnsetModel(d) /\ HeldModels(d) = {}
    <2>1. Ends(d, "not found") BY <1>4 DEF UnsetModel
    <2> QED BY <1>1, <1>2, <2>1, EndsAct DEF Same, Committed
  <1>5. CASE UnsetModel(d) /\ HeldModels(d) # {}
    <2> DEFINE locks == UNION {RowsOf(m) : m \in HeldModels(d)}
    <2>1. pc[d] = "unset" /\ want[d] = {} /\ Goto(d, "commit", locks)
      BY <1>5 DEF UnsetModel, Ready
    <2>2. locks \subseteq RowLocks BY <1>1, RowsOfModels
    <2>3. ASSUME NEW id, Exclusive(Row(id)) \in locks
          PROVE  \E b \in rows : b.id = id /\ b.model \in HeldModels(d)
      <3>1. PICK m \in HeldModels(d) : Exclusive(Row(id)) \in RowsOf(m) BY <2>3
      <3>2. PICK b \in rows : b.model = m /\ Exclusive(Row(id)) = Exclusive(Row(b.id))
        BY <3>1 DEF RowsOf
      <3>3. b.id = id BY <3>2, LockShapes
      <3> QED BY <3>1, <3>2, <3>3
    <2> HIDE DEF locks
    <2>4. Alone(d) /\ pc'[d] = "commit" /\ want'[d] = locks /\ got'[d] = got[d]
      BY <1>1, <1>2, <2>1, GoesAlone DEF Scratch
    <2>5. Same BY <1>2 DEF Same, Committed
    <2>6. HeldModels(d)' = HeldModels(d) BY <2>4, <2>5 DEF Same, HeldModels, Holds
    <2>7. \A id \in Ids : Exclusive(Row(id)) \notin got[d]
      <3>1. \A id \in Ids : ~Asks(d, Exclusive(Row(id))) BY <1>1, <2>1 DEF RemovesOne
      <3> QED BY <3>1 DEF Asks
    <2>8. \A id \in Ids : Asks(d, Exclusive(Row(id)))' =>
            \E b \in rows : b.id = id /\ b.model \in HeldModels(d)
      BY <2>3, <2>4, <2>7 DEF Asks
    <2>9. ASSUME NEW id \in Ids, Asks(d, Exclusive(Row(id)))', NEW s \in Seeds, NEW i \in DOMAIN Runs,
                 id = <<s, i>>
          PROVE  pc'[s] = "done"
      <3>1. PICK b \in rows : b.id = <<s, i>> BY <2>8, <2>9
      <3>2. pc[s] = "done" BY <1>1, <3>1 DEF RowsInv
      <3>3. s \in Requests BY KindsOfRequests
      <3> QED BY <2>4, <3>2, <3>3 DEF Alone
    <2>10. ASSUME NEW b \in rows, Asks(d, Exclusive(Row(b.id)))' PROVE b.model \in HeldModels(d)
      <3>1. b.id \in Ids BY <1>1 DEF RowsInv
      <3>2. PICK c \in rows : c.id = b.id /\ c.model \in HeldModels(d) BY <2>8, <2>10, <3>1
      <3>3. c = b BY <1>1, <3>2 DEF RowsInv
      <3> QED BY <3>2, <3>3
    <2>11. \A m : Asks(d, Exclusive(Model(m)))' => Asks(d, Exclusive(Model(m)))
      <3>1. \A m : Exclusive(Model(m)) \notin locks BY <2>2, LockShapes DEF RowLocks
      <3> QED BY <2>4, <3>1 DEF Asks
    <2>12. RemovesOne(d)' BY <1>1, <1>5, <2>4, <2>5, <2>6, <2>9, <2>10, <2>11 DEF RemovesOne, Same
    <2> QED BY <1>1, <2>4, <2>5, <2>12 DEF ActsOn
  <1> QED BY <1>3, <1>4, <1>5

\* The account goes on closing.
LEMMA ClosingActs ==
  ASSUME Inv, NEW k \in Closings,
         DeleteModels(k) \/ UnsetModels(k) \/ DeleteUser(k) \/ Cascade(k)
  PROVE  Alone(k) /\ ActsOn(k)' /\ Same
  <1>1. Domains /\ k \in Requests /\ k \notin Seeds \cup Stars \cup Removals
    BY KindsOfRequests DEF Inv
  <1>2. /\ pc[k] # "done" /\ Committed /\ Scratch
        /\ \E where, locks : Goto(k, where, locks)
    BY DEF DeleteModels, UnsetModels, DeleteUser, Cascade, Ready
  <1>3. Alone(k) BY <1>1, <1>2, GoesAlone DEF Scratch
  <1> QED BY <1>1, <1>2, <1>3 DEF ActsOn, Same, Committed

\* A lock that is granted, or was on what is gone.
LEMMA AcquireActs ==
  ASSUME Inv, ActsInv, NEW r \in Requests, Acquire(r)
  PROVE  Alone(r) /\ ActsOn(r)' /\ Same
  <1>1. Domains /\ ActsOn(r) BY DEF Inv, ActsInv
  <1>2. Same /\ Scratch BY DEF Acquire, Same, Committed
  <1>3. PICK l \in want[r] :
          IF Found(l, r)
            THEN /\ want' = [want EXCEPT ![r] = @ \ {l}]
                 /\ got' = [got EXCEPT ![r] = @ \cup {l}]
                 /\ UNCHANGED <<pc, result>>
            ELSE CASE l.on[1] = "number" -> Ends(r, "number taken")
                   [] l.shared           -> Ends(r, "reference gone")
                   [] r \in Stars        -> Ends(r, "stale")
                   [] OTHER -> /\ want' = [want EXCEPT ![r] = @ \ {l}]
                               /\ UNCHANGED <<pc, result, got>>
    BY DEF Acquire
  <1>4. CASE \E how : Ends(r, how) BY <1>1, <1>2, <1>4, EndsAct
  <1>5. CASE ~ \E how : Ends(r, how)
    <2>1. /\ pc' = pc /\ want' = [want EXCEPT ![r] = @ \ {l}]
          /\ got' = [got EXCEPT ![r] = @ \cup {l}] \/ got' = got
      BY <1>3, <1>5
    <2>2. /\ want'[r] = want[r] \ {l} /\ got[r] \subseteq got'[r] /\ got'[r] \subseteq got[r] \cup {l}
          /\ \A q \in Requests \ {r} : want'[q] = want[q] /\ got'[q] = got[q]
      <3>1. CASE got' = got BY <1>1, <2>1, <3>1 DEF Domains
      <3>2. CASE got' = [got EXCEPT ![r] = @ \cup {l}] BY <1>1, <2>1, <3>2 DEF Domains
      <3> QED BY <2>1, <3>1, <3>2
    <2>3. Alone(r) BY <1>2, <2>1, <2>2 DEF Alone, Scratch
    <2>4. \A x : Asks(r, x)' => Asks(r, x) BY <1>3, <2>2 DEF Asks
    <2>5. HeldModels(r) \subseteq HeldModels(r)' BY <1>2, <2>2 DEF HeldModels, Holds, Same
    <2>6. AddsItsList(r) => AddsItsList(r)'
      <3>1. \A i, b : MadeBy(r, i, b)' <=> MadeBy(r, i, b) BY <1>2 DEF Scratch, MadeBy
      <3> QED BY <1>2, <2>1, <3>1 DEF AddsItsList, Scratch
    <2>7. StarsOne(r) => StarsOne(r)'
      <3>1. want'[r] \cup got'[r] \subseteq want[r] \cup got[r] BY <1>3, <2>2
      <3> QED BY <1>2, <2>1, <3>1 DEF StarsOne, Scratch
    <2>8. RemovesOne(r) => RemovesOne(r)'
      BY <1>2, <2>1, <2>4, <2>5 DEF RemovesOne, Same
    <2> QED BY <1>1, <1>2, <2>3, <2>6, <2>7, <2>8 DEF ActsOn
  <1> QED BY <1>4, <1>5

\* What a step commits: nothing, or what one request has changed.
Commits(r) ==
    \/ Same
    \/ r \in Seeds /\ CommitSeed(r)
    \/ r \in Stars /\ CommitStar(r)
    \/ r \in Removals /\ CommitRemoval(r)
    \/ r \in Closings /\ CommitClosing(r)
    \/ \E m \in DOMAIN Models, name \in Renamed : Rename(r, m, name)

LEMMA StepsCommit ==
  ASSUME Inv, ActsInv, Next
  PROVE  \E r \in Requests : Alone(r) /\ ActsOn(r)' /\ Commits(r) /\ Chooses(r)
  <1>1. Domains BY DEF Inv
  <1>2. ASSUME NEW r \in Requests, NEW how, Ends(r, how), Scratch, Commits(r)
        PROVE  Alone(r) /\ ActsOn(r)' /\ Commits(r) /\ Chooses(r)
    BY <1>1, <1>2, EndsAct, EndedChoosesNothing
  <1>3. ASSUME NEW r \in Requests, Step(r)
        PROVE  Alone(r) /\ ActsOn(r)' /\ Commits(r) /\ Chooses(r)
    <2>1. CASE Acquire(r)
      <3>1. Chooses(r) BY <1>1, <2>1, SeedsChoose, OthersChooseNothing
      <3> QED BY <2>1, <3>1, AcquireActs DEF Commits
    <2>2. CASE r \in Seeds /\ SeedStep(r) /\ ~CommitSeed(r)
      BY <1>1, <2>2, SeedsAct, SeedsChoose DEF Commits
    <2>3. CASE r \in Seeds /\ CommitSeed(r)
      <3>1. Ends(r, "ok") /\ Scratch BY <2>3 DEF CommitSeed
      <3> QED BY <1>2, <2>3, <3>1 DEF Commits
    <2>4. CASE r \in Stars /\ CommitStar(r)
      <3>1. Ends(r, "ok") /\ Scratch BY <2>4 DEF CommitStar
      <3> QED BY <1>2, <2>4, <3>1 DEF Commits
    <2>5. CASE r \in Removals /\ UnsetModel(r)
      BY <2>5, RemovalActs, OthersChooseNothing, KindsOfRequests DEF Commits
    <2>6. CASE r \in Removals /\ CommitRemoval(r)
      <3>1. Ends(r, "ok") /\ Scratch BY <2>6 DEF CommitRemoval
      <3> QED BY <1>2, <2>6, <3>1 DEF Commits
    <2>7. CASE r \in Closings /\ (UnsetModels(r) \/ DeleteUser(r) \/ Cascade(r))
      BY <2>7, ClosingActs, OthersChooseNothing, KindsOfRequests DEF Commits
    <2>8. CASE r \in Closings /\ CommitClosing(r)
      <3>1. Ends(r, "ok") /\ Scratch BY <2>8 DEF CommitClosing
      <3> QED BY <1>2, <2>8, <3>1 DEF Commits
    <2> QED BY <1>3, <2>1, <2>2, <2>3, <2>4, <2>5, <2>6, <2>7, <2>8 DEF Step, SeedStep
  <1>4. ASSUME NEW r \in Requests, Deadlock(r) \/ Crash(r)
        PROVE  Alone(r) /\ ActsOn(r)' /\ Commits(r) /\ Chooses(r)
    <2>1. /\ Ends(r, "deadlock") \/ Ends(r, "crashed")
          /\ Scratch /\ Same
      BY <1>4 DEF Deadlock, Crash, Same, Committed
    <2> QED BY <1>2, <2>1 DEF Commits
  <1>5. ASSUME NEW r \in Renames, NEW m \in DOMAIN Models, NEW name \in Renamed, Rename(r, m, name)
        PROVE  Alone(r) /\ ActsOn(r)' /\ Commits(r) /\ Chooses(r)
    <2>1. (Ends(r, "ok") \/ Ends(r, "refused")) /\ Scratch BY <1>5 DEF Rename
    <2>2. Commits(r) BY <1>5 DEF Commits
    <2> QED BY <1>2, <2>1, <2>2, KindsOfRequests
  <1>6. ASSUME NEW s \in Seeds, FindUser(s)
        PROVE  Alone(s) /\ ActsOn(s)' /\ Commits(s) /\ Chooses(s)
    BY <1>1, <1>6, SeedsAct, SeedsChoose, KindsOfRequests DEF Commits
  <1>7. ASSUME NEW t \in Stars, NEW id \in Ids, NEW starred \in BOOLEAN,
               SelectBacktest(t, id, starred)
        PROVE  Alone(t) /\ ActsOn(t)' /\ Commits(t) /\ Chooses(t)
    BY <1>7, SelectActs, OthersChooseNothing, KindsOfRequests DEF Commits
  <1>8. ASSUME NEW d \in Removals, NEW m \in DOMAIN Models, DeleteModel(d, m)
        PROVE  Alone(d) /\ ActsOn(d)' /\ Commits(d) /\ Chooses(d)
    BY <1>8, RemovalActs, OthersChooseNothing, KindsOfRequests DEF Commits
  <1>9. ASSUME NEW k \in Closings, DeleteModels(k)
        PROVE  Alone(k) /\ ActsOn(k)' /\ Commits(k) /\ Chooses(k)
    BY <1>9, ClosingActs, OthersChooseNothing, KindsOfRequests DEF Commits
  <1> QED BY <1>3, <1>4, <1>5, <1>6, <1>7, <1>8, <1>9, KindsOfRequests DEF Next

\* A model that goes was locked by who removes it, so nobody else's.
LEMMA HeldModelsStay ==
  ASSUME Inv, NEW r \in Requests, Alone(r), NEW q \in Removals \ {r},
         DOMAIN models' \subseteq DOMAIN models,
         DOMAIN models \ DOMAIN models' \subseteq HeldModels(r)
  PROVE  HeldModels(q)' = HeldModels(q)
  <1>1. q \in Requests /\ RemovalInv(q) /\ Mutex BY KindsOfRequests DEF Inv, RequestInv
  <1>2. got'[q] = got[q] BY <1>1 DEF Alone
  <1>3. ASSUME NEW m \in HeldModels(q), m \in HeldModels(r) PROVE FALSE
    <2>1. PICK l \in got[q] : l.on = Model(m) BY DEF HeldModels, Holds
    <2>2. PICK k \in got[r] : k.on = Model(m) BY <1>3 DEF HeldModels, Holds
    <2>3. l \in RemovalLocks BY <1>1 DEF RemovalInv, Shape
    <2>4. ~l.shared BY <2>3, LockShapes DEF RemovalLocks, ModelLocks, RowLocks
    <2>5. Clash(k, l) BY <2>1, <2>2, <2>4 DEF Clash
    <2> QED BY <1>1, <2>5 DEF Mutex
  <1>4. \A m \in HeldModels(q) : m \in DOMAIN models' BY <1>3 DEF HeldModels
  <1> QED BY <1>2, <1>4 DEF HeldModels, Holds

\* A request that has a row has its lock.
LEMMA RowsHeld ==
  ASSUME Inv, NEW r \in Stars \cup Removals, NEW b \in rows
  PROVE  Holds(r, Row(b.id)) <=> Exclusive(Row(b.id)) \in got[r]
  <1>1. got[r] \subseteq StarLocks \/ got[r] \subseteq RemovalLocks
    BY KindsOfRequests DEF Inv, RequestInv, StarInv, RemovalInv, Shape
  <1>2. got[r] \subseteq RowLocks \cup ModelLocks BY <1>1 DEF StarLocks, RemovalLocks
  <1>3. ASSUME NEW l \in got[r], l.on = Row(b.id) PROVE l = Exclusive(Row(b.id))
    <2>1. l \notin ModelLocks BY <1>3, LockShapes DEF ModelLocks
    <2>2. PICK id \in Ids : l = Exclusive(Row(id)) BY <1>2, <2>1 DEF RowLocks
    <2> QED BY <1>3, <2>2, LockShapes
  <1>4. Exclusive(Row(b.id)).on = Row(b.id) BY LockShapes
  <1> QED BY <1>3, <1>4 DEF Holds

\* Whoever commits, the rows that another removal asked for name its model still.
LEMMA CommitsTell ==
  ASSUME Inv, ActsInv, NEW r \in Requests, Alone(r), Commits(r), NEW q \in Removals \ {r}
  PROVE  Told(q)
  <1>1. /\ q \in Requests /\ RemovalInv(q) /\ RemovesOne(q) /\ Mutex /\ RowsInv /\ Domains
    BY KindsOfRequests DEF Inv, RequestInv, ActsInv, ActsOn
  <1>2. CASE Same
    <2>1. HeldModels(q)' = HeldModels(q) BY <1>2, HeldModelsStay DEF Same
    <2> QED BY <1>2, <2>1 DEF Told, Same
  <1>3. CASE r \in Seeds /\ CommitSeed(r)
    <2>1. /\ models' = models /\ rows' = {b \in rows : ~b.seeded} \cup new[r]
          /\ \A b \in new[r] : \E i \in DOMAIN Runs : IsNew(r, i, b)
      BY <1>3, CommitSeedRows
    <2>2. HeldModels(q)' = HeldModels(q) BY <2>1, HeldModelsStay
    <2>3. ASSUME NEW c \in new[r], Asks(q, Exclusive(Row(c.id))) PROVE FALSE
      <3>1. PICK i \in DOMAIN Runs : c.id = <<r, i>> BY <2>1 DEF IsNew
      <3>2. c.id \in Ids BY <1>3, <3>1 DEF Ids
      <3>3. pc[r] = "done" BY <1>1, <1>3, <2>3, <3>1, <3>2 DEF RemovesOne
      <3> QED BY <1>3, <3>3 DEF CommitSeed, Ready
    <2> QED BY <2>1, <2>2, <2>3 DEF Told
  <1>4. CASE r \in Stars /\ CommitStar(r)
    <2>1. models' = models BY <1>4 DEF CommitStar
    <2>2. \A c \in rows' : \E b \in rows : b.id = c.id /\ b.model = c.model
      BY <1>4, StarredAreAlike DEF Alike
    <2>3. HeldModels(q)' = HeldModels(q) BY <2>1, HeldModelsStay
    <2> QED BY <2>2, <2>3 DEF Told
  <1>5. CASE r \in Removals /\ CommitRemoval(r)
    <2>1. DOMAIN models' = DOMAIN models \ HeldModels(r) BY <1>5 DEF CommitRemoval
    <2>2. HeldModels(q)' = HeldModels(q)
      <3>1. HeldModels(r) \subseteq DOMAIN models BY DEF HeldModels
      <3> QED BY <2>1, <3>1, HeldModelsStay
    <2>3. RemovesOne(r) BY <1>5 DEF ActsInv, ActsOn
    <2>4. ASSUME NEW b \in rows, Holds(r, Row(b.id)), Asks(q, Exclusive(Row(b.id))) PROVE FALSE
      <3>1. Exclusive(Row(b.id)) \in got[r] BY <1>5, <2>4, RowsHeld
      <3>2. b.model \in HeldModels(r) BY <2>3, <3>1 DEF RemovesOne, Asks
      <3>3. b.model \in HeldModels(q) BY <1>1, <2>4 DEF RemovesOne
      <3>4. PICK k \in got[r] : k.on = Model(b.model) BY <3>2 DEF HeldModels, Holds
      <3>5. PICK l \in got[q] : l.on = Model(b.model) BY <3>3 DEF HeldModels, Holds
      <3>6. l \in RemovalLocks BY <1>1, <3>5 DEF RemovalInv, Shape
      <3>7. ~l.shared BY <3>6, LockShapes DEF RemovalLocks, ModelLocks, RowLocks
      <3>8. Clash(k, l) BY <3>4, <3>5, <3>7 DEF Clash
      <3> QED BY <1>1, <3>4, <3>5, <3>8 DEF Mutex
    <2>5. ASSUME NEW c \in rows', Asks(q, Exclusive(Row(c.id)))
          PROVE  \E b \in rows : b.id = c.id /\ b.model = c.model
      <3>1. PICK b \in rows : c = IF Holds(r, Row(b.id)) THEN Without(b) ELSE b
        BY <1>5 DEF CommitRemoval
      <3>2. DOMAIN b = Fields BY <1>1 DEF RowsInv
      <3>3. c.id = b.id BY <3>1, <3>2 DEF Without, Fields
      <3>4. ~Holds(r, Row(b.id)) BY <2>4, <2>5, <3>3
      <3> QED BY <3>1, <3>4
    <2> QED BY <2>2, <2>5 DEF Told
  <1>6. CASE r \in Closings /\ CommitClosing(r)
    <2>1. DOMAIN models' = DOMAIN models \ HeldModels(r) /\ rows' \subseteq rows
      BY <1>6 DEF CommitClosing
    <2>2. HeldModels(q)' = HeldModels(q)
      <3>1. HeldModels(r) \subseteq DOMAIN models BY DEF HeldModels
      <3> QED BY <2>1, <3>1, HeldModelsStay
    <2> QED BY <2>1, <2>2 DEF Told
  <1>7. CASE \E m \in DOMAIN Models, name \in Renamed : Rename(r, m, name)
    <2>1. rows' = rows /\ DOMAIN models' = DOMAIN models BY <1>7 DEF Rename
    <2>2. HeldModels(q)' = HeldModels(q) BY <2>1, HeldModelsStay
    <2> QED BY <2>1, <2>2 DEF Told
  <1> QED BY <1>2, <1>3, <1>4, <1>5, <1>6, <1>7 DEF Commits

LEMMA ActsHoldAtFirst ==
  ASSUME Init
  PROVE  ActsInv
  <1>1. \A r \in Requests : pc[r] = "idle" /\ want[r] = {} /\ got[r] = {} BY DEF Init
  <1>2. ASSUME NEW r \in Requests PROVE AddsItsList(r) /\ StarsOne(r) /\ RemovesOne(r)
    <2>1. \A l : ~Asks(r, l) BY <1>1 DEF Asks
    <2> QED BY <1>1, <2>1 DEF AddsItsList, StarsOne, RemovesOne
  <1> QED BY <1>2 DEF ActsInv, ActsOn

LEMMA ActsAreKept ==
  ASSUME Inv, ActsInv, [Next]_vars
  PROVE  ActsInv'
  <1>1. CASE Next
    <2>1. PICK r \in Requests : Alone(r) /\ ActsOn(r)' /\ Commits(r) BY <1>1, StepsCommit
    <2>2. \A q \in Requests \ {r} : ActsOn(q)'
      <3> TAKE q \in Requests \ {r}
      <3>1. q \in Removals => Told(q) BY <2>1, CommitsTell
      <3> QED BY <2>1, <3>1, OthersAct
    <2> QED BY <2>1, <2>2 DEF ActsInv
  <1>2. CASE UNCHANGED vars
    <2> USE <1>2 DEF vars
    <2>1. \A r, i, b : MadeBy(r, i, b)' <=> MadeBy(r, i, b) BY DEF MadeBy
    <2>2. \A r, l : Asks(r, l)' <=> Asks(r, l) BY DEF Asks
    <2>3. \A r : HeldModels(r)' = HeldModels(r) BY DEF HeldModels, Holds
    <2>4. \A r : AddsItsList(r) => AddsItsList(r)' BY <2>1 DEF AddsItsList
    <2>5. \A r : StarsOne(r) => StarsOne(r)' BY DEF StarsOne
    <2>6. \A r : RemovesOne(r) => RemovesOne(r)' BY <2>2, <2>3 DEF RemovesOne
    <2> QED BY <2>4, <2>5, <2>6 DEF ActsInv, ActsOn
  <1> QED BY <1>1, <1>2

\* The last number of what the command did not make, as long as the user is there.
LEMMA LastIsLastOther ==
  ASSUME Inv, user
  PROVE  Atomic!Last = LastOther
  <1> DEFINE left == {b \in rows : ~b.seeded}
  <1>1. RowsInv BY DEF Inv
  <1>2. \A b \in left : \E o \in Others : o.number = b.number BY <1>1 DEF RowsInv
  <1>3. \A o \in Others : \E b \in left : o.number = b.number BY <1>1 DEF RowsInv
  <1>4. {b.number : b \in left} = {o.number : o \in Others} BY <1>2, <1>3
  <1>5. left = {} <=> Others = {} BY <1>2, <1>3
  <1>6. Atomic!Last = IF left = {} THEN 0 ELSE Max({b.number : b \in left})
    BY DEF Atomic!Last, Atomic!Left, Atomic!Max, Max
  <1> HIDE DEF left
  <1> QED BY <1>4, <1>5, <1>6 DEF LastOther

\* What a run of the command read of the models is what its backtests have.
LEMMA ChosenIsMade ==
  ASSUME NEW s \in Seeds, NEW picks \in Chosen(s), NEW i \in DOMAIN Runs, NEW b \in new[s],
         b.id = <<s, i>>, \A a, c \in new[s] : a.id = c.id => a = c
  PROVE  picks[i] = [model |-> b.model, name |-> b.name]
  <1>1. (CHOOSE c \in new[s] : c.id = <<s, i>>) = b OBVIOUS
  <1>2. picks = [j \in DOMAIN Runs |->
                   LET c == CHOOSE c \in new[s] : c.id = <<s, j>>
                   IN  [model |-> c.model, name |-> c.name]]
    BY DEF Chosen
  <1> QED BY <1>1, <1>2

LEMMA SeedsReplace ==
  ASSUME Inv, ActsInv, NEW s \in Seeds, CommitSeed(s)
  PROVE  /\ user /\ user' = user /\ models' = models
         /\ \E picks \in Chosen(s) :
               /\ \A i \in DOMAIN Runs : picks[i].model \in DOMAIN models \cup {None}
               /\ rows' = Atomic!Left \cup {Atomic!Made(s, picks, i) : i \in DOMAIN Runs}
  <1>1. SeedInv(s) /\ AddsItsList(s) /\ HeldIsThere /\ Domains /\ s \in Requests
    BY KindsOfRequests DEF Inv, RequestInv, ActsInv, ActsOn
  <1>2. pc[s] = "commit" BY DEF CommitSeed, Ready
  <1>3. /\ user /\ user' = user /\ models' = models
        /\ rows' = {b \in rows : ~b.seeded} \cup new[s]
        /\ \A b \in new[s] : b.model # None => Shared(Model(b.model)) \in got[s]
    BY CommitSeedRows DEF CommitSeed
  <1>4. first[s] = LastOther + 1 /\ Atomic!Last = LastOther /\ LastOther \in Nat
    BY <1>1, <1>2, <1>3, LastIsLastOther, NumbersOfOthers DEF SeedInv
  <1>5. /\ \A b \in new[s] : \E i \in DOMAIN Runs : MadeBy(s, i, b)
        /\ \A i \in DOMAIN Runs : \E b \in new[s] : b.id = <<s, i>>
        /\ \A a, b \in new[s] : a.id = b.id => a = b
    BY <1>1, <1>2 DEF AddsItsList, SeedInv, IsNew
  <1> PICK picks \in Chosen(s) : TRUE BY <1>2 DEF Chosen
  <1>6. ASSUME NEW i \in DOMAIN Runs, NEW b \in new[s], MadeBy(s, i, b)
        PROVE  /\ b = Atomic!Made(s, picks, i)
               /\ picks[i].model \in DOMAIN models \cup {None}
    <2>1. first[s] + i - 1 = Atomic!Last + i BY <1>4, RunsAreCounted
    <2>2. b.id = <<s, i>> BY <1>6 DEF MadeBy
    <2>3. picks[i] = [model |-> b.model, name |-> b.name] BY <1>5, <2>2, ChosenIsMade
    <2>4. b = Atomic!Made(s, picks, i) BY <1>6, <2>1, <2>3 DEF MadeBy, Atomic!Made
    <2>5. b.model \in DOMAIN models \cup {None}
      <3> SUFFICES ASSUME b.model # None PROVE b.model \in DOMAIN models OBVIOUS
      <3>1. Shared(Model(b.model)) \in got[s] BY <1>3
      <3>2. b.model \in DOMAIN Models
        <4>1. \E j \in DOMAIN Runs : IsNew(s, j, b) BY <1>1, <1>2 DEF SeedInv
        <4> QED BY <4>1 DEF IsNew
      <3> QED BY <1>1, <3>1, <3>2, LockShapes DEF HeldIsThere
    <2> QED BY <2>3, <2>4, <2>5
  <1>7. \A i \in DOMAIN Runs : \E b \in new[s] : MadeBy(s, i, b)
    <2> TAKE i \in DOMAIN Runs
    <2>1. PICK b \in new[s] : b.id = <<s, i>> BY <1>5
    <2>2. PICK j \in DOMAIN Runs : MadeBy(s, j, b) BY <1>5
    <2>3. j = i BY <2>1, <2>2 DEF MadeBy
    <2> QED BY <2>2, <2>3
  <1>8. new[s] = {Atomic!Made(s, picks, i) : i \in DOMAIN Runs} BY <1>5, <1>6, <1>7
  <1>9. \A i \in DOMAIN Runs : picks[i].model \in DOMAIN models \cup {None} BY <1>6, <1>7
  <1> QED BY <1>3, <1>8, <1>9 DEF Atomic!Left

LEMMA StarsStar ==
  ASSUME Inv, ActsInv, NEW t \in Stars, CommitStar(t)
  PROVE  \/ rows' = rows
         \/ \E b \in rows, starred \in BOOLEAN :
                rows' = (rows \ {b}) \cup {[b EXCEPT !.starred = starred]}
  <1>1. RowsInv /\ StarsOne(t) /\ t \in Requests
    BY KindsOfRequests DEF Inv, ActsInv, ActsOn
  <1>2. /\ pc[t] = "update" /\ user' = user /\ models' = models
        /\ rows' = {IF Holds(t, Row(b.id)) THEN Written(t, b) ELSE b : b \in rows}
    BY DEF CommitStar, Ready
  <1>3. star[t].starred \in BOOLEAN /\ \A k, l \in got[t] : k = l BY <1>1, <1>2 DEF StarsOne
  <1>4. CASE \A b \in rows : ~Holds(t, Row(b.id)) BY <1>2, <1>4
  <1>5. CASE \E b \in rows : Holds(t, Row(b.id))
    <2>1. PICK b \in rows : Holds(t, Row(b.id)) BY <1>5
    <2>2. ASSUME NEW c \in rows, Holds(t, Row(c.id)) PROVE c = b
      <3>1. Exclusive(Row(c.id)) = Exclusive(Row(b.id)) BY <1>3, <2>1, <2>2, RowsHeld
      <3>2. c.id = b.id BY <3>1, LockShapes
      <3> QED BY <1>1, <3>2 DEF RowsInv
    <2>3. rows' = (rows \ {b}) \cup {Written(t, b)} BY <1>2, <2>1, <2>2
    <2> QED BY <1>2, <1>3, <2>3 DEF Written
  <1> QED BY <1>4, <1>5

LEMMA RemovalsRemove ==
  ASSUME Inv, ActsInv, NEW d \in Removals, CommitRemoval(d)
  PROVE  \E m \in DOMAIN models :
             /\ models' = [other \in DOMAIN models \ {m} |-> models[other]]
             /\ rows' = {IF b.model = m THEN [b EXCEPT !.model = None] ELSE b : b \in rows}
             /\ user' = user
  <1>1. RowsInv /\ RemovalInv(d) /\ RemovesOne(d) /\ Domains /\ d \in Requests
    BY KindsOfRequests DEF Inv, RequestInv, ActsInv, ActsOn
  <1>2. /\ pc[d] = "commit" /\ want[d] = {} /\ user' = user
        /\ models' = [m \in DOMAIN models \ HeldModels(d) |-> models[m]]
        /\ rows' = {IF Holds(d, Row(b.id)) THEN Without(b) ELSE b : b \in rows}
    BY DEF CommitRemoval, Ready
  <1>3. \A b \in rows : Holds(d, Row(b.id)) <=> b.model \in HeldModels(d)
    BY <1>1, <1>2, RowsHeld DEF RemovalInv, RemovesOne, Asks
  <1>4. PICK m \in DOMAIN models : m \in HeldModels(d)
    BY <1>1, <1>2 DEF RemovesOne, HeldModels
  <1>5. HeldModels(d) = {m}
    <2>1. ASSUME NEW n \in HeldModels(d) PROVE Asks(d, Exclusive(Model(n))) /\ n \in DOMAIN Models
      <3>1. PICK l \in got[d] : l.on = Model(n) BY DEF HeldModels, Holds
      <3>2. l \in RemovalLocks BY <1>1 DEF RemovalInv, Shape
      <3>3. l \notin RowLocks BY <3>1, LockShapes DEF RowLocks
      <3>4. PICK k \in DOMAIN Models : l = Exclusive(Model(k))
        BY <3>2, <3>3 DEF RemovalLocks, ModelLocks
      <3>5. k = n BY <3>1, <3>4, LockShapes
      <3> QED BY <3>4, <3>5 DEF Asks
    <2> QED BY <1>1, <1>4, <2>1 DEF RemovesOne
  <1>6. models' = [other \in DOMAIN models \ {m} |-> models[other]] BY <1>2, <1>5
  <1>7. rows' = {IF b.model = m THEN [b EXCEPT !.model = None] ELSE b : b \in rows}
    BY <1>2, <1>3, <1>5 DEF Without
  <1> QED BY <1>2, <1>4, <1>6, <1>7

\* A closed account is empty, also when another request closed it before.
LEMMA ClosingsClose ==
  ASSUME Inv, NEW k \in Closings, CommitClosing(k)
  PROVE  Same \/ (user /\ user' = FALSE /\ models' = <<>> /\ rows' = {})
  <1>1. Inv' BY CommitClosingKeeps
  <1>2. user' = FALSE BY DEF CommitClosing
  <1>3. rows' = {} /\ models' = <<>> BY <1>1, <1>2 DEF Inv, RowsInv
  <1>4. ~user => rows = {} /\ models = <<>> /\ user = FALSE BY DEF Inv, RowsInv, Domains
  <1> QED BY <1>2, <1>3, <1>4 DEF Same

\* The models that a run of the command read for its backtests.
LEMMA AddAllChooses ==
  ASSUME Domains, NEW s \in Seeds, s \in Requests, AddAll(s)
  PROVE  Chosen(s)' = {[i \in DOMAIN Runs |->
             LET m == Atomic!ModelOf(Runs[i])
             IN  [model |-> m, name |-> IF m = None THEN Runs[i].model ELSE models[m]]]}
  <1>1. pc'[s] = "insert" /\ new'[s] = {Backtest(s, i) : i \in DOMAIN Runs}
    BY DEF AddAll, Domains, Goto
  <1>2. ASSUME NEW i \in DOMAIN Runs
        PROVE  (CHOOSE c \in new'[s] : c.id = <<s, i>>) = Backtest(s, i)
    <2>1. \A j \in DOMAIN Runs : Backtest(s, j).id = <<s, j>> BY DEF Backtest
    <2>2. Backtest(s, i) \in new'[s] BY <1>1
    <2>3. \A c \in new'[s] : c.id = <<s, i>> => c = Backtest(s, i) BY <1>1, <2>1
    <2> QED BY <2>1, <2>2, <2>3
  <1>3. ASSUME NEW i \in DOMAIN Runs
        PROVE  LET m == Atomic!ModelOf(Runs[i])
               IN  /\ Backtest(s, i).model = m
                   /\ Backtest(s, i).name = IF m = None THEN Runs[i].model ELSE models[m]
    <2>1. Atomic!ModelOf(Runs[i]) = ModelOf(Runs[i])
      BY DEF Atomic!ModelOf, ModelOf, Atomic!Lower, Lower
    <2> QED BY <2>1 DEF Backtest
  <1>4. Chosen(s)' = {[i \in DOMAIN Runs |->
             [model |-> (CHOOSE c \in new'[s] : c.id = <<s, i>>).model,
              name |-> (CHOOSE c \in new'[s] : c.id = <<s, i>>).name]]}
    BY <1>1 DEF Chosen
  <1> QED BY <1>2, <1>3, <1>4

\* What a step changes of the models that were read.
LEMMA StepsChoose ==
  ASSUME NEW r \in Requests, Alone(r)
  PROVE  /\ \A s \in Seeds \ {r} : Chosen(s)' = Chosen(s)
         /\ r \in Seeds => [s \in Seeds |-> Chosen(s)]'
                               = [[s \in Seeds |-> Chosen(s)] EXCEPT ![r] = Chosen(r)']
         /\ r \notin Seeds => [s \in Seeds |-> Chosen(s)]' = [s \in Seeds |-> Chosen(s)]
  <1>1. \A s \in Seeds \ {r} : Chosen(s)' = Chosen(s)
    <2> TAKE s \in Seeds \ {r}
    <2>1. pc'[s] = pc[s] /\ new'[s] = new[s] BY KindsOfRequests DEF Alone
    <2> QED BY <2>1 DEF Chosen
  <1> QED BY <1>1

LEMMA StepsActAtOnce ==
  ASSUME Inv, ActsInv, [Next]_vars
  PROVE  [Atomic!Next]_(Atomic!vars)
  <1> DEFINE all == [s \in Seeds |-> Chosen(s)]
  <1>1. Same /\ all' = all => UNCHANGED Atomic!vars BY DEF Same, Atomic!vars
  <1>2. CASE UNCHANGED vars
    <2>1. all' = all BY <1>2 DEF vars, Chosen
    <2> QED BY <1>1, <1>2, <2>1 DEF vars, Same
  <1>3. CASE Next
    <2>1. PICK r \in Requests : Alone(r) /\ Commits(r) /\ Chooses(r) BY <1>3, StepsCommit
    <2>2. r \notin Seeds => all' = all BY <2>1, StepsChoose
    <2>3. r \in Seeds => all' = [all EXCEPT ![r] = Chosen(r)'] BY <2>1, StepsChoose
    <2>4. CASE Same /\ r \notin Seeds BY <1>1, <2>2, <2>4
    <2>5. CASE Same /\ r \in Seeds
      <3>1. CASE Chosen(r)' = Chosen(r) BY <1>1, <2>3, <2>5, <3>1
      <3>2. CASE Chosen(r)' = {}
        <4>1. Atomic!GiveUp(r) BY <2>3, <2>5, <3>2 DEF Same, Atomic!GiveUp
        <4> QED BY <2>5, <4>1 DEF Atomic!Next
      <3>3. CASE AddAll(r)
        <4>1. Domains BY DEF Inv
        <4>2. Atomic!Choose(r) BY <2>3, <2>5, <3>3, <4>1, AddAllChooses DEF Same, Atomic!Choose
        <4> QED BY <2>5, <4>2 DEF Atomic!Next
      <3> QED BY <2>1, <2>5, <3>1, <3>2, <3>3 DEF Chooses
    <2>6. CASE r \in Seeds /\ CommitSeed(r)
      <3>1. Ends(r, "ok") BY <2>6 DEF CommitSeed
      <3>2. Chosen(r)' = {} BY <3>1 DEF Inv, Domains, Ends, Chosen
      <3>3. Atomic!Replace(r) BY <2>3, <2>6, <3>2, SeedsReplace DEF Atomic!Replace
      <3> QED BY <2>6, <3>3 DEF Atomic!Next
    <2>7. CASE r \in Stars /\ CommitStar(r)
      <3>1. user' = user /\ models' = models /\ all' = all
        BY <2>2, <2>7, KindsOfRequests DEF CommitStar
      <3>2. CASE rows' = rows BY <1>1, <3>1, <3>2 DEF Same
      <3>3. CASE rows' # rows
        <4>1. PICK b \in rows, starred \in BOOLEAN :
                rows' = (rows \ {b}) \cup {[b EXCEPT !.starred = starred]}
          BY <2>7, <3>3, StarsStar
        <4>2. Atomic!Star(b, starred) BY <3>1, <4>1 DEF Atomic!Star
        <4> QED BY <4>2 DEF Atomic!Next
      <3> QED BY <3>2, <3>3
    <2>8. CASE r \in Removals /\ CommitRemoval(r)
      <3>1. all' = all BY <2>2, <2>8, KindsOfRequests
      <3>2. PICK m \in DOMAIN models :
              /\ models' = [other \in DOMAIN models \ {m} |-> models[other]]
              /\ rows' = {IF b.model = m THEN [b EXCEPT !.model = None] ELSE b : b \in rows}
              /\ user' = user
        BY <2>8, RemovalsRemove
      <3>3. Atomic!Remove(m) BY <3>1, <3>2 DEF Atomic!Remove
      <3> QED BY <3>3 DEF Atomic!Next
    <2>9. CASE r \in Closings /\ CommitClosing(r)
      <3>1. all' = all BY <2>2, <2>9, KindsOfRequests
      <3>2. CASE Same BY <1>1, <3>1, <3>2
      <3>3. CASE ~Same
        <4>1. Atomic!Close BY <2>9, <3>1, <3>3, ClosingsClose DEF Atomic!Close
        <4> QED BY <4>1 DEF Atomic!Next
      <3> QED BY <3>2, <3>3
    <2>10. CASE \E m \in DOMAIN Models, name \in Renamed : Rename(r, m, name)
      <3>1. PICK m \in DOMAIN Models, name \in Renamed : Rename(r, m, name) BY <2>10
      <3>2. user' = user /\ rows' = rows BY <3>1 DEF Rename
      <3>3. all' = all
        <4>1. new' = new /\ (Ends(r, "ok") \/ Ends(r, "refused")) BY <3>1 DEF Rename, Scratch
        <4>2. pc[r] = "idle" BY <3>1 DEF Rename
        <4>3. r \in Seeds => Chosen(r)' = Chosen(r)
          BY <4>1, <4>2 DEF Inv, Domains, Ends, Chosen
        <4> QED BY <2>2, <2>3, <4>3
      <3>4. CASE models' = models BY <1>1, <3>2, <3>3, <3>4 DEF Same
      <3>5. CASE models' # models
        <4>1. /\ m \in DOMAIN models /\ models' = [models EXCEPT ![m] = name]
              /\ \A other \in DOMAIN models \ {m} : Lower(models[other]) # Lower(name)
          BY <3>1, <3>5 DEF Rename
        <4>2. Atomic!Rename(m, name) BY <3>2, <3>3, <4>1 DEF Atomic!Rename, Lower, Atomic!Lower
        <4> QED BY <3>1, <4>1, <4>2 DEF Atomic!Next
      <3> QED BY <3>4, <3>5
    <2> QED BY <2>1, <2>4, <2>5, <2>6, <2>7, <2>8, <2>9, <2>10 DEF Commits
  <1> QED BY <1>2, <1>3

\* Each request acts at once on the backtests that are there when it commits, a run of the
\* seed command on models it read before and that are there still, or not at all, for
\* any requests, models, backtests, deadlocks and crashes (seed.py; service.py).
THEOREM RequestsActAtOnce == Spec => AtomicSpec
  <1>1. Init => ActsInv BY ActsHoldAtFirst
  <1>2. Init => Atomic!Init
    <2>1. Init => \A s \in Seeds : Chosen(s) = {} BY DEF Init, Chosen, Requests
    <2> QED BY <2>1 DEF Init, Atomic!Init
  <1>3. Inv /\ ActsInv /\ [Next]_vars => ActsInv' BY ActsAreKept
  <1>4. Inv /\ ActsInv /\ [Next]_vars => [Atomic!Next]_(Atomic!vars) BY StepsActAtOnce
  <1> QED BY <1>1, <1>2, <1>3, <1>4, TransactionsExclude, PTL DEF Spec, AtomicSpec, Atomic!Spec

-----------------------------------------------------------------------------
(***************************************************************************)
(* The lists add up.                                                       *)
(***************************************************************************)

\* R orders S, and the rank of an element is how many are before it.
Orders(R, S) ==
    /\ \A a \in S : <<a, a>> \notin R
    /\ \A a, b, c \in S : <<a, b>> \in R /\ <<b, c>> \in R => <<a, c>> \in R
    /\ \A a, b \in S : a # b => <<a, b>> \in R \/ <<b, a>> \in R
Ahead(R, S, b) == {a \in S : <<a, b>> \in R}
RankIn(R, S, b) == Cardinality(Ahead(R, S, b))

\* The ranks are 0 up to one less than there are elements, each once.
LEMMA RanksCount ==
  ASSUME NEW S, IsFiniteSet(S), NEW R, Orders(R, S)
  PROVE  [b \in S |-> RankIn(R, S, b)] \in Bijection(S, 0..(Cardinality(S) - 1))
  <1> DEFINE n == Cardinality(S)
             rank == [b \in S |-> RankIn(R, S, b)]
  <1>1. n \in Nat BY FS_CardinalityType
  <1>2. ASSUME NEW b \in S
        PROVE  IsFiniteSet(Ahead(R, S, b)) /\ RankIn(R, S, b) \in 0..(n - 1)
    <2>1. Ahead(R, S, b) \in SUBSET (S \ {b}) BY DEF Ahead, Orders
    <2>2. IsFiniteSet(S \ {b}) /\ Cardinality(S \ {b}) = n - 1 BY FS_RemoveElement
    <2>3. IsFiniteSet(Ahead(R, S, b)) /\ RankIn(R, S, b) <= n - 1 BY <2>1, <2>2, FS_Subset DEF RankIn
    <2>4. RankIn(R, S, b) \in Nat BY <2>3, FS_CardinalityType DEF RankIn
    <2> QED BY <1>1, <2>3, <2>4
  <1>3. ASSUME NEW a \in S, NEW b \in S, <<a, b>> \in R PROVE RankIn(R, S, a) # RankIn(R, S, b)
    <2>1. Ahead(R, S, a) \in SUBSET Ahead(R, S, b) BY <1>3 DEF Ahead, Orders
    <2>2. a \in Ahead(R, S, b) /\ a \notin Ahead(R, S, a) BY <1>3 DEF Ahead, Orders
    <2>3. IsFiniteSet(Ahead(R, S, b)) BY <1>2
    <2> QED BY <2>1, <2>2, <2>3, FS_Subset DEF RankIn
  <1>4. \A a, b \in S : RankIn(R, S, a) = RankIn(R, S, b) => a = b BY <1>3 DEF Orders
  <1>5. rank \in Injection(S, 0..(n - 1)) BY <1>2, <1>4 DEF Injection, IsInjective
  <1>6. IsFiniteSet(0..(n - 1)) /\ Cardinality(0..(n - 1)) = n
    <2>1. 0 \in Int /\ n - 1 \in Int BY <1>1
    <2>2. Cardinality(0..(n - 1)) = IF 0 > n - 1 THEN 0 ELSE (n - 1) - 0 + 1 BY <2>1, FS_Interval
    <2> QED BY <1>1, <2>1, <2>2, FS_Interval
  <1> HIDE DEF rank
  <1>7. rank \in Surjection(S, 0..(n - 1)) BY <1>5, <1>6, FS_Injection
  <1> QED BY <1>5, <1>7 DEF Bijection, rank

\* So as many are ranked from lo up to hi as there are numbers.
LEMMA RankedBetween ==
  ASSUME NEW S, IsFiniteSet(S), NEW R, Orders(R, S), NEW lo \in Nat, NEW hi \in Nat, lo <= hi,
         lo <= Cardinality(S)
  PROVE  Cardinality({b \in S : lo <= RankIn(R, S, b) /\ RankIn(R, S, b) < hi})
           = IF hi <= Cardinality(S) THEN hi - lo ELSE Cardinality(S) - lo
  <1> DEFINE n == Cardinality(S)
             rank == [b \in S |-> RankIn(R, S, b)]
             B == {b \in S : lo <= RankIn(R, S, b) /\ RankIn(R, S, b) < hi}
             top == IF hi <= n THEN hi - 1 ELSE n - 1
             f == [b \in B |-> RankIn(R, S, b)]
  <1>1. n \in Nat BY FS_CardinalityType
  <1>2. rank \in Bijection(S, 0..(n - 1)) BY RanksCount
  <1>3. /\ \A b \in S : RankIn(R, S, b) \in 0..(n - 1)
        /\ \A a, b \in S : RankIn(R, S, a) = RankIn(R, S, b) => a = b
        /\ \A k \in 0..(n - 1) : \E b \in S : RankIn(R, S, b) = k
    BY <1>2 DEF Bijection, Injection, Surjection, IsInjective
  <1>4. \A b \in B : b \in S /\ RankIn(R, S, b) \in lo..top BY <1>1, <1>3
  <1>5. \A k \in lo..top : \E b \in B : RankIn(R, S, b) = k
    <2>1. TAKE k \in lo..top
    <2>2. k \in 0..(n - 1) /\ lo <= k /\ k < hi BY <1>1
    <2> QED BY <1>3, <2>2
  <1> HIDE DEF B
  <1>6. f \in Bijection(B, lo..top) BY <1>3, <1>4, <1>5 DEF Bijection, Injection, Surjection, IsInjective
  <1>7. B \in SUBSET S BY <1>4
  <1>8. IsFiniteSet(B) BY <1>7, FS_Subset
  <1>9. Cardinality(lo..top) = Cardinality(B) BY <1>6, <1>8, FS_Bijection DEF ExistsBijection
  <1>10. top \in Int BY <1>1
  <1>11. Cardinality(lo..top) = IF lo > top THEN 0 ELSE top - lo + 1
    <2> HIDE DEF top
    <2> QED BY <1>10, FS_Interval
  <1> HIDE DEF n
  <1>12. Cardinality(B) = IF hi <= n THEN hi - lo ELSE n - lo
    <2>1. lo <= n BY DEF n
    <2> QED BY <1>1, <1>9, <1>11, <2>1
  <1> QED BY <1>12 DEF B, n

\* The rows are typed, which is what makes them comparable.
WellTyped(b) == b.made \in Int /\ b.result \in Int \cup {None} /\ IsName(b.name)
FieldsInv ==
    /\ IsFiniteSet(rows) /\ \A b \in rows : WellTyped(b)
    /\ \A s \in Seeds : IsFiniteSet(new[s]) /\ \A b \in new[s] : WellTyped(b)
    /\ \A m \in DOMAIN models : IsName(models[m])

\* What a list is read of.
Listed == FieldsInv /\ Inv

LEMMA RowsAreListed ==
  ASSUME Listed
  PROVE  /\ IsFiniteSet(rows)
         /\ \A b \in rows : /\ b.made \in Int /\ b.result \in Int \cup {None} /\ b.number \in Nat
                           /\ IsName(Shown(b)) /\ (b.model # None => b.model \in DOMAIN models)
         /\ \A a, b \in rows : a.number = b.number => a = b
  BY DEF Listed, FieldsInv, WellTyped, Shown, Inv, RowsInv

Ordering(S, sort, order) == {x \in S \X S : Before(x[1], x[2], sort, order)}

\* Whatever the sort, the rows are ordered.
LEMMA BeforeOrders ==
  ASSUME Listed, NEW sort \in Sorts, NEW order, NEW S \in SUBSET rows
  PROVE  /\ Orders(Ordering(S, sort, order), S)
         /\ \A b \in S : Ahead(Ordering(S, sort, order), S, b) = {a \in S : Before(a, b, sort, order)}
  <1> DEFINE R == Ordering(S, sort, order)
             key(b) == SortKey(b, sort)
             down == ~(sort # "default" /\ order = "asc")
  <1>1. \A b \in S : key(b) \in Int \cup {None} /\ b.number \in Nat
    BY RowsAreListed DEF SortKey, Sorts, IsName
  <1>2. \A a, b \in S : a.number = b.number => a = b BY RowsAreListed
  <1>3. None \notin Int BY ExperimentsAssumption
  <1>4. \A a, b \in S : <<a, b>> \in R <=> Before(a, b, sort, order) BY DEF Ordering
  <1>5. \A a, b : Before(a, b, sort, order) <=>
            \/ key(a) # None /\ key(b) = None
            \/ key(a) # None /\ key(b) # None /\ (IF down THEN key(a) > key(b) ELSE key(a) < key(b))
            \/ key(a) = key(b) /\ a.number > b.number
    BY DEF Before
  <1> HIDE DEF R, key, down
  <1>6. ASSUME NEW a \in S PROVE <<a, a>> \notin R BY <1>1, <1>3, <1>4, <1>5
  <1>7. ASSUME NEW a \in S, NEW b \in S, a # b PROVE <<a, b>> \in R \/ <<b, a>> \in R
    <2>1. a.number # b.number BY <1>2, <1>7
    <2>2. key(a) \in Int \cup {None} /\ key(b) \in Int \cup {None} /\ a.number \in Nat /\ b.number \in Nat
      BY <1>1
    <2>3. Before(a, b, sort, order) \/ Before(b, a, sort, order) BY <1>3, <1>5, <2>1, <2>2
    <2> QED BY <1>4, <2>3
  <1>8. ASSUME NEW a \in S, NEW b \in S, NEW c \in S, <<a, b>> \in R, <<b, c>> \in R
        PROVE  <<a, c>> \in R
    <2>1. Before(a, b, sort, order) /\ Before(b, c, sort, order) BY <1>4, <1>8
    <2>2. /\ key(a) \in Int \cup {None} /\ key(b) \in Int \cup {None} /\ key(c) \in Int \cup {None}
          /\ a.number \in Nat /\ b.number \in Nat /\ c.number \in Nat
      BY <1>1
    <2>3. Before(a, c, sort, order) BY <1>3, <1>5, <2>1, <2>2
    <2> QED BY <1>4, <2>3
  <1>9. Orders(R, S) BY <1>6, <1>7, <1>8 DEF Orders
  <1> QED BY <1>4, <1>9 DEF R, Ahead

\* The ranks of the rows, as the queries number them.
Placing(S, sort, order, b) == Cardinality({a \in S : Before(a, b, sort, order)})

\* As many rows are placed from lo up to hi as there are places.
HasPlaces(S, sort, order, lo, hi) ==
    Cardinality({b \in S : lo <= Placing(S, sort, order, b) /\ Placing(S, sort, order, b) < hi})
        = IF hi <= Cardinality(S) THEN hi - lo ELSE Cardinality(S) - lo

LEMMA PlacedBetween ==
  ASSUME Listed, NEW sort \in Sorts, NEW order, NEW S \in SUBSET rows, NEW lo \in Nat, NEW hi \in Nat,
         lo <= hi, lo <= Cardinality(S)
  PROVE  HasPlaces(S, sort, order, lo, hi)
  <1> DEFINE R == Ordering(S, sort, order)
  <1>1. IsFiniteSet(S) BY RowsAreListed, FS_Subset
  <1>2. Orders(R, S) /\ \A b \in S : Placing(S, sort, order, b) = RankIn(R, S, b)
    <2>1. Orders(R, S) /\ \A b \in S : Ahead(R, S, b) = {a \in S : Before(a, b, sort, order)}
      BY BeforeOrders
    <2> HIDE DEF R
    <2> QED BY <2>1 DEF Placing, RankIn
  <1> HIDE DEF R
  <1>3. {b \in S : lo <= Placing(S, sort, order, b) /\ Placing(S, sort, order, b) < hi}
          = {b \in S : lo <= RankIn(R, S, b) /\ RankIn(R, S, b) < hi}
    BY <1>2
  <1>4. Cardinality({b \in S : lo <= RankIn(R, S, b) /\ RankIn(R, S, b) < hi})
          = IF hi <= Cardinality(S) THEN hi - lo ELSE Cardinality(S) - lo
    BY <1>1, <1>2, RankedBetween
  <1> QED BY <1>3, <1>4 DEF HasPlaces

LEMMA PlacesAre ==
  ASSUME Listed, NEW sort \in Sorts, NEW order, NEW S \in SUBSET rows, NEW b \in S
  PROVE  Placing(S, sort, order, b) \in 0..(Cardinality(S) - 1)
  <1> DEFINE R == Ordering(S, sort, order)
  <1>1. IsFiniteSet(S) BY RowsAreListed, FS_Subset
  <1>2. Orders(R, S) /\ Placing(S, sort, order, b) = RankIn(R, S, b)
    BY BeforeOrders DEF Placing, RankIn
  <1> HIDE DEF R
  <1>3. [a \in S |-> RankIn(R, S, a)] \in Bijection(S, 0..(Cardinality(S) - 1)) BY <1>1, <1>2, RanksCount
  <1> QED BY <1>2, <1>3 DEF Bijection, Injection

\* The pages of a list, by their number.
OnPage(S, sort, order, page) ==
    {b \in S : (page - 1) * PageSize <= Placing(S, sort, order, b) /\ Placing(S, sort, order, b) < page * PageSize}

LEMMA PagedAre ==
  ASSUME NEW S, NEW sort, NEW order
  PROVE  Paged(S, sort, order) = [page \in 1..Pages(Cardinality(S)) |-> OnPage(S, sort, order, page)]
  BY DEF Paged, OnPage, Placing

\* There are pages for all, and all pages but the last are full.
LEMMA PagesFit ==
  ASSUME NEW n \in Nat
  PROVE  /\ Pages(n) \in Nat
         /\ \A page \in 1..Pages(n) : /\ page \in Nat /\ (page - 1) * PageSize \in Nat /\ (page - 1) * PageSize <= n
                                      /\ page * PageSize = (page - 1) * PageSize + PageSize
         /\ \A k \in 0..(n - 1) : \E page \in 1..Pages(n) :
                (page - 1) * PageSize <= k /\ k < page * PageSize
  <1>1. PageSize \in Nat \ {0} BY ExperimentsAssumption
  <1>2. PICK P \in Nat \ {0} : P = PageSize BY <1>1
  <1>3. CASE n = 0
    <2>1. Pages(n) = 1 BY <1>3 DEF Pages
    <2>2. \A page \in 1..1 : page = 1 /\ (page - 1) * P = 0 /\ page * P = P BY <1>2
    <2> QED BY <1>2, <1>3, <2>1, <2>2
  <1>4. CASE n # 0
    <2> DEFINE q == (n + P - 1) \div P
    <2>1. Pages(n) = q BY <1>2, <1>4 DEF Pages
    <2>2. q \in Int /\ q * P <= n + P - 1 /\ n + P - 1 < q * P + P BY <1>2
    <2> HIDE DEF q
    <2>3. PICK w \in Int : w = q * P BY <2>2
    <2>4. w <= n + P - 1 /\ n <= w BY <2>2, <2>3
    <2>5. q \in Nat
      <3>1. q < 0 => q * P <= 0 BY <1>2, <2>2
      <3> QED BY <1>4, <2>2, <2>3, <2>4, <3>1
    <2>6. ASSUME NEW page \in 1..q
          PROVE  /\ page \in Nat /\ (page - 1) * P \in Nat /\ (page - 1) * P <= n
                 /\ page * P = (page - 1) * P + P
      <3>1. page \in Int /\ 1 <= page /\ page <= q BY <2>5
      <3>2. page * P <= q * P BY <1>2, <2>5, <3>1
      <3>3. page * P = (page - 1) * P + P BY <1>2, <3>1
      <3>4. PICK v \in Int : v = (page - 1) * P BY <1>2, <3>1
      <3>5. v >= 0 BY <1>2, <3>1, <3>4
      <3>6. v + P <= n + P - 1 BY <2>3, <2>4, <3>2, <3>3, <3>4, <1>2
      <3> QED BY <1>2, <3>1, <3>3, <3>4, <3>5, <3>6
    <2>7. ASSUME NEW k \in 0..(n - 1)
          PROVE  \E page \in 1..q : (page - 1) * P <= k /\ k < page * P
      <3> DEFINE d == k \div P
      <3>1. d \in Nat /\ d * P <= k /\ k < d * P + P BY <1>2
      <3> HIDE DEF d
      <3>2. (d + 1) * P = d * P + P /\ (d + 1 - 1) * P = d * P BY <1>2, <3>1
      <3>3. d + 1 <= q
        <4>1. SUFFICES ASSUME q <= d PROVE FALSE BY <2>5, <3>1
        <4>2. q * P <= d * P BY <1>2, <2>5, <3>1, <4>1
        <4>3. PICK u \in Int : u = d * P BY <1>2, <3>1
        <4> QED BY <2>3, <2>4, <3>1, <4>2, <4>3
      <3>4. d + 1 \in 1..q BY <2>5, <3>1, <3>3
      <3> QED BY <3>1, <3>2, <3>4
    <2> QED BY <1>2, <2>1, <2>5, <2>6, <2>7
  <1> QED BY <1>3, <1>4

\* The least of two numbers.
LEMMA MinOfTwo ==
  ASSUME NEW a \in Int, NEW b \in Int
  PROVE  Min({a, b}) = IF a <= b THEN a ELSE b
  <1> DEFINE IsMin(x) == x \in {a, b} /\ \A y \in {a, b} : x <= y
  <1>1. Min({a, b}) = CHOOSE x : IsMin(x) BY DEF Min
  <1>2. IsMin(IF a <= b THEN a ELSE b) OBVIOUS
  <1>3. \A x, y : IsMin(x) /\ IsMin(y) => x = y OBVIOUS
  <1> HIDE DEF IsMin
  <1> QED BY <1>1, <1>2, <1>3

\* Every row is on a page, each full but the last.
PagesAddUp(sort, order) ==
    LET total == Cardinality(rows)
        shown == Paged(rows, sort, order)
    IN  /\ UNION {shown[page] : page \in DOMAIN shown} = rows
        /\ \A page \in DOMAIN shown :
               Cardinality(shown[page]) = Min({PageSize, total - PageSize * (page - 1)})

LEMMA PagesShowAll ==
  ASSUME Listed, NEW sort \in Sorts, NEW order
  PROVE  PagesAddUp(sort, order)
  <1> DEFINE n == Cardinality(rows)
             placed(b) == Placing(rows, sort, order, b)
             on(page) == OnPage(rows, sort, order, page)
             shown == Paged(rows, sort, order)
  <1>1. n \in Nat BY RowsAreListed, FS_CardinalityType
  <1>2. shown = [page \in 1..Pages(n) |-> on(page)] BY PagedAre
  <1>3. PageSize \in Nat \ {0} BY ExperimentsAssumption
  <1>4. \A b \in rows : placed(b) \in 0..(n - 1) BY PlacesAre
  <1>5. \A page : on(page) = {b \in rows : (page - 1) * PageSize <= placed(b) /\ placed(b) < page * PageSize}
    BY DEF OnPage
  <1>6. ASSUME NEW page \in 1..Pages(n)
        PROVE  Cardinality(on(page)) = Min({PageSize, n - PageSize * (page - 1)})
    <2>1. page \in Nat /\ (page - 1) * PageSize \in Nat /\ (page - 1) * PageSize <= n
          /\ page * PageSize = (page - 1) * PageSize + PageSize
      BY <1>1, PagesFit
    <2>2. PICK lo \in Nat, hi \in Nat : lo = (page - 1) * PageSize /\ hi = lo + PageSize BY <1>3, <2>1
    <2>3. on(page) = {b \in rows : lo <= placed(b) /\ placed(b) < hi} BY <1>5, <2>1, <2>2
    <2>4. Cardinality({b \in rows : lo <= placed(b) /\ placed(b) < hi}) = IF hi <= n THEN hi - lo ELSE n - lo
      <3>1. lo <= hi /\ lo <= n /\ rows \in SUBSET rows BY <1>3, <2>1, <2>2
      <3>2. HasPlaces(rows, sort, order, lo, hi) BY <3>1, PlacedBetween
      <3> QED BY <3>2 DEF HasPlaces
    <2>5. PageSize * (page - 1) = lo BY <1>3, <2>1, <2>2
    <2>6. Min({PageSize, n - lo}) = IF PageSize <= n - lo THEN PageSize ELSE n - lo
      <3>1. PageSize \in Int /\ n - lo \in Int BY <1>1, <1>3
      <3> HIDE DEF n
      <3> QED BY <3>1, MinOfTwo
    <2> HIDE DEF n, on, placed
    <2> QED BY <1>1, <1>3, <2>2, <2>3, <2>4, <2>5, <2>6
  <1>7. \A b \in rows : \E page \in 1..Pages(n) : b \in on(page)
    <2> HIDE DEF n, placed, on
    <2> QED BY <1>1, <1>4, <1>5, PagesFit
  <1>8. \A page : on(page) \subseteq rows BY <1>5
  <1>9. DOMAIN shown = 1..Pages(n) /\ \A page \in 1..Pages(n) : shown[page] = on(page) BY <1>2
  <1> HIDE DEF shown, n, on
  <1>10. UNION {shown[page] : page \in DOMAIN shown} = rows BY <1>7, <1>8, <1>9
  <1> QED BY <1>6, <1>9, <1>10 DEF PagesAddUp, shown, n

-----------------------------------------------------------------------------
\* Sums over a set, and the sets they count.
AnyOf(s) == CHOOSE x \in s : TRUE

\* A function that adds up the sizes of parts.
SumsUp(f, S, part) ==
    f = [s \in SUBSET S |-> IF s = {} THEN 0 ELSE Cardinality(part[AnyOf(s)]) + f[s \ {AnyOf(s)}]]
PartsOf(part, s) == UNION {part[x] : x \in s}

\* The parts of a finite set do not overlap.
Divides(part, S, U) ==
    /\ part \in [S -> SUBSET U]
    /\ \A x, y \in S : x # y => part[x] \cap part[y] = {}

LEMMA SizesAdd ==
  ASSUME NEW S, NEW U, IsFiniteSet(U), NEW part, Divides(part, S, U), NEW s \in SUBSET S, s # {}
  PROVE  Cardinality(PartsOf(part, s))
           = Cardinality(part[AnyOf(s)]) + Cardinality(PartsOf(part, s \ {AnyOf(s)}))
  <1> DEFINE x == AnyOf(s)
             A == part[x]
             B == PartsOf(part, s \ {x})
  <1>1. x \in s BY DEF AnyOf
  <1> HIDE DEF x
  <1>2. PartsOf(part, s) = A \cup B BY <1>1 DEF PartsOf
  <1>3. A \in SUBSET U /\ B \in SUBSET U BY <1>1 DEF Divides, PartsOf
  <1>4. A \cap B = {} BY <1>1 DEF Divides, PartsOf
  <1>5. IsFiniteSet(A) /\ IsFiniteSet(B) BY <1>3, FS_Subset
  <1> HIDE DEF A, B
  <1>6. Cardinality(A \cup B) = Cardinality(A) + Cardinality(B) - 0 BY <1>4, <1>5, FS_Union, FS_EmptySet
  <1>7. Cardinality(A) \in Nat /\ Cardinality(B) \in Nat BY <1>5, FS_CardinalityType
  <1> QED BY <1>2, <1>6, <1>7 DEF x, A, B

LEMMA SumsAre ==
  ASSUME NEW S, IsFiniteSet(S), NEW U, IsFiniteSet(U), NEW part, Divides(part, S, U)
  PROVE  /\ \E f : SumsUp(f, S, part)
         /\ \A f : SumsUp(f, S, part) => f[S] = Cardinality(PartsOf(part, S))
  <1> DEFINE size(s) == Cardinality(PartsOf(part, s))
             g == [s \in SUBSET S |-> size(s)]
  <1>1. size({}) = 0
    <2>1. PartsOf(part, {}) = {} BY DEF PartsOf
    <2> QED BY <2>1, FS_EmptySet
  <1>2. \A s \in SUBSET S : s # {} =>
           /\ s \ {AnyOf(s)} \in SUBSET S /\ AnyOf(s) \in s
           /\ size(s) = Cardinality(part[AnyOf(s)]) + size(s \ {AnyOf(s)})
    <2>1. TAKE s \in SUBSET S
    <2>2. HAVE s # {}
    <2>3. AnyOf(s) \in s BY <2>2 DEF AnyOf
    <2> QED BY <2>2, <2>3, SizesAdd
  <1> HIDE DEF size
  <1>3. SumsUp(g, S, part)
    <2>1. \A s \in SUBSET S : g[s] = size(s) OBVIOUS
    <2>2. \A s \in SUBSET S :
              g[s] = IF s = {} THEN 0 ELSE Cardinality(part[AnyOf(s)]) + g[s \ {AnyOf(s)}]
      BY <1>1, <1>2, <2>1
    <2>3. g = [s \in SUBSET S |-> g[s]] OBVIOUS
    <2> HIDE DEF g
    <2> QED BY <2>2, <2>3 DEF SumsUp
  <1>4. ASSUME NEW f, SumsUp(f, S, part) PROVE f[S] = size(S)
    <2> DEFINE Differ == {s \in SUBSET S : f[s] # size(s)}
    <2>1. SUFFICES ASSUME Differ # {} PROVE FALSE
      <3>1. S \in SUBSET S OBVIOUS
      <3> QED BY <3>1
    <2>2. Differ \subseteq SUBSET S OBVIOUS
    <2>3. \A s \in SUBSET S : s \in Differ <=> f[s] # size(s) OBVIOUS
    <2> HIDE DEF Differ
    <2>4. PICK s \in Differ : \A t \in Differ : t \subseteq s => t = s BY <2>1, <2>2, SmallestSubset
    <2>5. s \in SUBSET S BY <2>2
    <2>6. \A t \in SUBSET S :
              f[t] = IF t = {} THEN 0 ELSE Cardinality(part[AnyOf(t)]) + f[t \ {AnyOf(t)}]
      BY <1>4, Zenon DEF SumsUp
    <2>7. s # {} BY <1>1, <2>3, <2>5, <2>6
    <2>8. s \ {AnyOf(s)} \in SUBSET S /\ AnyOf(s) \in s
          /\ size(s) = Cardinality(part[AnyOf(s)]) + size(s \ {AnyOf(s)})
      BY <1>2, <2>5, <2>7
    <2>9. s \ {AnyOf(s)} \notin Differ
      <3>1. s \ {AnyOf(s)} \subseteq s /\ s \ {AnyOf(s)} # s BY <2>8
      <3> QED BY <2>4, <3>1
    <2>10. f[s \ {AnyOf(s)}] = size(s \ {AnyOf(s)}) BY <2>3, <2>8, <2>9
    <2>11. f[s] = Cardinality(part[AnyOf(s)]) + f[s \ {AnyOf(s)}] BY <2>5, <2>6, <2>7
    <2> QED BY <2>3, <2>5, <2>8, <2>10, <2>11
  <1> HIDE DEF g
  <1> QED BY <1>3, <1>4 DEF size

\* The sums the lists are checked by.
CountsSum(f, S) == f = [s \in SUBSET S |-> IF s = {} THEN 0 ELSE AnyOf(s).count + f[s \ {AnyOf(s)}]]
UsesSum(f, S) ==
    f = [s \in SUBSET S |-> IF s = {} THEN 0 ELSE ModelUsage[AnyOf(s)].count + f[s \ {AnyOf(s)}]]

LEMMA SumsOfCounts ==
  MapThenSumSet(LAMBDA entry : entry.count, ModelCounts) = (CHOOSE f : CountsSum(f, ModelCounts))[ModelCounts]
  BY DEF MapThenSumSet, MapThenFoldSet, CountsSum, AnyOf

LEMMA SumsOfUses ==
  MapThenSumSet(LAMBDA m : ModelUsage[m].count, DOMAIN models) = (CHOOSE f : UsesSum(f, DOMAIN models))[DOMAIN models]
  BY DEF MapThenSumSet, MapThenFoldSet, UsesSum, AnyOf

-----------------------------------------------------------------------------
\* The filter's models and the usage of each

Word(b) == Lower(Shown(b))
Worded(word) == {b \in rows : Word(b) = word}
Newest(group) == CHOOSE a \in group : \A c \in group \ {a} : Before(a, c, "default", "desc")
EntryOf(group) == [name |-> Shown(Newest(group)), count |-> Cardinality(group)]

LEMMA EntriesAre ==
  ModelCounts = {EntryOf(group) : group \in {Worded(Word(b)) : b \in rows}}
  BY DEF ModelCounts, EntryOf, Newest, Worded, Word

\* The newest of some rows is one of them.
LEMMA NewestIsThere ==
  ASSUME Listed, NEW S \in SUBSET rows, S # {}
  PROVE  Newest(S) \in S
  <1> DEFINE R == Ordering(S, "default", "desc")
             n == Cardinality(S)
  <1>1. IsFiniteSet(S) BY RowsAreListed, FS_Subset
  <1>2. n \in Nat /\ n # 0 BY <1>1, FS_CardinalityType, FS_EmptySet
  <1>3. Orders(R, S) BY BeforeOrders DEF Sorts
  <1>4. [b \in S |-> RankIn(R, S, b)] \in Bijection(S, 0..(n - 1)) BY <1>1, <1>3, RanksCount
  <1>5. PICK a \in S : RankIn(R, S, a) = 0
    <2>1. 0 \in 0..(n - 1) BY <1>2
    <2> HIDE DEF R, n
    <2> QED BY <1>4, <2>1 DEF Bijection, Surjection
  <1>6. Ahead(R, S, a) = {}
    <2>1. Ahead(R, S, a) \in SUBSET S BY DEF Ahead
    <2>2. IsFiniteSet(Ahead(R, S, a)) BY <1>1, <2>1, FS_Subset
    <2> QED BY <1>5, <2>2, FS_EmptySet DEF RankIn
  <1>7. \A c \in S \ {a} : <<a, c>> \in R BY <1>3, <1>6 DEF Orders, Ahead
  <1>8. \A c \in S \ {a} : Before(a, c, "default", "desc") BY <1>7 DEF Ordering
  <1> QED BY <1>8 DEF Newest

LEMMA EntriesTell ==
  ASSUME Listed, NEW entry \in ModelCounts
  PROVE  /\ entry.name # None /\ entry.count = Cardinality(Worded(Lower(entry.name)))
         /\ entry = EntryOf(Worded(Lower(entry.name)))
         /\ \E b \in rows : Word(b) = Lower(entry.name)
  <1>1. PICK b \in rows : entry = EntryOf(Worded(Word(b))) BY EntriesAre
  <1> DEFINE S == Worded(Word(b))
             a == Newest(S)
  <1>2. S \in SUBSET rows /\ b \in S BY DEF Worded
  <1> HIDE DEF S
  <1>3. a \in S BY <1>2, NewestIsThere
  <1> HIDE DEF a
  <1>4. a \in rows /\ Word(a) = Word(b) BY <1>3 DEF S, Worded
  <1>5. entry = [name |-> Shown(a), count |-> Cardinality(S)] BY <1>1 DEF EntryOf, a, S
  <1>6. entry.name = Shown(a) /\ entry.count = Cardinality(S) BY <1>5
  <1>7. Lower(entry.name) = Word(b) BY <1>4, <1>6 DEF Word
  <1>8. entry.name # None BY <1>4, <1>6, RowsAreListed DEF IsName
  <1> QED BY <1>1, <1>6, <1>7, <1>8 DEF S

LEMMA EntriesOfAll ==
  ASSUME NEW b \in rows
  PROVE  EntryOf(Worded(Word(b))) \in ModelCounts
  BY EntriesAre

\* Choosing a model of the filter gives as many as it says.
LEMMA FilterGives ==
  ASSUME Listed, NEW entry \in ModelCounts
  PROVE  Cardinality(Matches("all", entry.name)) = entry.count
  <1>1. entry.name # None /\ entry.count = Cardinality(Worded(Lower(entry.name))) BY EntriesTell
  <1>2. Matches("all", entry.name) = Worded(Lower(entry.name)) BY <1>1 DEF Matches, Worded, Word
  <1> QED BY <1>1, <1>2

\* The counts of the filter are those of all.
LEMMA FilterCountsAll ==
  ASSUME Listed
  PROVE  MapThenSumSet(LAMBDA entry : entry.count, ModelCounts) = Cardinality(rows)
  <1> DEFINE part == [entry \in ModelCounts |-> Worded(Lower(entry.name))]
             f == CHOOSE f : CountsSum(f, ModelCounts)
  <1>1. IsFiniteSet(rows) BY RowsAreListed
  <1>2. Divides(part, ModelCounts, rows)
    <2>1. part \in [ModelCounts -> SUBSET rows] BY DEF Worded
    <2>2. ASSUME NEW x \in ModelCounts, NEW y \in ModelCounts, NEW b \in part[x] \cap part[y] PROVE x = y
      <3>1. Word(b) = Lower(x.name) /\ Word(b) = Lower(y.name) BY <2>2 DEF Worded
      <3> QED BY <3>1, EntriesTell
    <2> HIDE DEF part
    <2> QED BY <2>1, <2>2 DEF Divides
  <1>3. PartsOf(part, ModelCounts) = rows
    <2>1. ASSUME NEW b \in rows PROVE \E x \in ModelCounts : b \in part[x]
      <3> DEFINE x == EntryOf(Worded(Word(b)))
      <3>1. x \in ModelCounts BY EntriesOfAll
      <3>2. Lower(x.name) = Word(b)
        <4>1. b \in Worded(Word(b)) /\ Worded(Word(b)) \in SUBSET rows BY DEF Worded
        <4>2. Newest(Worded(Word(b))) \in Worded(Word(b)) BY <4>1, NewestIsThere
        <4>3. x.name = Shown(Newest(Worded(Word(b)))) BY DEF EntryOf
        <4> QED BY <4>2, <4>3 DEF Worded, Word
      <3> QED BY <3>1, <3>2 DEF Worded
    <2>2. \A x \in ModelCounts : part[x] \subseteq rows BY DEF Worded
    <2> HIDE DEF part
    <2> QED BY <2>1, <2>2 DEF PartsOf
  <1>4. IsFiniteSet(ModelCounts)
    <2>1. ModelCounts = {EntryOf(Worded(Word(b))) : b \in rows} BY EntriesAre
    <2> DEFINE to == [b \in rows |-> EntryOf(Worded(Word(b)))]
    <2>2. to \in Surjection(rows, ModelCounts) BY <2>1 DEF Surjection
    <2> QED BY <1>1, <2>2, FS_Surjection
  <1>5. \A s \in SUBSET ModelCounts : s # {} =>
            /\ AnyOf(s) \in ModelCounts /\ AnyOf(s).count = Cardinality(part[AnyOf(s)])
    <2>1. TAKE s \in SUBSET ModelCounts
    <2>2. HAVE s # {}
    <2>3. AnyOf(s) \in ModelCounts BY <2>2 DEF AnyOf
    <2> QED BY <2>3, EntriesTell
  <1> HIDE DEF part
  <1>6. \A g : SumsUp(g, ModelCounts, part) <=> CountsSum(g, ModelCounts)
    <2>1. TAKE g
    <2>2. \A s \in SUBSET ModelCounts :
              (IF s = {} THEN 0 ELSE Cardinality(part[AnyOf(s)]) + g[s \ {AnyOf(s)}])
                = (IF s = {} THEN 0 ELSE AnyOf(s).count + g[s \ {AnyOf(s)}])
      BY <1>5
    <2> QED BY <2>2 DEF SumsUp, CountsSum
  <1>7. (\E g : SumsUp(g, ModelCounts, part))
        /\ \A g : SumsUp(g, ModelCounts, part) => g[ModelCounts] = Cardinality(PartsOf(part, ModelCounts))
    BY <1>1, <1>2, <1>4, SumsAre
  <1>8. CountsSum(f, ModelCounts) BY <1>6, <1>7
  <1> HIDE DEF f
  <1>9. f[ModelCounts] = Cardinality(rows) BY <1>3, <1>6, <1>7, <1>8
  <1> QED BY <1>9, SumsOfCounts DEF f

UsedBy(m) == {b \in rows : b.model = m}

\* What the models are told adds up to the backtests that name one.
LEMMA UsesCountAll ==
  ASSUME Listed
  PROVE  MapThenSumSet(LAMBDA m : ModelUsage[m].count, DOMAIN models)
           = Cardinality({b \in rows : b.model # None})
  <1> DEFINE D == DOMAIN models
             part == [m \in D |-> UsedBy(m)]
             f == CHOOSE f : UsesSum(f, DOMAIN models)
  <1>1. IsFiniteSet(rows) BY RowsAreListed
  <1>2. Divides(part, D, rows) BY DEF Divides, UsedBy
  <1>3. None \notin D BY ExperimentsAssumption DEF Listed, Inv, Domains
  <1>4. PartsOf(part, D) = {b \in rows : b.model # None}
    <2>1. \A b \in rows : b.model # None => b.model \in D BY RowsAreListed
    <2> HIDE DEF D
    <2> QED BY <1>3, <2>1 DEF PartsOf, UsedBy
  <1>5. IsFiniteSet(D)
    <2>1. IsFiniteSet(DOMAIN Models) /\ D \in SUBSET DOMAIN Models BY ExperimentsAssumption DEF Listed, Inv, Domains
    <2> QED BY <2>1, FS_Subset
  <1>6. \A m \in D : ModelUsage[m].count = Cardinality(part[m]) BY DEF ModelUsage, UsedBy
  <1>7. \A s \in SUBSET D : s # {} => AnyOf(s) \in D BY DEF AnyOf
  <1> HIDE DEF part
  <1>8. \A g : SumsUp(g, D, part) <=> UsesSum(g, D)
    <2>1. TAKE g
    <2>2. \A s \in SUBSET D :
              (IF s = {} THEN 0 ELSE Cardinality(part[AnyOf(s)]) + g[s \ {AnyOf(s)}])
                = (IF s = {} THEN 0 ELSE ModelUsage[AnyOf(s)].count + g[s \ {AnyOf(s)}])
      BY <1>6, <1>7
    <2> HIDE DEF D
    <2> QED BY <2>2 DEF SumsUp, UsesSum
  <1>9. (\E g : SumsUp(g, D, part))
        /\ \A g : SumsUp(g, D, part) => g[D] = Cardinality(PartsOf(part, D))
    <2> HIDE DEF D
    <2> QED BY <1>1, <1>2, <1>5, SumsAre
  <1>10. UsesSum(f, D) BY <1>8, <1>9
  <1> HIDE DEF f
  <1>11. f[D] = Cardinality({b \in rows : b.model # None}) BY <1>4, <1>8, <1>9, <1>10
  <1> QED BY <1>11, SumsOfUses DEF f

-----------------------------------------------------------------------------
\* The best backtests

Finished == {b \in rows : ~b.failed /\ b.result # None}
LEMMA BestAre == \A limit : Best(limit) = {b \in Finished : Placing(Finished, "result", "desc", b) < limit}
  BY DEF Best, Finished, Placing

\* The best of all is the best its model is told of.
LEMMA BestIsTold ==
  ASSUME Listed, NEW b \in Best(1), b.model # None
  PROVE  ModelUsage[b.model].best = b.result
  <1> DEFINE results == {a.result : a \in {c \in UsedBy(b.model) : ~c.failed}} \ {None}
  <1>1. b \in Finished /\ Placing(Finished, "result", "desc", b) < 1 BY BestAre
  <1>2. Finished \in SUBSET rows /\ b \in rows /\ ~b.failed /\ b.result # None BY <1>1 DEF Finished
  <1>3. b.model \in DOMAIN models BY <1>2, RowsAreListed
  <1>4. ModelUsage[b.model].best = IF results = {} THEN None ELSE Max(results)
    BY <1>3 DEF ModelUsage, UsedBy
  <1>5. b.result \in results BY <1>2 DEF UsedBy
  <1>6. {a \in Finished : Before(a, b, "result", "desc")} = {}
    <2>1. Placing(Finished, "result", "desc", b) \in 0..(Cardinality(Finished) - 1)
      BY <1>1, <1>2, PlacesAre DEF Sorts
    <2>2. Placing(Finished, "result", "desc", b) = 0
      <3>1. IsFiniteSet(Finished) BY <1>2, RowsAreListed, FS_Subset
      <3>2. Cardinality(Finished) \in Nat BY <3>1, FS_CardinalityType
      <3> QED BY <1>1, <2>1, <3>2
    <2>3. {a \in Finished : Before(a, b, "result", "desc")} \in SUBSET Finished OBVIOUS
    <2>4. IsFiniteSet({a \in Finished : Before(a, b, "result", "desc")})
      BY <1>2, <2>3, RowsAreListed, FS_Subset
    <2> QED BY <2>2, <2>4, FS_EmptySet DEF Placing
  <1>7. ASSUME NEW x \in results PROVE x \in Int /\ x <= b.result
    <2>1. PICK c \in rows : ~c.failed /\ c.result = x /\ x # None BY DEF UsedBy
    <2>2. c \in Finished BY <2>1 DEF Finished
    <2>3. ~Before(c, b, "result", "desc") BY <1>6, <2>2
    <2>4. SortKey(c, "result") = c.result /\ SortKey(b, "result") = b.result BY DEF SortKey
    <2>5. ~(c.result > b.result) BY <1>2, <2>1, <2>3, <2>4 DEF Before
    <2>6. c.result \in Int /\ b.result \in Int BY <1>2, <2>1, RowsAreListed
    <2> QED BY <2>1, <2>5, <2>6
  <1> HIDE DEF results
  <1>8. Max(results) = b.result
    <2>1. b.result \in results /\ \A y \in results : b.result >= y BY <1>5, <1>7
    <2>2. \A x \in results : (\A y \in results : x >= y) => x = b.result BY <1>5, <1>7
    <2> QED BY <2>1, <2>2 DEF Max
  <1> QED BY <1>4, <1>5, <1>8

LEMMA TwoBest ==
  ASSUME Listed
  PROVE  Cardinality(Best(2)) = Min({2, Cardinality({b \in rows : b.result # None /\ ~b.failed})})
  <1> DEFINE n == Cardinality(Finished)
  <1>1. {b \in rows : b.result # None /\ ~b.failed} = Finished BY DEF Finished
  <1>2. Finished \in SUBSET rows BY DEF Finished
  <1>3. IsFiniteSet(Finished) BY <1>2, RowsAreListed, FS_Subset
  <1>4. n \in Nat BY <1>3, FS_CardinalityType
  <1>5. \A b \in Finished : 0 <= Placing(Finished, "result", "desc", b)
    <2>1. \A b \in Finished : Placing(Finished, "result", "desc", b) \in 0..(n - 1)
      BY <1>2, PlacesAre DEF Sorts
    <2> QED BY <2>1
  <1>6. Best(2) = {b \in Finished : 0 <= Placing(Finished, "result", "desc", b)
                                    /\ Placing(Finished, "result", "desc", b) < 2}
    BY <1>5, BestAre
  <1>7. HasPlaces(Finished, "result", "desc", 0, 2)
    <2>1. 0 \in Nat /\ 2 \in Nat /\ 0 <= 2 /\ 0 <= n /\ "result" \in Sorts BY <1>4 DEF Sorts
    <2> QED BY <1>2, <2>1, PlacedBetween
  <1>8. Cardinality(Best(2)) = IF 2 <= n THEN 2 - 0 ELSE n - 0 BY <1>6, <1>7 DEF HasPlaces
  <1> HIDE DEF n
  <1>9. Min({2, n}) = IF 2 <= n THEN 2 ELSE n
    <2>1. 2 \in Int /\ n \in Int BY <1>4
    <2> QED BY <2>1, MinOfTwo
  <1>10. Cardinality(Best(2)) = Min({2, n}) BY <1>4, <1>8, <1>9
  <1> QED BY <1>1, <1>10 DEF n

-----------------------------------------------------------------------------
\* The fields of the rows keep their types.

LEMMA FieldsAtFirst == Init => FieldsInv
  <1>1. SUFFICES ASSUME Init PROVE FieldsInv OBVIOUS
  <1>2. rows = Others \cup Earlier /\ models = Models /\ new = [s \in Seeds |-> {}] BY <1>1 DEF Init
  <1>3. IsFiniteSet(rows) BY <1>2, ExperimentsAssumption, FS_Union
  <1>4. \A b \in rows : WellTyped(b) BY <1>2, ExperimentsAssumption DEF WellTyped
  <1>5. \A s \in Seeds : new[s] = {} BY <1>2
  <1>6. \A m \in DOMAIN models : IsName(models[m]) BY <1>2, ExperimentsAssumption
  <1> QED BY <1>3, <1>4, <1>5, <1>6, FS_EmptySet DEF FieldsInv

\* What a run of the command adds.
LEMMA AddedAreTyped ==
  ASSUME FieldsInv, NEW s \in Seeds, AddAll(s), Domains
  PROVE  /\ rows' = rows /\ models' = models /\ \A q \in Seeds \ {s} : new'[q] = new[q]
         /\ IsFiniteSet(new'[s]) /\ \A b \in new'[s] : WellTyped(b)
  <1>1. /\ rows' = rows /\ models' = models
        /\ new' = [new EXCEPT ![s] = {Backtest(s, i) : i \in DOMAIN Runs}]
    BY DEF AddAll, Committed
  <1>2. new'[s] = {Backtest(s, i) : i \in DOMAIN Runs} /\ \A q \in Seeds \ {s} : new'[q] = new[q]
    BY <1>1 DEF Domains
  <1>3. IsFiniteSet(DOMAIN Runs)
    <2>1. DOMAIN Runs = 1..Len(Runs) /\ Len(Runs) \in Nat BY ExperimentsAssumption
    <2> QED BY <2>1, FS_Interval
  <1>4. IsFiniteSet({Backtest(s, i) : i \in DOMAIN Runs})
    <2> DEFINE to == [i \in DOMAIN Runs |-> Backtest(s, i)]
               all == {Backtest(s, i) : i \in DOMAIN Runs}
    <2>1. to \in Surjection(DOMAIN Runs, all) BY DEF Surjection
    <2> HIDE DEF to, all
    <2>2. IsFiniteSet(all) BY <1>3, <2>1, FS_Surjection
    <2> QED BY <2>2 DEF all
  <1>5. ASSUME NEW i \in DOMAIN Runs PROVE WellTyped(Backtest(s, i))
    <2> DEFINE m == ModelOf(Runs[i])
    <2>1. m = None \/ m \in DOMAIN models BY DEF ModelOf
    <2>2. Backtest(s, i).name = IF m = None THEN Runs[i].model ELSE models[m] BY DEF Backtest
    <2>3. Backtest(s, i).made = Runs[i].made /\ Backtest(s, i).result = Runs[i].result BY DEF Backtest
    <2>4. /\ IsName(Runs[i].model) /\ Runs[i].made \in Int /\ Runs[i].result \in Int \cup {None}
      BY ExperimentsAssumption
    <2>5. m # None => IsName(models[m]) BY <2>1 DEF FieldsInv
    <2> HIDE DEF m
    <2> QED BY <2>2, <2>3, <2>4, <2>5 DEF WellTyped
  <1> QED BY <1>1, <1>2, <1>4, <1>5

\* A step adds backtests to those of a run, commits, or leaves what is typed alone.
LEMMA NewComesByAddAll ==
  ASSUME Next
  PROVE  (\E s \in Seeds : AddAll(s)) \/ new' = new
  <1>1. ASSUME NEW r \in Requests, Step(r), ~(r \in Seeds /\ AddAll(r)) PROVE new' = new
    BY <1>1 DEF Step, SeedStep, Acquire, Scratch, FindUser, DeleteSeeded, LastNumber, Insert, CommitSeed,
                CommitStar, UnsetModel, CommitRemoval, UnsetModels, DeleteUser, Cascade, CommitClosing
  <1>2. ASSUME NEW r \in Requests, Deadlock(r) \/ Crash(r) PROVE new' = new
    BY <1>2 DEF Deadlock, Crash, Scratch
  <1>3. ASSUME NEW s \in Seeds, FindUser(s) PROVE new' = new BY <1>3 DEF FindUser, Scratch
  <1>4. ASSUME NEW t \in Stars, NEW id \in Ids, NEW starred \in BOOLEAN, SelectBacktest(t, id, starred)
        PROVE  new' = new
    BY <1>4 DEF SelectBacktest
  <1>5. ASSUME NEW r \in Renames, NEW m \in DOMAIN Models, NEW name \in Renamed, Rename(r, m, name)
        PROVE  new' = new
    BY <1>5 DEF Rename, Scratch
  <1>6. ASSUME NEW d \in Removals, NEW m \in DOMAIN Models, DeleteModel(d, m) PROVE new' = new
    BY <1>6 DEF DeleteModel, Scratch
  <1>7. ASSUME NEW k \in Closings, DeleteModels(k) PROVE new' = new BY <1>7 DEF DeleteModels, Scratch
  <1> QED BY <1>1, <1>2, <1>3, <1>4, <1>5, <1>6, <1>7 DEF Next

\* A row with another star, or without its model, is as well typed.
LEMMA ChangedAreTyped ==
  ASSUME NEW b \in rows, WellTyped(b), Inv
  PROVE  (\A t : WellTyped(Written(t, b))) /\ WellTyped(Without(b))
  <1>1. DOMAIN b = Fields BY DEF Inv, RowsInv
  <1>2. \A t : /\ Written(t, b).made = b.made /\ Written(t, b).result = b.result /\ Written(t, b).name = b.name
    BY <1>1 DEF Written, Fields
  <1>3. Without(b).made = b.made /\ Without(b).result = b.result /\ Without(b).name = b.name
    BY <1>1 DEF Without, Fields
  <1> QED BY <1>2, <1>3 DEF WellTyped

LEMMA FieldsAreKept ==
  ASSUME FieldsInv, Inv, ActsInv, Next
  PROVE  FieldsInv'
  <1>1. PICK r \in Requests : Commits(r) BY StepsCommit
  <1>2. IsFiniteSet(rows) /\ (\A b \in rows : WellTyped(b))
        /\ (\A s \in Seeds : IsFiniteSet(new[s]) /\ \A b \in new[s] : WellTyped(b))
        /\ \A m \in DOMAIN models : IsName(models[m])
    BY DEF FieldsInv
  <1>3. \A s \in Seeds : IsFiniteSet(new'[s]) /\ \A b \in new'[s] : WellTyped(b)
    <2>1. CASE new' = new BY <1>2, <2>1
    <2>2. CASE \E s \in Seeds : AddAll(s)
      <3>1. PICK s \in Seeds : AddAll(s) BY <2>2
      <3>2. /\ \A q \in Seeds \ {s} : new'[q] = new[q]
            /\ IsFiniteSet(new'[s]) /\ \A b \in new'[s] : WellTyped(b)
        BY <3>1, AddedAreTyped DEF Inv
      <3> QED BY <1>2, <3>2
    <2> QED BY <2>1, <2>2, NewComesByAddAll
  <1> DEFINE Kept == /\ IsFiniteSet(rows') /\ \A b \in rows' : WellTyped(b)
                     /\ \A m \in DOMAIN models' : IsName(models'[m])
  <1>4. CASE Same
    <2>1. rows' = rows /\ models' = models BY <1>4 DEF Same
    <2>2. Kept BY <1>2, <2>1
    <2> QED BY <1>3, <2>2 DEF FieldsInv, WellTyped, IsName, Lower
  <1>5. CASE r \in Seeds /\ CommitSeed(r)
    <2>1. models' = models /\ rows' = (rows \ HeldRows(r)) \cup new[r] BY <1>5 DEF CommitSeed
    <2>2. IsFiniteSet(rows \ HeldRows(r)) BY <1>2, FS_Difference
    <2>3. IsFiniteSet(rows') BY <1>2, <1>5, <2>1, <2>2, FS_Union
    <2>4. Kept BY <1>2, <1>5, <2>1, <2>3
    <2> QED BY <1>3, <2>4 DEF FieldsInv, WellTyped, IsName, Lower
  <1>6. CASE r \in Stars /\ CommitStar(r)
    <2> DEFINE to(b) == IF Holds(r, Row(b.id)) THEN Written(r, b) ELSE b
    <2>1. models' = models /\ rows' = {to(b) : b \in rows} BY <1>6 DEF CommitStar
    <2>2. \A b \in rows : WellTyped(to(b)) BY <1>2, ChangedAreTyped
    <2> HIDE DEF to
    <2> DEFINE f == [b \in rows |-> to(b)]
    <2>3. f \in Surjection(rows, rows') BY <2>1 DEF Surjection
    <2> HIDE DEF f
    <2>4. IsFiniteSet(rows') BY <1>2, <2>3, FS_Surjection
    <2>5. Kept BY <1>2, <2>1, <2>2, <2>4
    <2> QED BY <1>3, <2>5 DEF FieldsInv, WellTyped, IsName, Lower
  <1>7. CASE r \in Removals /\ CommitRemoval(r)
    <2> DEFINE to(b) == IF Holds(r, Row(b.id)) THEN Without(b) ELSE b
    <2>1. rows' = {to(b) : b \in rows} /\ models' = [m \in DOMAIN models \ HeldModels(r) |-> models[m]]
      BY <1>7 DEF CommitRemoval
    <2>2. \A b \in rows : WellTyped(to(b)) BY <1>2, ChangedAreTyped
    <2> HIDE DEF to
    <2> DEFINE f == [b \in rows |-> to(b)]
    <2>3. f \in Surjection(rows, rows') BY <2>1 DEF Surjection
    <2> HIDE DEF f
    <2>4. IsFiniteSet(rows') BY <1>2, <2>3, FS_Surjection
    <2>5. Kept BY <1>2, <2>1, <2>2, <2>4
    <2> QED BY <1>3, <2>5 DEF FieldsInv, WellTyped, IsName, Lower
  <1>8. CASE r \in Closings /\ CommitClosing(r)
    <2>1. rows' = rows \ HeldRows(r) /\ models' = [m \in DOMAIN models \ HeldModels(r) |-> models[m]]
      BY <1>8 DEF CommitClosing
    <2>2. IsFiniteSet(rows') BY <1>2, <2>1, FS_Difference
    <2>3. Kept BY <1>2, <2>1, <2>2
    <2> QED BY <1>3, <2>3 DEF FieldsInv, WellTyped, IsName, Lower
  <1>9. CASE \E m \in DOMAIN Models, name \in Renamed : Rename(r, m, name)
    <2>1. PICK m \in DOMAIN Models, name \in Renamed : Rename(r, m, name) BY <1>9
    <2>2. rows' = rows /\ (models' = models \/ models' = [models EXCEPT ![m] = name]) BY <2>1 DEF Rename
    <2>3. IsName(name) BY ExperimentsAssumption
    <2>4. Kept BY <1>2, <2>2, <2>3
    <2> QED BY <1>3, <2>4 DEF FieldsInv, WellTyped, IsName, Lower
  <1> QED BY <1>1, <1>4, <1>5, <1>6, <1>7, <1>8, <1>9 DEF Commits

\* Every list adds up, whoever wrote the rows.
THEOREM ListsAlwaysAddUp == Spec => []ListsAddUp
  <1>1. Listed => ListsAddUp
    <2>1. SUFFICES ASSUME Listed PROVE ListsAddUp OBVIOUS
    <2>2. \A sort \in Sorts, order \in {"asc", "desc"} : PagesAddUp(sort, order) BY <2>1, PagesShowAll
    <2>3. \A entry \in ModelCounts : Cardinality(Matches("all", entry.name)) = entry.count
      BY <2>1, FilterGives
    <2>4. MapThenSumSet(LAMBDA entry : entry.count, ModelCounts) = Counts.all
      BY <2>1, FilterCountsAll DEF Counts
    <2>5. \A show \in Shows : Counts[show] = Cardinality(Matches(show, None))
      <3>1. Matches("all", None) = rows BY DEF Matches
      <3>2. Matches("starred", None) = {b \in rows : b.starred} BY DEF Matches
      <3>3. Matches("failed", None) = {b \in rows : b.failed} BY DEF Matches
      <3>4. Counts["all"] = Cardinality(rows) /\ Counts["starred"] = Cardinality({b \in rows : b.starred})
            /\ Counts["failed"] = Cardinality({b \in rows : b.failed})
        BY DEF Counts
      <3> QED BY <3>1, <3>2, <3>3, <3>4 DEF Shows
    <2>6. MapThenSumSet(LAMBDA m : ModelUsage[m].count, DOMAIN models)
            = Cardinality({b \in rows : b.model # None})
      BY <2>1, UsesCountAll
    <2>7. \A b \in Best(1) : b.model # None => ModelUsage[b.model].best = b.result BY <2>1, BestIsTold
    <2>8. Cardinality(Best(2)) = Min({2, Cardinality({b \in rows : b.result # None /\ ~b.failed})})
      BY <2>1, TwoBest
    <2> QED BY <2>2, <2>3, <2>4, <2>5, <2>6, <2>7, <2>8 DEF ListsAddUp, PagesAddUp
  <1>2. Init => Listed /\ ActsInv BY FieldsAtFirst, InvHoldsAtFirst, ActsHoldAtFirst DEF Listed
  <1>3. Listed /\ ActsInv /\ [Next]_vars => (Listed /\ ActsInv)'
    <2>1. SUFFICES ASSUME Listed, ActsInv, [Next]_vars PROVE (Listed /\ ActsInv)' OBVIOUS
    <2>2. Inv' BY <2>1, InvIsKept DEF Listed
    <2>3. ActsInv' BY <2>1, ActsAreKept DEF Listed
    <2>4. FieldsInv'
      <3>1. CASE Next BY <2>1, <3>1, FieldsAreKept DEF Listed
      <3>2. CASE UNCHANGED vars
        BY <2>1, <3>2 DEF vars, Listed, FieldsInv, WellTyped, IsName, Lower
      <3> QED BY <2>1, <3>1, <3>2
    <2> QED BY <2>2, <2>3, <2>4 DEF Listed
  <1> QED BY <1>1, <1>2, <1>3, PTL DEF Spec

-----------------------------------------------------------------------------
(***************************************************************************)
(* The result files of the command line.                                   *)
(***************************************************************************)
Kinds == {"run", "run-all"}
Works(c) == stage[c] \in {"work", "write", "writing"}

\* CameToEnd, of the stages and codes of a state.
AtEnd(c, stages, codes) == stages[c] = "done" /\ codes[c] \in {0, 1}

\* The i-th file of a command is there, as it wrote it.
By(c, i) ==
    /\ Files(c)[i] \in DOMAIN out[Kind(c)]
    /\ out[Kind(c)][Files(c)[i]].by = c
Whole(c, i) == By(c, i) /\ out[Kind(c)][Files(c)[i]].whole

Typed ==
    /\ stage \in [Commands -> {"idle", "work", "write", "writing", "done", "broken"}]
    /\ code \in [Commands -> {Absent, 0, 1, 2}]
    /\ at \in [Commands -> Nat \ {0}]
    /\ DOMAIN out = Kinds
    /\ \A k \in Kinds : \A name \in DOMAIN out[k] :
           out[k][name].by \in Commands /\ Kind(out[k][name].by) = k

OneWorks == \A c, d \in Commands : Works(c) /\ Works(d) => c = d

\* An exit code is that of a command which is done, or broken.
CodesComeLast == \A c \in Commands : code[c] # Absent => stage[c] \in {"done", "broken"}

\* A command wrote nothing before it works.
IdleWroteNone ==
    \A c \in Commands : stage[c] = "idle" => at[c] = 1 /\ \A i \in 1..Len(Files(c)) : ~By(c, i)

\* Of one that works the files below at are there and whole, those above are not its
\* own, and the one it writes is not whole.
WroteUpTo ==
    \A c \in Commands : Works(c) =>
        /\ at[c] <= Len(Files(c))
        /\ \A i \in 1..Len(Files(c)) :
               /\ i < at[c] => Whole(c, i)
               /\ i > at[c] => ~By(c, i)
               /\ i = at[c] => IF stage[c] = "writing" THEN By(c, i) /\ ~Whole(c, i) ELSE ~By(c, i)

WriteInv == Typed /\ OneWorks /\ CodesComeLast /\ IdleWroteNone /\ WroteUpTo /\ RecordComesLast

-----------------------------------------------------------------------------
\* A command writes files of different names, run.json last, and those of its kind alone.
LEMMA FilesOfAKind ==
  ASSUME NEW c \in Commands
  PROVE  /\ Kind(c) \in Kinds
         /\ Len(Files(c)) \in Nat \ {0} /\ DOMAIN Files(c) = 1..Len(Files(c))
         /\ Files(c)[Len(Files(c))] = "run.json"
         /\ \A i, j \in 1..Len(Files(c)) : Files(c)[i] = Files(c)[j] => i = j
         /\ \A d \in Commands : Kind(d) = Kind(c) => Files(d) = Files(c)
         /\ ToSet(Files(c)) = {Files(c)[i] : i \in 1..Len(Files(c))}
  <1>1. CASE c \in Singles
    <2>1. Files(c) = <<"trades", "series", "stats", "run.json">> BY <1>1 DEF Files
    <2>2. Len(Files(c)) = 4 /\ DOMAIN Files(c) = 1..4 BY <2>1
    <2>3. \A i, j \in 1..4 : Files(c)[i] = Files(c)[j] => i = j BY <2>1
    <2> QED BY <1>1, <2>1, <2>2, <2>3 DEF Kind, Kinds, Files, ToSet
  <1>2. CASE c \notin Singles
    <2>1. Files(c) = <<"stats", "trades", "run.json">> BY <1>2 DEF Files
    <2>2. Len(Files(c)) = 3 /\ DOMAIN Files(c) = 1..3 BY <2>1
    <2>3. \A i, j \in 1..3 : Files(c)[i] = Files(c)[j] => i = j BY <2>1
    <2> QED BY <1>2, <2>1, <2>2, <2>3 DEF Kind, Kinds, Files, ToSet
  <1> QED BY <1>1, <1>2

\* What writing a file changes.
OnlyPut(c, whole) ==
    /\ DOMAIN out' = Kinds
    /\ \A k \in Kinds : k # Kind(c) => out'[k] = out[k]
    /\ DOMAIN out'[Kind(c)] = DOMAIN out[Kind(c)] \cup {File(c)}
    /\ out'[Kind(c)][File(c)].by = c /\ out'[Kind(c)][File(c)].whole = whole
    /\ \A name \in DOMAIN out[Kind(c)] :
           name # File(c) => out'[Kind(c)][name] = out[Kind(c)][name]

LEMMA Putting ==
  ASSUME Typed, NEW c \in Commands, NEW whole \in BOOLEAN, Put(c, whole)
  PROVE  OnlyPut(c, whole)
  <1> DEFINE entry == [by |-> c, whole |-> whole]
             files == [name \in DOMAIN out[Kind(c)] \cup {File(c)} |->
                          IF name = File(c) THEN entry ELSE out[Kind(c)][name]]
  <1>1. Kind(c) \in DOMAIN out BY FilesOfAKind DEF Typed
  <1>2. out' = [out EXCEPT ![Kind(c)] = files] BY DEF Put
  <1>3. /\ DOMAIN files = DOMAIN out[Kind(c)] \cup {File(c)}
        /\ files[File(c)] = entry
        /\ \A name \in DOMAIN out[Kind(c)] : name # File(c) => files[name] = out[Kind(c)][name]
    OBVIOUS
  <1> HIDE DEF files
  <1>4. out'[Kind(c)] = files BY <1>1, <1>2
  <1> QED BY <1>1, <1>2, <1>3, <1>4 DEF Typed, OnlyPut

-----------------------------------------------------------------------------
\* The steps that leave the files alone.

\* No command goes on: another one's place in the folder is as it was.
LEMMA NobodyWrites ==
  ASSUME WriteInv, UNCHANGED <<stage, code, at, out>>
  PROVE  WriteInv'
  BY DEF WriteInv, Typed, OneWorks, Works, CodesComeLast, IdleWroteNone, WroteUpTo, By, Whole,
         RecordComesLast, CameToEnd, Files, Kind

\* A command goes on, or ends, without a file.
Onward(c) ==
    /\ UNCHANGED <<at, out>>
    /\ \/ /\ stage[c] = "idle" /\ \A d \in Commands \ {c} : ~Works(d)
          /\ stage' = [stage EXCEPT ![c] = "work"] /\ UNCHANGED code
       \/ stage[c] = "work" /\ stage' = [stage EXCEPT ![c] = "write"] /\ UNCHANGED code
       \/ (stage[c] = "idle" \/ Works(c)) /\ stage' = [stage EXCEPT ![c] = "done"] /\ code' = [code EXCEPT ![c] = 2]
       \/ /\ Works(c) /\ stage' = [stage EXCEPT ![c] = "broken"]
          /\ \E exit \in {Absent, 1} : code' = [code EXCEPT ![c] = exit]

LEMMA OnwardKeeps ==
  ASSUME WriteInv, NEW c \in Commands, Onward(c)
  PROVE  WriteInv'
  <1>1. /\ \A d \in Commands : Kind(d)' = Kind(d) /\ Files(d)' = Files(d)
        /\ \A d \in Commands, i \in Nat : By(d, i)' = By(d, i) /\ Whole(d, i)' = Whole(d, i)
    BY DEF Onward, Kind, Files, By, Whole
  <1>2. \A d \in Commands : d # c => stage'[d] = stage[d] /\ code'[d] = code[d]
    BY DEF Onward, WriteInv, Typed
  <1>3. Typed' BY <1>1 DEF Onward, WriteInv, Typed
  <1>4. OneWorks' BY <1>2 DEF Onward, WriteInv, Typed, OneWorks, Works
  <1>5. CodesComeLast' BY <1>2 DEF Onward, WriteInv, Typed, CodesComeLast, Works
  <1>6. IdleWroteNone' BY <1>1, <1>2, FilesOfAKind DEF Onward, WriteInv, Typed, IdleWroteNone, Works
  <1>7. WroteUpTo'
    <2> SUFFICES ASSUME NEW d \in Commands, Works(d)'
                 PROVE  /\ at[d] <= Len(Files(d))
                        /\ \A i \in 1..Len(Files(d)) :
                               /\ i < at[d] => Whole(d, i)
                               /\ i > at[d] => ~By(d, i)
                               /\ i = at[d] => IF stage'[d] = "writing" THEN By(d, i) /\ ~Whole(d, i)
                                               ELSE ~By(d, i)
      BY <1>1, FilesOfAKind DEF WroteUpTo, Onward
    <2>1. CASE stage[d] = "idle"
      <3>1. d = c /\ stage'[d] = "work" BY <2>1, <1>2 DEF Works, Onward, WriteInv, Typed
      <3>2. at[d] = 1 /\ \A i \in 1..Len(Files(d)) : ~By(d, i) BY <2>1 DEF WriteInv, IdleWroteNone
      <3> QED BY <3>1, <3>2, FilesOfAKind
    <2>2. CASE stage[d] # "idle"
      <3>1. Works(d) /\ (stage'[d] = "writing" <=> stage[d] = "writing")
        BY <2>2, <1>2 DEF Works, Onward, WriteInv, Typed
      <3> QED BY <3>1 DEF WriteInv, WroteUpTo
    <2> QED BY <2>1, <2>2
  <1>8. \A d \in Commands : AtEnd(d, stage', code') <=> AtEnd(d, stage, code)
    <2>1. ~AtEnd(c, stage, code) /\ ~AtEnd(c, stage', code') BY DEF Onward, WriteInv, Typed, Works, AtEnd
    <2> QED BY <1>2, <2>1 DEF AtEnd
  <1>9. RecordComesLast'
    BY <1>1, <1>8, FilesOfAKind DEF Onward, WriteInv, Typed, RecordComesLast, Kinds, CameToEnd, AtEnd
  <1> QED BY <1>3, <1>4, <1>5, <1>6, <1>7, <1>9 DEF WriteInv

-----------------------------------------------------------------------------
\* The steps that write a file: while it is open it is not whole.

\* Putting a file changes what a command wrote only at that file, and takes nothing
\* from another command that works.
LEMMA PutChanges ==
  ASSUME WriteInv, NEW c \in Commands, Works(c), NEW whole \in BOOLEAN, Put(c, whole)
  PROVE  /\ at[c] \in 1..Len(Files(c)) /\ File(c) = Files(c)[at[c]]
         /\ \A i \in 1..Len(Files(c)) :
                IF i = at[c] THEN By(c, i)' /\ (Whole(c, i)' <=> whole)
                ELSE (By(c, i)' <=> By(c, i)) /\ (Whole(c, i)' <=> Whole(c, i))
         /\ \A d \in Commands \ {c} : \A i \in 1..Len(Files(d)) : ~By(d, i) => ~By(d, i)'
  <1>1. at[c] \in 1..Len(Files(c)) /\ File(c) = Files(c)[at[c]]
    BY FilesOfAKind DEF WriteInv, WroteUpTo, Typed, File
  <1>2. Typed BY DEF WriteInv
  <1>3. \A d \in Commands : Kind(d)' = Kind(d) /\ Files(d)' = Files(d) BY DEF Kind, Files
  <1>4. OnlyPut(c, whole) BY <1>2, Putting
  <1> QED BY <1>1, <1>3, <1>4, FilesOfAKind DEF By, Whole, OnlyPut

\* While a command writes, those of the others that work or are to come are none.
LEMMA WritingKeeps ==
  ASSUME WriteInv, NEW c \in Commands, Works(c), NEW whole \in BOOLEAN, Put(c, whole),
         \A d \in Commands \ {c} : stage'[d] = stage[d] /\ at'[d] = at[d] /\ code'[d] = code[d],
         stage' \in [Commands -> {"idle", "work", "write", "writing", "done", "broken"}],
         code' \in [Commands -> {Absent, 0, 1, 2}], at' \in [Commands -> Nat \ {0}],
         stage'[c] \in {"write", "writing", "done"}, code'[c] # Absent => stage'[c] = "done"
  PROVE  /\ Typed' /\ OneWorks' /\ CodesComeLast' /\ IdleWroteNone'
         /\ \A d \in Commands \ {c} : ~Works(d)'
  <1>1. Typed /\ OneWorks /\ CodesComeLast /\ IdleWroteNone BY DEF WriteInv
  <1>2. \A d \in Commands : Kind(d)' = Kind(d) /\ Files(d)' = Files(d) BY DEF Kind, Files
  <1>3. \A d \in Commands \ {c} : ~Works(d)' BY <1>1 DEF OneWorks, Works
  <1>8. OnlyPut(c, whole) BY <1>1, Putting
  <1>9. \A k \in Kinds : \A name \in DOMAIN out'[k] :
          out'[k][name].by \in Commands /\ Kind(out'[k][name].by) = k
    <2> SUFFICES ASSUME NEW k \in Kinds, NEW name \in DOMAIN out'[k]
                 PROVE  out'[k][name].by \in Commands /\ Kind(out'[k][name].by) = k
      OBVIOUS
    <2>1. CASE k # Kind(c) BY <2>1, <1>1, <1>8 DEF Typed, OnlyPut
    <2>2. CASE k = Kind(c) /\ name = File(c) BY <2>2, <1>8 DEF OnlyPut
    <2>3. CASE k = Kind(c) /\ name # File(c) BY <2>3, <1>1, <1>8 DEF Typed, OnlyPut
    <2> QED BY <2>1, <2>2, <2>3
  <1>4. Typed' BY <1>2, <1>8, <1>9 DEF Typed, OnlyPut
  <1>5. OneWorks' BY <1>3 DEF OneWorks
  <1>6. CodesComeLast' BY <1>1 DEF CodesComeLast
  <1>7. IdleWroteNone' BY <1>1, <1>2, PutChanges, FilesOfAKind DEF IdleWroteNone
  <1> QED BY <1>3, <1>4, <1>5, <1>6, <1>7

LEMMA OpenKeeps ==
  ASSUME WriteInv, NEW c \in Commands, OpenFile(c)
  PROVE  WriteInv'
  <1>1. Works(c) /\ Put(c, FALSE) /\ Typed BY DEF OpenFile, Works, WriteInv
  <1>2. stage' = [stage EXCEPT ![c] = "writing"] /\ code' = code /\ at' = at BY DEF OpenFile, GoesTo
  <1>3. stage[c] = "write" /\ stage'[c] = "writing" BY <1>1, <1>2 DEF OpenFile, Typed
  <1>4. code[c] = Absent BY <1>3 DEF WriteInv, CodesComeLast
  <1>5. Typed' /\ OneWorks' /\ CodesComeLast' /\ IdleWroteNone' /\ \A d \in Commands \ {c} : ~Works(d)'
    BY <1>1, <1>2, <1>3, <1>4, WritingKeeps DEF Typed
  <1>6. Kind(c)' = Kind(c) /\ Files(c)' = Files(c) BY DEF Kind, Files
  <1>9. OnlyPut(c, FALSE) BY <1>1, Putting
  <1>7. WroteUpTo'
    <2>1. at[c] <= Len(Files(c))
          /\ \A i \in 1..Len(Files(c)) :
                 (i < at[c] => Whole(c, i)) /\ (i > at[c] => ~By(c, i))
      BY <1>1 DEF WriteInv, WroteUpTo
    <2>2. \A i \in 1..Len(Files(c)) :
            IF i = at[c] THEN By(c, i)' /\ ~Whole(c, i)'
            ELSE (By(c, i)' <=> By(c, i)) /\ (Whole(c, i)' <=> Whole(c, i))
      BY <1>1, PutChanges
    <2>3. \A i \in 1..Len(Files(c)) :
            /\ i < at[c] => Whole(c, i)'
            /\ i > at[c] => ~By(c, i)'
            /\ i = at[c] => By(c, i)' /\ ~Whole(c, i)'
      BY <1>1, <2>1, <2>2, FilesOfAKind DEF Typed
    <2>4. \A d \in Commands : Works(d)' => d = c BY <1>5
    <2> QED BY <1>2, <1>3, <1>6, <2>1, <2>3, <2>4 DEF WroteUpTo
  <1>8. RecordComesLast'
    <2> SUFFICES ASSUME NEW kind \in Kinds, "run.json" \in DOMAIN out'[kind],
                        out'[kind]["run.json"].whole
                 PROVE  LET d == out'[kind]["run.json"].by
                        IN  \A name \in ToSet(Files(d)) :
                                /\ name \in DOMAIN out'[kind]
                                /\ IF out'[kind][name].by = d THEN out'[kind][name].whole
                                   ELSE ~AtEnd(out'[kind][name].by, stage', code')
      BY DEF RecordComesLast, Kinds, Files, CameToEnd, AtEnd
    <2>1. CASE kind # Kind(c)
      <3>1. out'[kind] = out[kind] BY <2>1, <1>9 DEF OnlyPut
      <3>2. \A name \in DOMAIN out[kind] : out[kind][name].by \in Commands \ {c}
        BY <2>1, <1>1 DEF Typed
      <3>3. \A e \in Commands \ {c} : AtEnd(e, stage', code') <=> AtEnd(e, stage, code)
        BY <1>1, <1>2 DEF AtEnd, Typed
      <3> QED BY <3>1, <3>2, <3>3 DEF WriteInv, RecordComesLast, Kinds, CameToEnd, AtEnd
    <2>2. CASE kind = Kind(c)
      <3>1. File(c) # "run.json" BY <2>2, <1>9 DEF OnlyPut
      <3>2. "run.json" \in DOMAIN out[kind] /\ out'[kind]["run.json"] = out[kind]["run.json"]
        BY <2>2, <3>1, <1>9 DEF OnlyPut
      <3> DEFINE d == out[kind]["run.json"].by
      <3>3. d \in Commands /\ Kind(d) = kind BY <3>2, <1>1 DEF Typed
      <3>4. \A name \in ToSet(Files(d)) :
              /\ name \in DOMAIN out[kind]
              /\ IF out[kind][name].by = d THEN out[kind][name].whole
                 ELSE ~AtEnd(out[kind][name].by, stage, code)
        BY <3>2 DEF WriteInv, RecordComesLast, Kinds, CameToEnd, AtEnd
      <3>5. d # c
        <4>1. Files(c)[Len(Files(c))] = "run.json" /\ Len(Files(c)) \in 1..Len(Files(c))
          BY FilesOfAKind
        <4>2. SUFFICES ASSUME d = c PROVE FALSE OBVIOUS
        <4>3. Whole(c, Len(Files(c))) BY <2>2, <3>2, <4>1, <4>2 DEF By, Whole
        <4>4. at[c] <= Len(Files(c)) /\ ~By(c, at[c]) /\ ~(Len(Files(c)) > at[c] /\ By(c, Len(Files(c))))
          BY <1>1, <1>3, <4>1, FilesOfAKind DEF WriteInv, WroteUpTo, Typed
        <4> QED BY <4>1, <4>3, <4>4, <1>1 DEF Whole, Typed
      <3>6. ~AtEnd(c, stage', code') BY <1>3 DEF AtEnd
      <3>7. \A e \in Commands \ {c} : AtEnd(e, stage', code') <=> AtEnd(e, stage, code)
        BY <1>1, <1>2 DEF AtEnd, Typed
      <3> QED BY <2>2, <3>2, <3>4, <3>5, <3>6, <3>7, <1>1, <1>9 DEF OnlyPut, Typed
    <2> QED BY <2>1, <2>2
  <1> QED BY <1>5, <1>7, <1>8 DEF WriteInv

\* It goes on to the next file, or it has written its last one and is done.
LEMMA CloseKeeps ==
  ASSUME WriteInv, NEW c \in Commands, CloseFile(c)
  PROVE  WriteInv'
  <1>1. Works(c) /\ Put(c, TRUE) /\ Typed /\ stage[c] = "writing" BY DEF CloseFile, Works, WriteInv
  <1>2. at[c] \in 1..Len(Files(c)) /\ Len(Files(c)) \in Nat \ {0} /\ code[c] = Absent
    BY <1>1, FilesOfAKind DEF WriteInv, WroteUpTo, Typed, CodesComeLast
  <1>3. \/ /\ at[c] < Len(Files(c)) /\ at' = [at EXCEPT ![c] = @ + 1]
           /\ stage' = [stage EXCEPT ![c] = "write"] /\ code' = code
        \/ /\ at[c] = Len(Files(c)) /\ at' = at
           /\ stage' = [stage EXCEPT ![c] = "done"]
           /\ \E exit \in {0, 1} : code' = [code EXCEPT ![c] = exit]
    BY <1>2 DEF CloseFile, GoesTo, Exits
  <1>4. Typed' /\ OneWorks' /\ CodesComeLast' /\ IdleWroteNone' /\ \A d \in Commands \ {c} : ~Works(d)'
    <2>1. \A d \in Commands \ {c} : stage'[d] = stage[d] /\ at'[d] = at[d] /\ code'[d] = code[d]
      BY <1>1, <1>3 DEF Typed
    <2>2. /\ stage' \in [Commands -> {"idle", "work", "write", "writing", "done", "broken"}]
          /\ code' \in [Commands -> {Absent, 0, 1, 2}] /\ at' \in [Commands -> Nat \ {0}]
      <3>1. stage' \in [Commands -> {"idle", "work", "write", "writing", "done", "broken"}]
        BY <1>1, <1>3 DEF Typed
      <3>2. code' \in [Commands -> {Absent, 0, 1, 2}]
        BY <1>1, <1>3, <1>2 DEF Typed
      <3>3. at' \in [Commands -> Nat \ {0}]
        <4>1. at \in [Commands -> Nat \ {0}] BY <1>1 DEF Typed
        <4>2. at[c] + 1 \in Nat \ {0} BY <4>1
        <4>3. [at EXCEPT ![c] = @ + 1] \in [Commands -> Nat \ {0}] BY <4>1, <4>2
        <4> QED BY <1>3, <4>1, <4>3
      <3> QED BY <3>1, <3>2, <3>3
    <2>3. stage'[c] \in {"write", "writing", "done"} /\ (code'[c] # Absent => stage'[c] = "done")
      BY <1>1, <1>2, <1>3 DEF Typed
    <2> QED BY <1>1, <2>1, <2>2, <2>3, WritingKeeps
  <1>5. Kind(c)' = Kind(c) /\ Files(c)' = Files(c) BY DEF Kind, Files
  <1>6. OnlyPut(c, TRUE) BY <1>1, Putting
  <1>7. \A i \in 1..Len(Files(c)) :
          IF i = at[c] THEN By(c, i)' /\ Whole(c, i)'
          ELSE (By(c, i)' <=> By(c, i)) /\ (Whole(c, i)' <=> Whole(c, i))
    BY <1>1, PutChanges
  <1>8. \A i \in 1..Len(Files(c)) :
          /\ i <= at[c] => Whole(c, i)'
          /\ i > at[c] => ~By(c, i)'
    <2>1. \A i \in 1..Len(Files(c)) : (i < at[c] => Whole(c, i)) /\ (i > at[c] => ~By(c, i))
      BY <1>1 DEF WriteInv, WroteUpTo
    <2> QED BY <1>2, <1>7, <2>1
  <1>9. WroteUpTo'
    <2> SUFFICES ASSUME Works(c)'
                 PROVE  /\ at'[c] <= Len(Files(c))
                        /\ \A i \in 1..Len(Files(c)) :
                               /\ i < at'[c] => Whole(c, i)'
                               /\ i > at'[c] => ~By(c, i)'
                               /\ i = at'[c] => IF stage'[c] = "writing" THEN By(c, i)' /\ ~Whole(c, i)'
                                                ELSE ~By(c, i)'
      BY <1>4, <1>5 DEF WroteUpTo
    <2>1. at[c] < Len(Files(c)) /\ at'[c] = at[c] + 1 /\ stage'[c] = "write"
      BY <1>1, <1>3 DEF Works, Typed
    <2> QED BY <1>2, <1>8, <2>1
  <1>10. RecordComesLast'
    <2> SUFFICES ASSUME NEW kind \in Kinds, "run.json" \in DOMAIN out'[kind],
                        out'[kind]["run.json"].whole
                 PROVE  LET d == out'[kind]["run.json"].by
                        IN  \A name \in ToSet(Files(d)) :
                                /\ name \in DOMAIN out'[kind]
                                /\ IF out'[kind][name].by = d THEN out'[kind][name].whole
                                   ELSE ~AtEnd(out'[kind][name].by, stage', code')
      BY DEF RecordComesLast, Kinds, Files, CameToEnd, AtEnd
    <2>1. \A d \in Commands \ {c} : AtEnd(d, stage', code') <=> AtEnd(d, stage, code) BY <1>1, <1>3 DEF AtEnd, Typed
    <2>2. Kind(c) \in Kinds
          /\ Files(c)[Len(Files(c))] = "run.json" /\ Len(Files(c)) \in 1..Len(Files(c))
      BY FilesOfAKind
    <2>3. File(c) = Files(c)[at[c]] BY DEF File
    <2>4. CASE kind # Kind(c)
      <3>1. out'[kind] = out[kind] BY <2>4, <1>6 DEF OnlyPut
      <3>2. \A name \in DOMAIN out[kind] : out[kind][name].by \in Commands \ {c}
        BY <2>4, <1>1 DEF Typed
      <3> QED BY <2>1, <3>1, <3>2 DEF WriteInv, RecordComesLast, Kinds, CameToEnd, AtEnd
    <2>5. CASE kind = Kind(c) /\ at[c] < Len(Files(c))
      <3>1. File(c) # "run.json" BY <2>2, <2>3, <2>5, <1>2, FilesOfAKind
      <3>2. "run.json" \in DOMAIN out[kind] /\ out'[kind]["run.json"] = out[kind]["run.json"]
        BY <2>5, <3>1, <1>6 DEF OnlyPut
      <3> DEFINE d == out[kind]["run.json"].by
      <3>3. \A name \in ToSet(Files(d)) :
              /\ name \in DOMAIN out[kind]
              /\ IF out[kind][name].by = d THEN out[kind][name].whole
                 ELSE ~AtEnd(out[kind][name].by, stage, code)
        BY <3>2 DEF WriteInv, RecordComesLast, Kinds, CameToEnd, AtEnd
      <3>4. d # c
        <4>1. ~By(c, Len(Files(c))) BY <1>1, <2>2, <2>5, <1>2 DEF WriteInv, WroteUpTo
        <4> QED BY <4>1, <2>2, <2>5, <3>2 DEF By
      <3>5. stage'[c] = "write" BY <1>1, <1>2, <1>3, <2>5 DEF Typed
      <3>6. ~AtEnd(c, stage', code') BY <3>5 DEF AtEnd
      <3> QED BY <2>1, <2>5, <3>2, <3>3, <3>4, <3>6, <1>1, <1>6 DEF OnlyPut, Typed
    <2>6. CASE kind = Kind(c) /\ at[c] = Len(Files(c))
      <3>1. out'[kind]["run.json"].by = c BY <2>2, <2>3, <2>6, <1>6 DEF OnlyPut
      <3>2. \A i \in 1..Len(Files(c)) : Whole(c, i)' BY <1>2, <1>8, <2>6
      <3>3. \A i \in 1..Len(Files(c)) :
              Files(c)[i] \in DOMAIN out'[kind] /\ out'[kind][Files(c)[i]].by = c
              /\ out'[kind][Files(c)[i]].whole
        BY <3>2, <1>5, <2>6 DEF By, Whole
      <3> QED BY <3>1, <3>3, FilesOfAKind
    <2> QED BY <1>2, <2>4, <2>5, <2>6
  <1> QED BY <1>4, <1>9, <1>10 DEF WriteInv

-----------------------------------------------------------------------------
LEMMA WriteInit == CommandInit => WriteInv
  <1> SUFFICES ASSUME CommandInit PROVE WriteInv OBVIOUS
  <1>1. DOMAIN out = Kinds /\ \A k \in Kinds : DOMAIN out[k] = {} BY DEF CommandInit, Kinds
  <1>2. \A c \in Commands : stage[c] = "idle" /\ code[c] = Absent /\ at[c] = 1 BY DEF CommandInit
  <1>3. Typed BY <1>1 DEF CommandInit, Typed
  <1>4. \A c \in Commands : \A i \in 1..Len(Files(c)) : ~By(c, i) BY <1>1, FilesOfAKind DEF By
  <1>5. OneWorks /\ CodesComeLast /\ IdleWroteNone /\ WroteUpTo
    BY <1>2, <1>4 DEF OneWorks, CodesComeLast, IdleWroteNone, WroteUpTo, Works
  <1>6. RecordComesLast BY <1>1 DEF RecordComesLast, Kinds
  <1> QED BY <1>3, <1>5, <1>6 DEF WriteInv

LEMMA WriteStep ==
  ASSUME WriteInv, [CommandNext]_commandVars
  PROVE  WriteInv'
  <1>1. ASSUME NEW c \in Commands, Start(c) PROVE WriteInv'
    <2>1. \A d \in Commands \ {c} : ~Works(d) BY <1>1 DEF Start, Ended, Works
    <2>2. Onward(c) BY <1>1, <2>1 DEF Start, Onward, GoesTo, Exits
    <2> QED BY <1>1, <2>2, OnwardKeeps
  <1>2. ASSUME NEW c \in Commands, Stock(c) PROVE WriteInv'
    BY <1>2, NobodyWrites DEF Stock
  <1>3. ASSUME NEW c \in Commands, NEW s \in Stocks, Hash(c, s) PROVE WriteInv'
    BY <1>3, NobodyWrites DEF Hash
  <1>4. ASSUME NEW c \in Commands, Report(c) PROVE WriteInv'
    <2>1. Onward(c) BY <1>4 DEF Report, Onward, Works, GoesTo, Exits
    <2> QED BY <1>4, <2>1, OnwardKeeps
  <1>5. ASSUME NEW c \in Commands, OpenFile(c) PROVE WriteInv' BY <1>5, OpenKeeps
  <1>6. ASSUME NEW c \in Commands, CloseFile(c) PROVE WriteInv' BY <1>6, CloseKeeps
  <1>7. ASSUME NEW c \in Commands, WriteFails(c) PROVE WriteInv'
    <2>1. Onward(c) BY <1>7 DEF WriteFails, Onward, Works, GoesTo, Exits
    <2> QED BY <1>7, <2>1, OnwardKeeps
  <1>8. ASSUME NEW c \in Commands, Break(c) PROVE WriteInv'
    <2>1. Onward(c) BY <1>8 DEF Break, Onward, Works, GoesTo
    <2> QED BY <1>8, <2>1, OnwardKeeps
  <1>9. ASSUME NEW s \in Stocks, Change(s) PROVE WriteInv'
    BY <1>9, NobodyWrites DEF Change
  <1>10. CASE UNCHANGED commandVars BY <1>10, NobodyWrites DEF commandVars
  <1> QED BY <1>1, <1>2, <1>3, <1>4, <1>5, <1>6, <1>7, <1>8, <1>9, <1>10 DEF CommandNext

\* Who finds a whole run.json finds the whole results it tells of, unless a later
\* command was stopped while it wrote (the order of _write in cli/run.py and
\* cli/run_all.py).
THEOREM RecordsAreLast == CommandSpec => []RecordComesLast
  <1>1. WriteInv => RecordComesLast BY DEF WriteInv
  <1>2. WriteInv /\ [CommandNext]_commandVars => WriteInv' BY WriteStep
  <1> QED BY <1>1, <1>2, WriteInit, PTL DEF CommandSpec

-----------------------------------------------------------------------------
\* What a command has of its stocks.

Places == {"waiting", "read", "failed", "ran"}
Inputs == Contents \cup {Absent}

\* What it took was readable, and what it ran was still there; when it writes, it is
\* through with its stocks, and run with one that did not fail.
CommandInv(c) ==
    /\ Works(c) => /\ args[c].models \in ModelChoices
                   /\ c \in Singles => args[c].stock \in Stocks
    /\ stage[c] = "idle" => \A s \in Stocks : place[c][s] = "waiting"
    /\ stage[c] = "work" => at[c] = 1
    /\ \A s \in Stocks :
           /\ Works(c) /\ place[c][s] \in {"read", "ran"} => ~Unreadable(c, read[c][s])
           /\ place[c][s] = "ran" => hash[c][s] # Absent
    /\ stage[c] \in {"write", "writing"} =>
           /\ \A s \in Picked(c) : place[c][s] \in {"failed", "ran"}
           /\ c \in Singles => FailedStocks(c) = {}

StocksInv ==
    /\ DOMAIN args = Commands
    /\ place \in [Commands -> [Stocks -> Places]]
    /\ read \in [Commands -> [Stocks -> Inputs]] /\ hash \in [Commands -> [Stocks -> Inputs]]
    /\ data \in [Stocks -> Inputs]
    /\ \A c \in Commands : CommandInv(c)
    /\ \A c \in Commands : DOMAIN out[Kind(c)] \subseteq ToSet(Files(c))

LEMMA PickedAreStocks ==
  ASSUME NEW c \in Commands, CommandInv(c), Works(c)
  PROVE  Picked(c) \subseteq Stocks
  BY DEF CommandInv, Picked

LEMMA StocksInit ==
  ASSUME CommandInit
  PROVE  StocksInv
  <1>1. \A c \in Commands : stage[c] = "idle" /\ \A s \in Stocks : place[c][s] = "waiting"
    BY DEF CommandInit
  <1>2. \A c \in Commands : CommandInv(c) BY <1>1 DEF CommandInv, Works
  <1>3. \A c \in Commands : DOMAIN out[Kind(c)] = {} BY FilesOfAKind DEF CommandInit, Kinds
  <1> QED BY <1>2, <1>3 DEF CommandInit, StocksInv, Places, Inputs

\* What another command does.
LEMMA OthersKeep ==
  ASSUME NEW d, CommandInv(d), stage'[d] = stage[d], args'[d] = args[d], place'[d] = place[d],
         read'[d] = read[d], hash'[d] = hash[d], at'[d] = at[d]
  PROVE  CommandInv(d)'
  <1>1. Picked(d)' = Picked(d) /\ Works(d)' = Works(d) BY DEF Picked, Works
  <1>2. \A x : Asked(d, x)' = Asked(d, x) BY DEF Asked
  <1>3. \A s \in Stocks : Unreadable(d, read[d][s])' = Unreadable(d, read[d][s])
    BY DEF Unreadable, Asked
  <1>4. FailedStocks(d)' = FailedStocks(d) BY <1>1 DEF FailedStocks, Asked
  <1> QED BY <1>1, <1>3, <1>4 DEF CommandInv

\* A command goes on without a look at a stock.
LEMMA StageMoves ==
  ASSUME WriteInv, StocksInv, NEW c \in Commands,
         UNCHANGED <<args, place, read, hash, data>>,
         \A d \in Commands \ {c} : stage'[d] = stage[d] /\ at'[d] = at[d],
         \A d \in Commands : DOMAIN out'[Kind(d)] \subseteq ToSet(Files(d)),
         \/ stage'[c] \in {"done", "broken"}
         \/ stage[c] \in {"write", "writing"} /\ stage'[c] \in {"write", "writing"}
  PROVE  StocksInv'
  <1>1. \A d \in Commands : d # c => CommandInv(d)' BY OthersKeep DEF StocksInv
  <1>2. CommandInv(c)'
    <2>1. CommandInv(c) BY DEF StocksInv
    <2>2. CASE stage'[c] \in {"done", "broken"} BY <2>1, <2>2 DEF CommandInv, Works
    <2>3. CASE stage[c] \in {"write", "writing"} /\ stage'[c] \in {"write", "writing"}
      <3>1. Picked(c)' = Picked(c) BY DEF Picked
      <3>2. \A s \in Stocks : Unreadable(c, read[c][s])' = Unreadable(c, read[c][s])
        BY DEF Unreadable, Asked
      <3>3. FailedStocks(c)' = FailedStocks(c) BY <3>1 DEF FailedStocks, Asked
      <3> QED BY <2>1, <2>3, <3>1, <3>2, <3>3 DEF CommandInv, Works
    <2> QED BY <2>2, <2>3
  <1>3. \A d \in Commands : Kind(d)' = Kind(d) /\ Files(d)' = Files(d) BY DEF Kind, Files
  <1> QED BY <1>1, <1>2, <1>3 DEF StocksInv

LEMMA StartStocks ==
  ASSUME WriteInv, StocksInv, NEW c \in Commands, Start(c)
  PROVE  StocksInv'
  <1> DEFINE single == {x \in ModelChoices : x = Absent \/ Len(x) = 1}
  <1>a. PICK chosen \in IF c \in Singles THEN single ELSE ModelChoices,
             jobs \in IF c \in Singles THEN {1} ELSE Jobs,
             stock \in IF c \in Singles THEN Stocks ELSE {Absent} :
          args' = [args EXCEPT ![c] = [models |-> chosen, jobs |-> jobs, stock |-> stock]]
    BY DEF Start
  <1>1. chosen \in ModelChoices /\ (c \in Singles => stock \in Stocks) BY <1>a
  <1>2. /\ stage[c] = "idle" /\ UNCHANGED <<data, changes, place, read, hash, at, out>>
        /\ stage' \in {[stage EXCEPT ![c] = "done"], [stage EXCEPT ![c] = "work"]}
    BY DEF Start, Exits, GoesTo
  <1>3. at[c] = 1 BY <1>2 DEF WriteInv, IdleWroteNone
  <1>4. /\ stage'[c] \in {"done", "work"} /\ DOMAIN args' = Commands
        /\ args'[c].models = chosen /\ args'[c].stock = stock
        /\ \A d \in Commands : d # c => stage'[d] = stage[d] /\ args'[d] = args[d]
    BY <1>a, <1>2 DEF StocksInv, WriteInv, Typed
  <1>5. \A d \in Commands : d # c => CommandInv(d)' BY <1>2, <1>4, OthersKeep DEF StocksInv
  <1>6. CommandInv(c)' BY <1>1, <1>2, <1>3, <1>4 DEF StocksInv, CommandInv, Works
  <1>7. \A d \in Commands : Kind(d)' = Kind(d) /\ Files(d)' = Files(d) BY DEF Kind, Files
  <1> QED BY <1>2, <1>4, <1>5, <1>6, <1>7 DEF StocksInv

LEMMA StockStocks ==
  ASSUME WriteInv, StocksInv, NEW c \in Commands, Stock(c)
  PROVE  StocksInv'
  <1>1. PICK s \in Waiting(c) :
          /\ read' = [read EXCEPT ![c][s] = data[s]]
          /\ place' = [place EXCEPT ![c][s] = IF Unreadable(c, data[s]) THEN "failed" ELSE "read"]
    BY DEF Stock
  <1>2. stage[c] = "work" /\ UNCHANGED <<data, changes, stage, code, args, hash, at, out>> BY DEF Stock
  <1>3. CommandInv(c) BY DEF StocksInv
  <1>4. s \in Stocks BY <1>2, <1>3, PickedAreStocks DEF Waiting, Works
  <1>5. /\ read' \in [Commands -> [Stocks -> Inputs]] /\ place' \in [Commands -> [Stocks -> Places]]
        /\ read'[c][s] = data[s]
        /\ place'[c][s] = IF Unreadable(c, data[s]) THEN "failed" ELSE "read"
        /\ \A r \in Stocks : r # s => read'[c][r] = read[c][r] /\ place'[c][r] = place[c][r]
        /\ \A d \in Commands : d # c => read'[d] = read[d] /\ place'[d] = place[d]
    BY <1>1, <1>4 DEF StocksInv, Places
  <1>6. \A d \in Commands : d # c => CommandInv(d)' BY <1>2, <1>5, OthersKeep DEF StocksInv
  <1>7. \A x : Unreadable(c, x)' <=> Unreadable(c, x) BY <1>2 DEF Unreadable, Asked
  <1>8. CommandInv(c)'
    <2>1. ASSUME NEW r \in Stocks, place'[c][r] \in {"read", "ran"}
          PROVE  ~Unreadable(c, read'[c][r])
      <3>1. CASE r = s BY <2>1, <3>1, <1>5
      <3>2. CASE r # s BY <2>1, <3>2, <1>2, <1>3, <1>5 DEF CommandInv, Works
      <3> QED BY <3>1, <3>2
    <2>2. \A r \in Stocks : place'[c][r] = "ran" => hash'[c][r] # Absent
      BY <1>2, <1>3, <1>5 DEF CommandInv
    <2>3. \A r \in Stocks : Unreadable(c, read[c][r])' <=> Unreadable(c, read'[c][r])
      BY <1>2 DEF Unreadable, Asked
    <2> QED BY <1>2, <1>3, <2>1, <2>2, <2>3 DEF CommandInv, Works
  <1>9. \A d \in Commands : Kind(d)' = Kind(d) /\ Files(d)' = Files(d) BY DEF Kind, Files
  <1> QED BY <1>2, <1>5, <1>6, <1>8, <1>9 DEF StocksInv

LEMMA HashStocks ==
  ASSUME WriteInv, StocksInv, NEW c \in Commands, NEW s \in Stocks, Hash(c, s)
  PROVE  StocksInv'
  <1>1. /\ stage[c] = "work" /\ place[c][s] = "read"
        /\ hash' = [hash EXCEPT ![c][s] = data[s]]
        /\ place' = [place EXCEPT ![c][s] = IF data[s] = Absent THEN "failed" ELSE "ran"]
        /\ UNCHANGED <<data, changes, stage, code, args, read, at, out>>
    BY DEF Hash
  <1>2. /\ hash' \in [Commands -> [Stocks -> Inputs]] /\ place' \in [Commands -> [Stocks -> Places]]
        /\ hash'[c][s] = data[s]
        /\ place'[c][s] = IF data[s] = Absent THEN "failed" ELSE "ran"
        /\ \A r \in Stocks : r # s => hash'[c][r] = hash[c][r] /\ place'[c][r] = place[c][r]
        /\ \A d \in Commands : d # c => hash'[d] = hash[d] /\ place'[d] = place[d]
    BY <1>1 DEF StocksInv, Places
  <1>3. CommandInv(c) BY DEF StocksInv
  <1>4. \A d \in Commands : d # c => CommandInv(d)' BY <1>1, <1>2, OthersKeep DEF StocksInv
  <1>5. CommandInv(c)'
    <2>1. \A r \in Stocks : Unreadable(c, read[c][r])' <=> Unreadable(c, read[c][r])
      BY <1>1 DEF Unreadable, Asked
    <2>2. \A r \in Stocks : place'[c][r] \in {"read", "ran"} => place[c][r] \in {"read", "ran"}
      BY <1>1, <1>2
    <2>3. \A r \in Stocks : place'[c][r] = "ran" => hash'[c][r] # Absent
      BY <1>2, <1>3 DEF CommandInv
    <2> QED BY <1>1, <1>3, <2>1, <2>2, <2>3 DEF CommandInv, Works
  <1>6. \A d \in Commands : Kind(d)' = Kind(d) /\ Files(d)' = Files(d) BY DEF Kind, Files
  <1> QED BY <1>1, <1>2, <1>4, <1>5, <1>6 DEF StocksInv

LEMMA ReportStocks ==
  ASSUME WriteInv, StocksInv, NEW c \in Commands, Report(c)
  PROVE  StocksInv'
  <1>1. /\ stage[c] = "work" /\ Waiting(c) = {} /\ Running(c) = {}
        /\ UNCHANGED <<data, changes, args, place, read, hash, at, out>>
        /\ \/ stage' = [stage EXCEPT ![c] = "done"]
           \/ stage' = [stage EXCEPT ![c] = "write"] /\ (c \in Singles => FailedStocks(c) = {})
    BY DEF Report, Exits, GoesTo
  <1>2. \A d \in Commands \ {c} : stage'[d] = stage[d] BY <1>1 DEF WriteInv, Typed
  <1>3. CASE stage' = [stage EXCEPT ![c] = "done"]
    <2>1. stage'[c] = "done" BY <1>3 DEF WriteInv, Typed
    <2> QED BY <1>1, <1>2, <2>1, StageMoves DEF StocksInv
  <1>4. CASE stage' = [stage EXCEPT ![c] = "write"] /\ (c \in Singles => FailedStocks(c) = {})
    <2>1. stage'[c] = "write" BY <1>4 DEF WriteInv, Typed
    <2>2. CommandInv(c) BY DEF StocksInv
    <2>3. \A d \in Commands : d # c => CommandInv(d)' BY <1>1, <1>2, OthersKeep DEF StocksInv
    <2>4. CommandInv(c)'
      <3>1. Picked(c)' = Picked(c) BY <1>1 DEF Picked
      <3>2. \A s \in Stocks : Unreadable(c, read[c][s])' <=> Unreadable(c, read[c][s])
        BY <1>1 DEF Unreadable, Asked
      <3>3. FailedStocks(c)' = FailedStocks(c) BY <1>1, <3>1 DEF FailedStocks, Asked
      <3>4. \A s \in Picked(c) : place[c][s] \in {"failed", "ran"}
        <4>1. Picked(c) \subseteq Stocks BY <1>1, <2>2, PickedAreStocks DEF Works
        <4> QED BY <1>1, <4>1 DEF Waiting, Running, StocksInv, Places
      <3> QED BY <1>1, <1>4, <2>1, <2>2, <3>1, <3>2, <3>3, <3>4 DEF CommandInv, Works
    <2>5. \A d \in Commands : Kind(d)' = Kind(d) /\ Files(d)' = Files(d) BY DEF Kind, Files
    <2> QED BY <1>1, <2>3, <2>4, <2>5 DEF StocksInv
  <1> QED BY <1>1, <1>3, <1>4

LEMMA FilesStocks ==
  ASSUME WriteInv, StocksInv, NEW c \in Commands, OpenFile(c) \/ CloseFile(c)
  PROVE  StocksInv'
  <1>1. PICK whole \in BOOLEAN : Put(c, whole) BY DEF OpenFile, CloseFile
  <1>2. stage[c] \in {"write", "writing"} /\ Works(c) /\ UNCHANGED <<args, place, read, hash, data>>
    BY DEF OpenFile, CloseFile, Works
  <1>3. \E next \in {"writing", "write", "done"} : stage' = [stage EXCEPT ![c] = next]
    BY DEF OpenFile, CloseFile, GoesTo, Exits
  <1>4. at' = at \/ at' = [at EXCEPT ![c] = @ + 1] BY DEF OpenFile, CloseFile
  <1>5. \A d \in Commands \ {c} : stage'[d] = stage[d] /\ at'[d] = at[d]
    BY <1>3, <1>4 DEF WriteInv, Typed
  <1>6. stage'[c] \in {"writing", "write", "done"} BY <1>3 DEF WriteInv, Typed
  <1>7. \A d \in Commands : DOMAIN out'[Kind(d)] \subseteq ToSet(Files(d))
    <2>1. OnlyPut(c, whole) BY <1>1, Putting DEF WriteInv
    <2>2. File(c) \in ToSet(Files(c)) BY <1>1, <1>2, PutChanges, FilesOfAKind
    <2> TAKE d \in Commands
    <2>3. CASE Kind(d) = Kind(c) BY <2>1, <2>2, <2>3, FilesOfAKind DEF OnlyPut, StocksInv
    <2>4. CASE Kind(d) # Kind(c) BY <2>1, <2>4, FilesOfAKind DEF OnlyPut, StocksInv
    <2> QED BY <2>3, <2>4
  <1> QED BY <1>2, <1>5, <1>6, <1>7, StageMoves

LEMMA StopsStocks ==
  ASSUME WriteInv, StocksInv, NEW c \in Commands, WriteFails(c) \/ Break(c)
  PROVE  StocksInv'
  <1>1. \E next \in {"done", "broken"} : stage' = [stage EXCEPT ![c] = next]
    BY DEF WriteFails, Break, GoesTo, Exits
  <1>2. UNCHANGED <<data, args, place, read, hash, at, out>> BY DEF WriteFails, Break
  <1>3. stage'[c] \in {"done", "broken"} /\ \A d \in Commands \ {c} : stage'[d] = stage[d]
    BY <1>1 DEF WriteInv, Typed
  <1> QED BY <1>2, <1>3, StageMoves DEF StocksInv

LEMMA ChangeStocks ==
  ASSUME StocksInv, UNCHANGED <<stage, code, args, place, read, hash, at, out>>,
         data' \in [Stocks -> Inputs]
  PROVE  StocksInv'
  <1>1. \A d \in Commands : CommandInv(d)' BY OthersKeep DEF StocksInv
  <1>2. \A d \in Commands : Kind(d)' = Kind(d) /\ Files(d)' = Files(d) BY DEF Kind, Files
  <1> QED BY <1>1, <1>2 DEF StocksInv

LEMMA StocksStep ==
  ASSUME WriteInv, StocksInv, [CommandNext]_commandVars
  PROVE  StocksInv'
  <1>1. ASSUME NEW s \in Stocks, Change(s) PROVE StocksInv'
    <2>1. PICK content \in Inputs : data' = [data EXCEPT ![s] = content] BY <1>1 DEF Change, Inputs
    <2>2. data' \in [Stocks -> Inputs] BY <2>1 DEF StocksInv
    <2> QED BY <1>1, <2>2, ChangeStocks DEF Change
  <1>2. CASE UNCHANGED commandVars BY <1>2, ChangeStocks DEF commandVars, StocksInv
  <1> QED BY <1>1, <1>2, StartStocks, StockStocks, HashStocks, ReportStocks, FilesStocks, StopsStocks
          DEF CommandNext

-----------------------------------------------------------------------------
\* What the exit code of a command tells.

Mine(c) == {name \in DOMAIN out[Kind(c)] : out[Kind(c)][name].by = c}

CodeTells(c) ==
    LET files == out'[Kind(c)]
        mine == {name \in DOMAIN files : files[name].by = c}
        whole == mine = ToSet(Files(c)) /\ \A name \in mine : files[name].whole
        own == stage'[c] = "done"
    IN  /\ whole <=> code'[c] = 0 \/ (code'[c] = 1 /\ own)
        /\ code'[c] = 1 /\ own => c \in Grids /\ FailedStocks(c) # {}
        /\ code'[c] = 0 => \A s \in Picked(c) :
                               /\ read[c][s] # Absent /\ Asked(c, read[c][s]) # {}
                               /\ \A m \in Asked(c, read[c][s]) : Backtested(c, s, m)
        /\ c \in Singles /\ stage[c] = "work" => mine = {}

LEMMA NoneIsMine ==
  ASSUME WriteInv, StocksInv, NEW c \in Commands, \A i \in 1..Len(Files(c)) : ~By(c, i)
  PROVE  Mine(c) = {} /\ ToSet(Files(c)) # {}
  <1>1. DOMAIN out[Kind(c)] \subseteq ToSet(Files(c)) BY DEF StocksInv
  <1>2. \A name \in ToSet(Files(c)) : \E i \in 1..Len(Files(c)) : name = Files(c)[i] BY FilesOfAKind
  <1>3. \A name \in Mine(c) : FALSE BY <1>1, <1>2 DEF Mine, By
  <1>4. "run.json" \in ToSet(Files(c)) BY FilesOfAKind
  <1> QED BY <1>3, <1>4

\* A code of 2, or that of a traceback, with no file.
LEMMA RefusedTells ==
  ASSUME WriteInv, StocksInv, NEW c \in Commands, out' = out,
         code'[c] = 2 \/ (code'[c] = 1 /\ stage'[c] = "broken"),
         \A i \in 1..Len(Files(c)) : ~By(c, i)
  PROVE  CodeTells(c)
  <1>1. Mine(c) = {} /\ ToSet(Files(c)) # {} BY NoneIsMine
  <1> QED BY <1>1 DEF Mine, CodeTells

\* The same with a file that is missing or not whole.
LEMMA StoppedTells ==
  ASSUME WriteInv, StocksInv, NEW c \in Commands, stage[c] \in {"write", "writing"}, out' = out,
         code'[c] = 2 \/ (code'[c] = 1 /\ stage'[c] = "broken")
  PROVE  CodeTells(c)
  <1>3. at[c] \in 1..Len(Files(c)) /\ ~Whole(c, at[c])
    BY FilesOfAKind DEF WriteInv, WroteUpTo, Works, Typed, Whole
  <1>4. Files(c)[at[c]] \in ToSet(Files(c)) BY <1>3, FilesOfAKind
  <1>5. ~(Mine(c) = ToSet(Files(c)) /\ \A name \in Mine(c) : out[Kind(c)][name].whole)
    BY <1>3, <1>4 DEF Mine, Whole, By
  <1> QED BY <1>5 DEF Mine, CodeTells

\* The stocks of a command that writes: those that did not fail have the results.
LEMMA WritesTells ==
  ASSUME StocksInv, NEW c \in Commands, stage[c] = "writing", NEW s \in Picked(c),
         s \notin FailedStocks(c)
  PROVE  /\ read[c][s] # Absent /\ Asked(c, read[c][s]) # {}
         /\ \A m \in Asked(c, read[c][s]) : Backtested(c, s, m)
  <1>1. CommandInv(c) /\ Works(c) BY DEF StocksInv, Works
  <1>2. s \in Stocks BY <1>1, PickedAreStocks
  <1>3. place[c][s] = "ran" BY <1>1 DEF CommandInv, FailedStocks
  <1>4. ~Unreadable(c, read[c][s]) /\ hash[c][s] # Absent BY <1>1, <1>2, <1>3 DEF CommandInv
  <1>5. args[c].models \in ModelChoices BY <1>1 DEF CommandInv
  <1>6. Asked(c, read[c][s]) # {} BY <1>4, <1>5, RunCommandsAssumption DEF Asked, Unreadable
  <1>7. Asked(c, read[c][s]) \subseteq read[c][s].good BY DEF FailedStocks
  <1>8. \A m \in Asked(c, read[c][s]) : args[c].models = Absent \/ m \in ToSet(args[c].models)
    BY DEF Asked
  <1> QED BY <1>4, <1>6, <1>7, <1>8 DEF Backtested, Unreadable

LEMMA DoneTells ==
  ASSUME WriteInv, StocksInv, NEW c \in Commands, CloseFile(c), code[c] = Absent, code'[c] # Absent
  PROVE  CodeTells(c)
  <1>1. stage[c] = "writing" /\ Works(c) /\ Put(c, TRUE) BY DEF CloseFile, Works
  <1>2. at[c] = Len(Files(c)) /\ code'[c] = (IF FailedStocks(c) = {} THEN 0 ELSE 1)
    <2>1. at[c] \in 1..Len(Files(c)) BY <1>1, PutChanges
    <2>2. Len(Files(c)) \in Nat BY FilesOfAKind
    <2>3. ~(at[c] < Len(Files(c))) BY DEF CloseFile
    <2>4. code' = [code EXCEPT ![c] = IF FailedStocks(c) = {} THEN 0 ELSE 1]
      BY <2>3 DEF CloseFile, Exits
    <2> QED BY <2>1, <2>2, <2>3, <2>4 DEF WriteInv, Typed
  <1>3. \A i \in 1..Len(Files(c)) : Whole(c, i)'
    <2>1. \A i \in 1..Len(Files(c)) : i < at[c] => Whole(c, i) BY <1>1 DEF WriteInv, WroteUpTo
    <2>2. \A i \in 1..Len(Files(c)) : i = at[c] \/ i < at[c]
      <3>1. Len(Files(c)) \in Nat BY FilesOfAKind
      <3> QED BY <1>2, <3>1
    <2> QED BY <1>1, <2>1, <2>2, PutChanges
  <1>4. StocksInv' BY FilesStocks
  <1>5. Kind(c)' = Kind(c) /\ Files(c)' = Files(c) BY DEF Kind, Files
  <1>6. Mine(c)' = ToSet(Files(c)) /\ \A name \in Mine(c)' : out'[Kind(c)][name].whole
    <2>1. \A i \in 1..Len(Files(c)) :
            /\ Files(c)[i] \in DOMAIN out'[Kind(c)] /\ out'[Kind(c)][Files(c)[i]].by = c
            /\ out'[Kind(c)][Files(c)[i]].whole
      BY <1>3, <1>5 DEF Whole, By
    <2>2. DOMAIN out'[Kind(c)] \subseteq ToSet(Files(c)) BY <1>4, <1>5 DEF StocksInv
    <2>3. ToSet(Files(c)) = {Files(c)[i] : i \in 1..Len(Files(c))} BY FilesOfAKind
    <2>4. Mine(c)' = {name \in DOMAIN out'[Kind(c)] : out'[Kind(c)][name].by = c} BY <1>5 DEF Mine
    <2> QED BY <2>1, <2>2, <2>3, <2>4
  <1>7. c \in Singles => FailedStocks(c) = {} BY <1>1 DEF StocksInv, CommandInv
  <1>8. code'[c] = 0 => FailedStocks(c) = {} BY <1>2
  <1>9. /\ code'[c] \in {0, 1} /\ (code'[c] = 1 => c \in Grids /\ FailedStocks(c) # {})
        /\ stage'[c] = "done"
    <2>1. stage' = [stage EXCEPT ![c] = "done"]
      <3>1. ~(at[c] < Len(Files(c))) BY <1>2, FilesOfAKind
      <3> QED BY <3>1 DEF CloseFile, Exits, GoesTo
    <2>2. stage'[c] = "done" BY <2>1 DEF WriteInv, Typed
    <2> QED BY <1>2, <1>7, <2>2 DEF Commands
  <1>10. Mine(c)' = {name \in DOMAIN out'[Kind(c)] : out'[Kind(c)][name].by = c} BY <1>5 DEF Mine
  <1> QED BY <1>1, <1>6, <1>8, <1>9, <1>10, WritesTells DEF CodeTells

LEMMA StepTells ==
  ASSUME WriteInv, StocksInv, [CommandNext]_commandVars, NEW c \in Commands,
         code[c] = Absent, code'[c] # Absent
  PROVE  CodeTells(c)
  <1>1. code' # code OBVIOUS
  <1>2. PICK d \in Commands : Start(d) \/ Report(d) \/ CloseFile(d) \/ WriteFails(d) \/ Break(d)
    BY <1>1 DEF CommandNext, commandVars, Stock, OpenFile, Hash, Change
  <1>3. \E exit : code' = [code EXCEPT ![d] = exit]
    BY <1>1, <1>2 DEF Start, Report, CloseFile, WriteFails, Break, Exits
  <1>4. d = c BY <1>3 DEF WriteInv, Typed
  <1>5. CASE Start(c)
    <2>1. stage[c] = "idle" /\ code' = [code EXCEPT ![c] = 2] /\ out' = out
      BY <1>1, <1>5 DEF Start, Exits
    <2>2. code'[c] = 2 BY <2>1 DEF WriteInv, Typed
    <2> QED BY <2>1, <2>2, RefusedTells DEF WriteInv, IdleWroteNone
  <1>6. CASE Report(c)
    <2>1. stage[c] = "work" /\ code' = [code EXCEPT ![c] = 2] /\ out' = out
      BY <1>1, <1>6 DEF Report, Exits
    <2>2. code'[c] = 2 BY <2>1 DEF WriteInv, Typed
    <2>3. \A i \in 1..Len(Files(c)) : ~By(c, i)
      <3>1. at[c] = 1 BY <2>1 DEF StocksInv, CommandInv
      <3> QED BY <2>1, <3>1 DEF WriteInv, WroteUpTo, Works
    <2> QED BY <2>1, <2>2, <2>3, RefusedTells
  <1>7. CASE CloseFile(c) BY <1>7, DoneTells
  <1>8. CASE WriteFails(c)
    <2>1. stage[c] \in {"write", "writing"} /\ code' = [code EXCEPT ![c] = 2] /\ out' = out
      BY <1>8 DEF WriteFails, Exits
    <2>2. code'[c] = 2 BY <2>1 DEF WriteInv, Typed
    <2> QED BY <2>1, <2>2, StoppedTells
  <1>9. CASE Break(c)
    <2>1. /\ stage[c] \in {"work", "write", "writing"} /\ out' = out
          /\ stage' = [stage EXCEPT ![c] = "broken"]
          /\ \E exit \in {Absent, 1} : code' = [code EXCEPT ![c] = exit]
      BY <1>9 DEF Break, GoesTo
    <2>2. code'[c] = 1 /\ stage'[c] = "broken" BY <2>1 DEF WriteInv, Typed
    <2>3. CASE stage[c] = "work"
      <3>1. at[c] = 1 BY <2>3 DEF StocksInv, CommandInv
      <3>2. \A i \in 1..Len(Files(c)) : ~By(c, i) BY <2>3, <3>1 DEF WriteInv, WroteUpTo, Works
      <3> QED BY <2>1, <2>2, <3>2, RefusedTells
    <2>4. CASE stage[c] \in {"write", "writing"} BY <2>1, <2>2, <2>4, StoppedTells
    <2> QED BY <2>1, <2>3, <2>4
  <1> QED BY <1>2, <1>4, <1>5, <1>6, <1>7, <1>8, <1>9

\* The exit code tells what is in the output folder, 0 that nothing failed, and 1 that a
\* stock or a model did or that there was a traceback, for any commands, options, changes
\* of the files, kills, failed writes and errors nobody expects (run.py, run; run_all.py,
\* run_all).
THEOREM CodesTell == CommandSpec => ExitCodeTells
  <1> DEFINE Tell == \A c \in Commands : code[c] = Absent /\ code'[c] # Absent => CodeTells(c)
  <1>1. CommandInit => WriteInv /\ StocksInv BY WriteInit, StocksInit
  <1>2. WriteInv /\ StocksInv /\ [CommandNext]_commandVars => WriteInv' /\ StocksInv'
    BY WriteStep, StocksStep
  <1>3. WriteInv /\ StocksInv /\ [CommandNext]_commandVars => [Tell]_commandVars BY StepTells
  <1>4. ExitCodeTells <=> [][Tell]_commandVars BY DEF ExitCodeTells, CodeTells
  <1> HIDE DEF Tell
  <1> QED BY <1>1, <1>2, <1>3, <1>4, PTL DEF CommandSpec

-----------------------------------------------------------------------------
\* What a command that ended names.

\* Only a stock that ran has a SHA-256; what was read, or hashed, is what is there
\* while no file changed.
KeptInv ==
    /\ changes \in Nat
    /\ \A c \in Commands, s \in Stocks :
           /\ place[c][s] # "ran" => hash[c][s] = Absent
           /\ changes = 0 => read[c][s] \in {Absent, data[s]} /\ hash[c][s] \in {Absent, data[s]}

Outcome(c) ==
    /\ code[c] = 0 <=> \A s \in Picked(c) : NamedOf(c, s) = {}
    /\ \A s \in Picked(c) :
           /\ read[c][s] = Absent => NamedOf(c, s) = {Absent}
           /\ read[c][s] # Absent =>
                  \A m \in Asked(c, read[c][s]) :
                      Backtested(c, s, m) <=> NamedOf(c, s) \cap {Absent, m} = {}
           /\ hash[c][s] \notin {Absent, read[c][s]} => changes > 0

EndInv == \A c \in Commands : CameToEnd(c) => Outcome(c)

LEMMA KeptInit ==
  ASSUME CommandInit
  PROVE  KeptInv
  <1>1. \A c \in Commands, s \in Stocks : read[c][s] = Absent /\ hash[c][s] = Absent
    BY DEF CommandInit
  <1> QED BY <1>1 DEF KeptInv, CommandInit

LEMMA KeptStep ==
  ASSUME StocksInv, KeptInv, [CommandNext]_commandVars
  PROVE  KeptInv'
  <1>1. ASSUME NEW c \in Commands, Stock(c) PROVE KeptInv'
    <2>1. PICK s \in Waiting(c) :
            /\ read' = [read EXCEPT ![c][s] = data[s]]
            /\ place' = [place EXCEPT ![c][s] = IF Unreadable(c, data[s]) THEN "failed" ELSE "read"]
      BY <1>1 DEF Stock
    <2>2. UNCHANGED <<data, changes, hash>> BY <1>1 DEF Stock
    <2>3. place[c][s] = "waiting" BY DEF Waiting
    <2>4. ASSUME NEW d \in Commands, NEW r \in Stocks
          PROVE  /\ place'[d][r] # "ran" => place[d][r] # "ran"
                 /\ read'[d][r] \in {read[d][r], data[r]}
      <3>1. CASE d = c /\ r = s BY <2>1, <2>3, <3>1 DEF StocksInv
      <3>2. CASE d # c \/ r # s
        <4>1. place'[d][r] = place[d][r] BY <2>1, <3>2 DEF StocksInv
        <4>2. read'[d][r] = read[d][r] BY <2>1, <3>2 DEF StocksInv
        <4> QED BY <4>1, <4>2
      <3> QED BY <3>1, <3>2
    <2> QED BY <2>2, <2>4 DEF KeptInv
  <1>2. ASSUME NEW c \in Commands, NEW s \in Stocks, Hash(c, s) PROVE KeptInv'
    <2>1. /\ hash' = [hash EXCEPT ![c][s] = data[s]]
          /\ place' = [place EXCEPT ![c][s] = IF data[s] = Absent THEN "failed" ELSE "ran"]
          /\ UNCHANGED <<data, changes, read>>
      BY <1>2 DEF Hash
    <2>2. /\ hash'[c][s] = data[s]
          /\ place'[c][s] = IF data[s] = Absent THEN "failed" ELSE "ran"
      BY <2>1 DEF StocksInv
    <2>3. ASSUME NEW d \in Commands, NEW r \in Stocks, d # c \/ r # s
          PROVE  hash'[d][r] = hash[d][r] /\ place'[d][r] = place[d][r]
      BY <2>1, <2>3 DEF StocksInv
    <2> QED BY <2>1, <2>2, <2>3 DEF KeptInv
  <1>3. ASSUME NEW s \in Stocks, Change(s) PROVE KeptInv'
    <2>1. changes' = changes + 1 /\ UNCHANGED <<place, read, hash>> BY <1>3 DEF Change
    <2> QED BY <2>1 DEF KeptInv
  <1>4. CASE UNCHANGED <<data, changes, place, read, hash>> BY <1>4 DEF KeptInv
  <1> QED BY <1>1, <1>2, <1>3, <1>4 DEF CommandNext, commandVars, Start, Report, OpenFile, CloseFile,
          WriteFails, Break

\* What a command that ended has stays as it is.
LEMMA OutcomeStays ==
  ASSUME NEW c, Outcome(c), code'[c] = code[c], args'[c] = args[c], place'[c] = place[c],
         read'[c] = read[c], hash'[c] = hash[c], changes > 0 => changes' > 0
  PROVE  Outcome(c)'
  <1>1. Picked(c)' = Picked(c) BY DEF Picked
  <1>2. \A s : Asked(c, read[c][s])' = Asked(c, read[c][s]) BY DEF Asked
  <1>3. \A s : NamedOf(c, s)' = NamedOf(c, s) BY <1>2 DEF NamedOf
  <1>4. \A s, m : Backtested(c, s, m)' <=> Backtested(c, s, m) BY DEF Backtested
  <1> QED BY <1>1, <1>2, <1>3, <1>4 DEF Outcome

\* Of each stock it picked it has the results, or names it or a model of it.
LEMMA StockIsNamed ==
  ASSUME StocksInv, KeptInv, NEW c \in Commands, stage[c] = "writing", NEW s \in Picked(c)
  PROVE  /\ NamedOf(c, s) = {} <=> s \notin FailedStocks(c)
         /\ read[c][s] = Absent => NamedOf(c, s) = {Absent}
         /\ read[c][s] # Absent =>
                \A m \in Asked(c, read[c][s]) :
                    Backtested(c, s, m) <=> NamedOf(c, s) \cap {Absent, m} = {}
         /\ hash[c][s] \notin {Absent, read[c][s]} => changes > 0
  <1>1. CommandInv(c) /\ Works(c) BY DEF StocksInv, Works
  <1>2. s \in Stocks BY <1>1, PickedAreStocks
  <1>3. CASE place[c][s] = "failed"
    <2>1. NamedOf(c, s) = {Absent} /\ s \in FailedStocks(c) BY <1>3 DEF NamedOf, FailedStocks
    <2>2. hash[c][s] = Absent BY <1>2, <1>3 DEF KeptInv
    <2>3. \A m : ~Backtested(c, s, m) BY <2>2 DEF Backtested
    <2> QED BY <2>1, <2>2, <2>3
  <1>4. CASE place[c][s] = "ran"
    <2>1. ~Unreadable(c, read[c][s]) /\ hash[c][s] # Absent BY <1>1, <1>2, <1>4 DEF CommandInv
    <2>2. read[c][s] # Absent /\ ~read[c][s].refused BY <2>1 DEF Unreadable
    <2>3. NamedOf(c, s) = Asked(c, read[c][s]) \ read[c][s].good BY <1>4 DEF NamedOf
    <2>4. Asked(c, read[c][s]) \subseteq Nat
      <3>1. read[c][s] \in Contents BY <1>2, <2>2 DEF StocksInv, Inputs
      <3>2. args[c].models \in ModelChoices BY <1>1 DEF CommandInv
      <3> QED BY <3>1, <3>2, RunCommandsAssumption DEF Asked
    <2>5. Absent \notin Asked(c, read[c][s]) BY <2>4, RunCommandsAssumption
    <2>6. \A m \in Asked(c, read[c][s]) : Backtested(c, s, m) <=> m \in read[c][s].good
      BY <2>1, <2>2 DEF Backtested, Asked
    <2>7. s \in FailedStocks(c) <=> ~(Asked(c, read[c][s]) \subseteq read[c][s].good)
      BY <1>4 DEF FailedStocks
    <2>8. hash[c][s] # read[c][s] => changes > 0 BY <1>2, <2>1, <2>2 DEF KeptInv
    <2> QED BY <2>2, <2>3, <2>5, <2>6, <2>7, <2>8
  <1> QED BY <1>1, <1>3, <1>4 DEF CommandInv

LEMMA EndIsNamed ==
  ASSUME WriteInv, StocksInv, KeptInv, NEW c \in Commands, CloseFile(c), code'[c] # code[c]
  PROVE  Outcome(c)'
  <1>1. stage[c] = "writing" /\ UNCHANGED <<changes, args, place, read, hash>> BY DEF CloseFile
  <1>2. code' = [code EXCEPT ![c] = IF FailedStocks(c) = {} THEN 0 ELSE 1]
    BY DEF CloseFile, Exits
  <1>3. code'[c] = 0 <=> FailedStocks(c) = {} BY <1>2 DEF WriteInv, Typed
  <1>4. FailedStocks(c) \subseteq Picked(c) BY DEF FailedStocks
  <1>5. Picked(c)' = Picked(c) BY <1>1 DEF Picked
  <1>6. \A s : Asked(c, read[c][s])' = Asked(c, read[c][s]) BY <1>1 DEF Asked
  <1>7. \A s : NamedOf(c, s)' = NamedOf(c, s) BY <1>1, <1>6 DEF NamedOf
  <1>8. \A s, m : Backtested(c, s, m)' <=> Backtested(c, s, m) BY <1>1 DEF Backtested
  <1>9. code'[c] = 0 <=> \A s \in Picked(c) : NamedOf(c, s) = {}
    BY <1>1, <1>3, <1>4, StockIsNamed
  <1> QED BY <1>1, <1>5, <1>6, <1>7, <1>8, <1>9, StockIsNamed DEF Outcome

LEMMA EndStep ==
  ASSUME WriteInv, StocksInv, KeptInv, EndInv, [CommandNext]_commandVars
  PROVE  EndInv'
  <1> SUFFICES ASSUME NEW c \in Commands, CameToEnd(c)' PROVE Outcome(c)'
    BY DEF EndInv
  <1>1. ASSUME code'[c] = code[c] PROVE Outcome(c)'
    <2>1. code[c] \in {0, 1} /\ code[c] # Absent /\ stage'[c] = "done"
      BY <1>1, RunCommandsAssumption DEF CameToEnd
    <2>5. stage[c] \in {"done", "broken"} BY <2>1 DEF WriteInv, CodesComeLast
    <2>6. stage'[c] = stage[c]
      <3>1. ASSUME NEW d \in Commands,
                   \/ Start(d) \/ Report(d) \/ OpenFile(d) \/ CloseFile(d) \/ WriteFails(d) \/ Break(d)
            PROVE  stage'[c] = stage[c]
        <4>1. d # c BY <2>5, <3>1 DEF Start, Report, OpenFile, CloseFile, WriteFails, Break
        <4>2. \E where : stage' = [stage EXCEPT ![d] = where]
          BY <3>1 DEF Start, Report, OpenFile, CloseFile, WriteFails, Break, GoesTo, Exits
        <4> QED BY <4>1, <4>2 DEF WriteInv, Typed
      <3>2. CASE UNCHANGED stage BY <3>2
      <3> QED BY <3>1, <3>2 DEF CommandNext, commandVars, Stock, Hash, Change
    <2>7. Outcome(c) BY <2>1, <2>6 DEF EndInv, CameToEnd
    <2>2. stage[c] = "done" BY <2>1, <2>6
    <2>3. changes > 0 => changes' > 0
      <3>1. changes' \in {changes, changes + 1}
        BY DEF CommandNext, commandVars, Start, Stock, Report, OpenFile, CloseFile, WriteFails, Break,
               Hash, Change
      <3> QED BY <3>1 DEF KeptInv
    <2>4. /\ args'[c] = args[c] /\ place'[c] = place[c]
          /\ read'[c] = read[c] /\ hash'[c] = hash[c]
      <3>1. ASSUME NEW d \in Commands, Start(d)
            PROVE  args'[c] = args[c] /\ UNCHANGED <<place, read, hash>>
        BY <2>2, <3>1 DEF Start, StocksInv
      <3>2. ASSUME NEW d \in Commands, Stock(d)
            PROVE  place'[c] = place[c] /\ read'[c] = read[c] /\ UNCHANGED <<args, hash>>
        BY <2>2, <3>2 DEF Stock, StocksInv
      <3>3. ASSUME NEW d \in Commands, NEW s \in Stocks, Hash(d, s)
            PROVE  place'[c] = place[c] /\ hash'[c] = hash[c] /\ UNCHANGED <<args, read>>
        BY <2>2, <3>3 DEF Hash, StocksInv
      <3>4. CASE UNCHANGED <<args, place, read, hash>> BY <3>4
      <3> QED BY <3>1, <3>2, <3>3, <3>4 DEF CommandNext, commandVars, Report, OpenFile, CloseFile,
              WriteFails, Break, Change
    <2> QED BY <1>1, <2>7, <2>3, <2>4, OutcomeStays
  <1>2. ASSUME code'[c] # code[c] PROVE Outcome(c)'
    <2>1. PICK d \in Commands : Start(d) \/ Report(d) \/ CloseFile(d) \/ WriteFails(d) \/ Break(d)
      BY <1>2 DEF CommandNext, commandVars, Stock, OpenFile, Hash, Change
    <2>2. \E exit : code' = [code EXCEPT ![d] = exit] /\ (exit = 2 \/ CloseFile(d) \/ Break(d))
      BY <1>2, <2>1 DEF Start, Report, CloseFile, WriteFails, Exits, Break
    <2>3. d = c BY <1>2, <2>2 DEF WriteInv, Typed
    <2>5. ~Break(c)
      <3>1. Break(c) => stage'[c] = "broken" BY DEF Break, GoesTo, WriteInv, Typed
      <3> QED BY <3>1 DEF CameToEnd
    <2>4. CloseFile(c) BY <2>2, <2>3, <2>5 DEF WriteInv, Typed, CameToEnd
    <2> QED BY <1>2, <2>4, EndIsNamed
  <1> QED BY <1>1, <1>2

\* Every stock a run-all that came to its end looked at, and every model asked for of it, has
\* results or is named as failed, never both; the exit code is 0 if nothing is, and a
\* SHA-256 that is not of what was read means that a file changed; for any stocks,
\* files, options, changes, kills and failed writes (run_all.py, run_all).
THEOREM OutcomesAreAlwaysNamed == CommandSpec => []OutcomesAreNamed
  <1>1. CommandInit => WriteInv /\ StocksInv /\ KeptInv BY WriteInit, StocksInit, KeptInit
  <1>2. CommandInit => EndInv BY DEF CommandInit, EndInv, CameToEnd
  <1>3. /\ WriteInv /\ StocksInv /\ KeptInv /\ EndInv /\ [CommandNext]_commandVars
        => WriteInv' /\ StocksInv' /\ KeptInv' /\ EndInv'
    BY WriteStep, StocksStep, KeptStep, EndStep
  <1>4. EndInv => OutcomesAreNamed BY DEF EndInv, Outcome, OutcomesAreNamed, Commands
  <1> QED BY <1>1, <1>2, <1>3, <1>4, PTL DEF CommandSpec
=============================================================================
