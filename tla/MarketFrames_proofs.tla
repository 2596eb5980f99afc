------------------------ MODULE MarketFrames_proofs ------------------------
(***************************************************************************)
(* Proofs about MarketFrames, for any number of processes, searches and    *)
(* instruments and any clock: refreshes nobody came between hold the lock, *)
(* so there is one of them, and what its second look saw stays true of     *)
(* Redis until it stores its frame; a table ends with its oldest row; and  *)
(* while nothing fails a refresh carries over every row it should.         *)
(***************************************************************************)
EXTENDS MarketFrames, WellFoundedInduction, TLAPS

\* TypeOK without the tables.
Types ==
    /\ now \in Times
    /\ stored \in Frames \cup {None}
    /\ lock \in Procs \cup {Dead, None}
    /\ entry \in [Procs -> Frames \cup {None}]
    /\ pc \in [Tasks -> Pcs]
    /\ after \in [Tasks -> {"lock", "fetch", "table"}]
    /\ got \in [Tasks -> Frames \cup {None}]
    /\ began \in [Tasks -> Times]
    /\ frame \in [Procs -> Frames \cup {None}]
    /\ alone \subseteq Procs
    /\ faults \in 0 .. MaxFaults

\* A task that decodes has something to decode.
GotSomething == \A t \in Tasks : pc[t] = "decode" => got[t] # None

\* A refresh nobody came between runs under its own lock.
AloneHolds == \A j \in alone : j \in Refreshing /\ lock = j

\* The frame in Redis is missing, too old or stale for the refresh.
StaleFor(j) == stored # None => Old(stored.at) \/ began[j] >= stored.at + RefreshAfter

\* What the second look saw of Redis stays true while nobody comes between.
SecondLook ==
    \A j \in alone :
        /\ pc[j] = "decode" => stored \in {None, got[j]}
        /\ pc[j] \in {"fetch", "store"} => StaleFor(j)
        /\ pc[j] = "store" => frame[j] # None /\ frame[j].at = began[j]

LEMMA Constants ==
    /\ Procs \subseteq Tasks /\ Readers \subseteq Tasks
    /\ \A t \in Procs : t \notin Readers /\ Home(t) = t /\ t # None /\ t # Dead
    /\ \A t \in Readers : t \notin Procs /\ ProcOf[t] \in Procs
    /\ \A t \in Tasks : Home(t) \in Procs
    /\ Dead # None
    /\ None \notin Nat
    /\ RefreshAfter \in Nat /\ Keep \in Nat /\ MaxNow \in Nat /\ MaxFaults \in Nat
BY MarketFramesAssumption DEF Home, Tasks

\* Where the look of a task ends.
LEMMA LookEnds ==
    ASSUME Types, NEW t \in Tasks, NEW f \in Frames \cup {None}, Looked(t, f)
    PROVE  \E place \in Pcs :
             /\ pc' = [pc EXCEPT ![t] = place]
             /\ place \in {"table", "lock", "fetch", "unlock", "idle"}
             /\ t \in Procs /\ after[t] = "fetch" => place \in {"fetch", "unlock"}
             /\ place \in {"fetch", "unlock"} => /\ t \in Procs /\ after[t] = "fetch"
                                                 /\ began' = began
             /\ place = "fetch" /\ f # None => began[t] >= f.at + RefreshAfter
             /\ began' \in [Tasks -> Times]
             /\ \A u \in Tasks : u # t => began'[u] = began[u]
<1> DEFINE place == IF t \in Readers THEN "table"
                    ELSE Onwards(t, f # None => began[t] >= f.at + RefreshAfter)
<1>1. /\ pc' = [pc EXCEPT ![t] = place]
      /\ began' = [began EXCEPT ![t] = IF place = "idle" THEN 0 ELSE @]
  BY DEF Looked, Goto
<1>2. after[t] \in {"lock", "fetch", "table"}
  BY DEF Types
<1>3. /\ place \in {"table", "lock", "fetch", "unlock", "idle"}
      /\ t \in Procs /\ after[t] = "fetch" => place \in {"fetch", "unlock"}
      /\ place \in {"fetch", "unlock"} => t \in Procs /\ after[t] = "fetch"
      /\ place = "fetch" /\ f # None => began[t] >= f.at + RefreshAfter
  BY <1>2, Constants DEF Onwards, Tasks
<1> HIDE DEF place
<1>4. /\ began' \in [Tasks -> Times]
      /\ \A u \in Tasks : u # t => began'[u] = began[u]
      /\ place # "idle" => began' = began
  BY <1>1, Constants DEF Types, Times
<1>5. place \in Pcs
  BY <1>3 DEF Pcs
<1> QED
  BY <1>1, <1>3, <1>4, <1>5

LEMMA MergedType ==
    ASSUME Types, NEW j \in Procs, NEW failed \in SUBSET Symbols
    PROVE  Merged(j, failed) \in Frames /\ Merged(j, failed).at = began[j]
<1>1. entry[j] \in Frames \cup {None} /\ began[j] \in Times
  BY Constants DEF Types
<1>2. Young(entry[j]) \in [Symbols -> Times \cup {None}]
  BY <1>1 DEF Young, Frames
<1> QED
  BY <1>1, <1>2 DEF Merged, Frames

-----------------------------------------------------------------------------
(***************************************************************************)
(* The types, one action at a time.                                        *)
(***************************************************************************)
LEMMA TypesStep == Types /\ GotSomething /\ [Next]_vars => (Types /\ GotSomething)'
<1> SUFFICES ASSUME Types, GotSomething, [Next]_vars PROVE (Types /\ GotSomething)'
  OBVIOUS
<1> USE Constants DEF redis, memory, local, Smooth, Fault
<1>1. ASSUME NEW t \in Tasks, Head(t) PROVE (Types /\ GotSomething)'
  <2>1. entry[Home(t)] \in Frames \cup {None}
    BY DEF Types
  <2>2. CASE Goto(t, "get")
    BY <1>1, <2>2 DEF Head, Goto, Types, GotSomething, Pcs
  <2>3. CASE Looked(t, entry[Home(t)])
    BY <1>1, <2>1, <2>3, LookEnds DEF Head, Types, GotSomething
  <2> QED
    BY <1>1, <2>2, <2>3 DEF Head
<1>2. ASSUME NEW t \in Tasks, Get(t) PROVE (Types /\ GotSomething)'
  <2>1. entry[Home(t)] \in Frames \cup {None}
    BY DEF Types
  <2>2. CASE stored # None /\ got' = [got EXCEPT ![t] = stored] /\ Goto(t, "decode") /\ Smooth
    BY <1>2, <2>2 DEF Get, Goto, Types, GotSomething, Pcs
  <2>3. CASE Looked(t, entry[Home(t)]) /\ UNCHANGED got
    BY <1>2, <2>1, <2>3, LookEnds DEF Get, Types, GotSomething
  <2> QED
    BY <1>2, <2>2, <2>3 DEF Get
<1>3. ASSUME NEW t \in Tasks, Decode(t) PROVE (Types /\ GotSomething)'
  <2>1. got[t] \in Frames \cup {None}
    BY DEF Types
  <2>2. Looked(t, got[t])
    BY <1>3 DEF Decode
  <2> QED
    BY <1>3, <2>1, <2>2, LookEnds DEF Decode, Adopt, Types, GotSomething
<1>4. ASSUME NEW j \in Procs, StartRefresh(j) PROVE (Types /\ GotSomething)'
  BY <1>4 DEF StartRefresh, StartAt, Types, GotSomething, Pcs
<1>5. ASSUME NEW j \in Procs, Lock(j) PROVE (Types /\ GotSomething)'
  BY <1>5 DEF Lock, Goto, Types, GotSomething, Pcs, Times
<1>6. ASSUME NEW j \in Procs, Fetch(j) PROVE (Types /\ GotSomething)'
  <2>1. frame' \in [Procs -> Frames \cup {None}]
    BY <1>6, MergedType DEF Fetch, Types
  <2> QED
    BY <1>6, <2>1 DEF Fetch, Goto, Types, GotSomething, Pcs
<1>7. ASSUME NEW j \in Procs, Store(j) PROVE (Types /\ GotSomething)'
  BY <1>7 DEF Store, Goto, Types, GotSomething, Pcs
<1>8. ASSUME NEW j \in Procs, Unlock(j) PROVE (Types /\ GotSomething)'
  BY <1>8 DEF Unlock, Unlocked, Orphaned, Goto, Types, GotSomething, Pcs, Times
<1>9. ASSUME NEW j \in Procs, AdoptFetched(j) PROVE (Types /\ GotSomething)'
  BY <1>9 DEF AdoptFetched, Adopt, Goto, Types, GotSomething, Pcs, Times
<1>10. ASSUME NEW r \in Readers, StartSearch(r) PROVE (Types /\ GotSomething)'
  BY <1>10 DEF StartSearch, Goto, Types, GotSomething, Pcs
<1>11. ASSUME NEW r \in Readers, ReadTable(r) PROVE (Types /\ GotSomething)'
  <2>1. entry' \in [Procs -> Frames \cup {None}]
    BY <1>11 DEF ReadTable, Types
  <2> QED
    BY <1>11, <2>1 DEF ReadTable, StartAt, Goto, Types, GotSomething, Pcs, Times
<1>12. ASSUME NEW r \in Readers, BuildTable(r) PROVE (Types /\ GotSomething)'
  BY <1>12 DEF BuildTable, Goto, Types, GotSomething, Pcs, Times
<1>13. ASSUME NEW p \in Procs, Crash(p) PROVE (Types /\ GotSomething)'
  BY <1>13 DEF Crash, Orphaned, Types, GotSomething, Pcs, Times
<1>14. CASE Tick \/ StoredExpires \/ LockExpires
  BY <1>14 DEF Tick, StoredExpires, LockExpires, Types, GotSomething, Times
<1>15. CASE UNCHANGED vars
  BY <1>15 DEF vars, Types, GotSomething
<1> QED
  BY <1>1, <1>2, <1>3, <1>4, <1>5, <1>6, <1>7, <1>8, <1>9, <1>10, <1>11, <1>12, <1>13,
     <1>14, <1>15 DEF Next

-----------------------------------------------------------------------------
(***************************************************************************)
(* The lock: only its holder gives it back, and a refresh that lost it is  *)
(* no longer alone.                                                        *)
(***************************************************************************)
LEMMA AloneStep == Types /\ AloneHolds /\ [Next]_vars => AloneHolds'
<1> SUFFICES ASSUME Types, AloneHolds, [Next]_vars,
                    NEW j \in alone'
             PROVE  j \in Refreshing' /\ lock' = j
  BY DEF AloneHolds
<1> USE Constants DEF redis, memory, local, Smooth, Fault, Refreshing, AloneHolds, Types
<1>1. ASSUME NEW t \in Tasks, Head(t) PROVE j \in Refreshing' /\ lock' = j
  <2>1. entry[Home(t)] \in Frames \cup {None}
    OBVIOUS
  <2>2. CASE Goto(t, "get")
    BY <1>1, <2>2 DEF Head, Goto
  <2>3. CASE Looked(t, entry[Home(t)])
    BY <1>1, <2>1, <2>3, LookEnds DEF Head
  <2> QED
    BY <1>1, <2>2, <2>3 DEF Head
<1>2. ASSUME NEW t \in Tasks, Get(t) PROVE j \in Refreshing' /\ lock' = j
  <2>1. entry[Home(t)] \in Frames \cup {None}
    OBVIOUS
  <2>2. CASE Goto(t, "decode") /\ Smooth
    BY <1>2, <2>2 DEF Get, Goto
  <2>3. CASE Looked(t, entry[Home(t)])
    BY <1>2, <2>1, <2>3, LookEnds DEF Get
  <2> QED
    BY <1>2, <2>2, <2>3 DEF Get
<1>3. ASSUME NEW t \in Tasks, Decode(t) PROVE j \in Refreshing' /\ lock' = j
  <2>1. got[t] \in Frames \cup {None} /\ Looked(t, got[t])
    BY <1>3 DEF Decode
  <2> QED
    BY <1>3, <2>1, LookEnds DEF Decode
<1>4. ASSUME NEW i \in Procs, StartRefresh(i) \/ Lock(i) \/ Fetch(i) \/ Store(i)
      PROVE j \in Refreshing' /\ lock' = j
  BY <1>4 DEF StartRefresh, StartAt, Lock, Fetch, Store, Goto
<1>5. ASSUME NEW i \in Procs, Unlock(i) \/ AdoptFetched(i)
      PROVE j \in Refreshing' /\ lock' = j
  BY <1>5 DEF Unlock, Unlocked, Orphaned, AdoptFetched, Goto
<1>6. ASSUME NEW r \in Readers, StartSearch(r) \/ ReadTable(r) \/ BuildTable(r)
      PROVE j \in Refreshing' /\ lock' = j
  BY <1>6 DEF StartSearch, ReadTable, BuildTable, StartAt, Goto
<1>7. ASSUME NEW p \in Procs, Crash(p) PROVE j \in Refreshing' /\ lock' = j
  BY <1>7 DEF Crash, Orphaned
<1>8. CASE Tick \/ StoredExpires \/ LockExpires
  BY <1>8 DEF Tick, StoredExpires, LockExpires
<1>9. CASE UNCHANGED vars
  BY <1>9 DEF vars
<1> QED
  BY <1>1, <1>2, <1>3, <1>4, <1>5, <1>6, <1>7, <1>8, <1>9 DEF Next

\* Two refreshes cannot both hold the lock.
LEMMA OneHolds == AloneHolds => OneRefreshAtATime
BY DEF AloneHolds, OneRefreshAtATime

-----------------------------------------------------------------------------
(***************************************************************************)
(* The second look: between it and the storing of the frame, Redis keeps a *)
(* frame this refresh may replace, since another refresh that stores one   *)
(* has come between.                                                       *)
(***************************************************************************)
LEMMA LookStep ==
    Types /\ GotSomething /\ AloneHolds /\ SecondLook /\ [Next]_vars => SecondLook'
<1> SUFFICES ASSUME Types, GotSomething, AloneHolds, SecondLook, [Next]_vars,
                    NEW j \in alone'
             PROVE  /\ pc'[j] = "decode" => stored' \in {None, got'[j]}
                    /\ pc'[j] \in {"fetch", "store"} => StaleFor(j)'
                    /\ pc'[j] = "store" => frame'[j] # None /\ frame'[j].at = began'[j]
  BY DEF SecondLook
<1> DEFINE Goal == /\ pc'[j] = "decode" => stored' \in {None, got'[j]}
                   /\ pc'[j] \in {"fetch", "store"} => StaleFor(j)'
                   /\ pc'[j] = "store" => frame'[j] # None /\ frame'[j].at = began'[j]
<1> USE Constants DEF redis, memory, local, Smooth, Fault, AloneHolds, SecondLook
<1>0. j \in Procs /\ j \in Tasks
  <2>1. Types'
    BY TypesStep
  <2> QED
    BY <2>1 DEF Types
<1>1. ASSUME NEW t \in Tasks, Head(t) PROVE Goal
  <2>1. entry[Home(t)] \in Frames \cup {None} /\ stored \in Frames \cup {None}
    BY DEF Types
  <2>2. CASE Goto(t, "get")
    BY <1>0, <1>1, <2>2 DEF Head, Goto, Types, StaleFor, Old
  <2>3. CASE Looked(t, entry[Home(t)])
    <3>1. CASE j # t
      BY <1>0, <1>1, <2>1, <2>3, <3>1, LookEnds DEF Head, Types, StaleFor, Old
    <3>2. CASE j = t
      <4>1. j \in alone /\ Home(t) = t
        BY <1>0, <1>1, <3>2 DEF Head
      <4>2. ~(/\ stored # None
              /\ entry[t] # None => stored.at > entry[t].at
              /\ ~Old(stored.at))
        BY <1>1, <3>2, <4>1, <2>3, LookEnds, <2>1 DEF Head, Types, Goto
      <4>3. PICK place \in Pcs :
              /\ pc' = [pc EXCEPT ![t] = place]
              /\ place \in {"table", "lock", "fetch", "unlock", "idle"}
              /\ place = "fetch" => began' = began
              /\ place = "fetch" /\ entry[t] # None => began[t] >= entry[t].at + RefreshAfter
        BY <2>1, <2>3, <4>1, LookEnds
      <4>4. pc'[j] = place
        BY <1>0, <3>2, <4>3 DEF Types
      <4>5. place = "fetch" => StaleFor(j)'
        <5> SUFFICES ASSUME place = "fetch", stored # None, ~Old(stored.at)
                     PROVE  began[t] >= stored.at + RefreshAfter
          BY <1>1, <3>2, <4>3 DEF Head, StaleFor, Old
        <5>1. entry[t] # None /\ ~(stored.at > entry[t].at)
          BY <4>2
        <5>2. entry[t] \in Frames /\ stored \in Frames /\ began[t] \in Times
          BY <5>1, <2>1, <4>1 DEF Types
        <5>3. entry[t].at \in Nat /\ stored.at \in Nat /\ began[t] \in Nat
          BY <5>2 DEF Frames, Times
        <5> QED
          BY <5>1, <5>3, <4>3
      <4> QED
        BY <4>3, <4>4, <4>5
    <3> QED
      BY <3>1, <3>2
  <2> QED
    BY <1>1, <2>2, <2>3 DEF Head
<1>2. ASSUME NEW t \in Tasks, Get(t) PROVE Goal
  <2>1. entry[Home(t)] \in Frames \cup {None} /\ stored \in Frames \cup {None}
    BY DEF Types
  <2>2. CASE got' = [got EXCEPT ![t] = stored] /\ Goto(t, "decode") /\ Smooth
    BY <1>0, <1>2, <2>2 DEF Get, Goto, Types, StaleFor, Old
  <2>3. CASE /\ Looked(t, entry[Home(t)])
             /\ IF stored = None THEN Smooth ELSE Fault /\ alone' = alone \ {t}
             /\ UNCHANGED got
    BY <1>0, <1>2, <2>1, <2>3, LookEnds DEF Get, Types, StaleFor, Old
  <2> QED
    BY <1>2, <2>2, <2>3 DEF Get
<1>3. ASSUME NEW t \in Tasks, Decode(t) PROVE Goal
  <2>1. got[t] \in Frames /\ Looked(t, got[t])
    BY <1>3 DEF Decode, Types, GotSomething
  <2>2. CASE j # t
    BY <1>0, <1>3, <2>1, <2>2, LookEnds DEF Decode, Types, StaleFor, Old
  <2>3. CASE j = t
    <3>1. stored \in {None, got[t]}
      BY <1>3, <2>3 DEF Decode
    <3> QED
      BY <1>0, <1>3, <2>1, <2>3, <3>1, LookEnds, MarketFramesAssumption
      DEF Decode, Types, StaleFor, Old
  <2> QED
    BY <2>2, <2>3
<1>4. ASSUME NEW i \in Procs, StartRefresh(i) \/ Lock(i) PROVE Goal
  BY <1>0, <1>4 DEF StartRefresh, StartAt, Lock, Goto, Types, StaleFor, Old
<1>5. ASSUME NEW i \in Procs, Fetch(i) PROVE Goal
  <2>1. CASE /\ \E failed \in SUBSET Symbols :
                   frame' = [frame EXCEPT ![i] = Merged(i, failed)]
             /\ Goto(i, "store")
    <3>1. PICK failed \in SUBSET Symbols :
            frame' = [frame EXCEPT ![i] = Merged(i, failed)]
      BY <2>1
    <3>2. Merged(i, failed) # None /\ Merged(i, failed).at = began[i]
      BY MergedType, <3>1, MarketFramesAssumption
    <3> QED
      BY <1>0, <1>5, <2>1, <3>1, <3>2 DEF Fetch, Goto, Types, StaleFor, Old
  <2>2. CASE Goto(i, "unlock") /\ UNCHANGED frame
    BY <1>0, <1>5, <2>2 DEF Fetch, Goto, Types, StaleFor, Old
  <2> QED
    BY <1>5, <2>1, <2>2 DEF Fetch
<1>6. ASSUME NEW i \in Procs, Store(i) PROVE Goal
  <2>1. CASE i = j
    BY <1>0, <1>6, <2>1 DEF Store, Goto, Types
  <2>2. CASE i # j
    <3>1. j \in alone /\ i \notin alone /\ j \in Refreshing
      BY <1>0, <1>6, <2>2 DEF Store
    <3>2. FALSE
      BY <1>6, <3>1 DEF Store
    <3> QED
      BY <3>2
  <2> QED
    BY <2>1, <2>2
<1>7. ASSUME NEW i \in Procs, Unlock(i) \/ AdoptFetched(i) PROVE Goal
  BY <1>0, <1>7 DEF Unlock, AdoptFetched, Adopt, Goto, Types, StaleFor, Old
<1>8. ASSUME NEW r \in Readers, StartSearch(r) \/ ReadTable(r) \/ BuildTable(r) PROVE Goal
  BY <1>0, <1>8 DEF StartSearch, ReadTable, BuildTable, StartAt, Goto, Types, StaleFor, Old
<1>9. ASSUME NEW p \in Procs, Crash(p) PROVE Goal
  BY <1>0, <1>9 DEF Crash, Types, StaleFor, Old
<1>10. CASE Tick
  BY <1>0, <1>10 DEF Tick, Types, StaleFor, Old, Times, Frames
<1>11. CASE StoredExpires \/ LockExpires
  <2>1. CASE StoredExpires
    BY <1>0, <2>1 DEF StoredExpires, Types, StaleFor
  <2>2. CASE LockExpires
    <3>1. j \in alone /\ UNCHANGED <<now, stored, memory, pc, began, local>>
      BY <2>2 DEF LockExpires
    <3> QED
      BY <3>1 DEF StaleFor, Old
  <2> QED
    BY <1>11, <2>1, <2>2
<1>12. CASE UNCHANGED vars
  BY <1>0, <1>12 DEF vars, StaleFor, Old
<1> QED
  BY <1>1, <1>2, <1>3, <1>4, <1>5, <1>6, <1>7, <1>8, <1>9, <1>10, <1>11, <1>12 DEF Next

-----------------------------------------------------------------------------
(***************************************************************************)
(* The lock is that of a refresh that runs, or of nobody any more.         *)
(***************************************************************************)
LockHeld == lock \in Procs => lock \in Refreshing

LEMMA LockStep == Types /\ LockHeld /\ [Next]_vars => LockHeld'
<1> SUFFICES ASSUME Types, LockHeld, [Next]_vars, lock' \in Procs
             PROVE  lock' \in Refreshing'
  BY DEF LockHeld
<1> USE Constants DEF redis, memory, local, Smooth, Fault, Refreshing, LockHeld, Types
<1>1. ASSUME NEW t \in Tasks, Head(t) PROVE lock' \in Refreshing'
  <2>1. entry[Home(t)] \in Frames \cup {None}
    OBVIOUS
  <2>2. CASE Goto(t, "get")
    BY <1>1, <2>2 DEF Head, Goto
  <2>3. CASE Looked(t, entry[Home(t)])
    BY <1>1, <2>1, <2>3, LookEnds DEF Head
  <2> QED
    BY <1>1, <2>2, <2>3 DEF Head
<1>2. ASSUME NEW t \in Tasks, Get(t) PROVE lock' \in Refreshing'
  <2>1. entry[Home(t)] \in Frames \cup {None}
    OBVIOUS
  <2>2. CASE Goto(t, "decode") /\ Smooth
    BY <1>2, <2>2 DEF Get, Goto
  <2>3. CASE Looked(t, entry[Home(t)])
    BY <1>2, <2>1, <2>3, LookEnds DEF Get
  <2> QED
    BY <1>2, <2>2, <2>3 DEF Get
<1>3. ASSUME NEW t \in Tasks, Decode(t) PROVE lock' \in Refreshing'
  <2>1. got[t] \in Frames \cup {None} /\ Looked(t, got[t])
    BY <1>3 DEF Decode
  <2> QED
    BY <1>3, <2>1, LookEnds DEF Decode
<1>4. ASSUME NEW i \in Procs, StartRefresh(i) \/ Lock(i) \/ Fetch(i) \/ Store(i)
      PROVE lock' \in Refreshing'
  BY <1>4 DEF StartRefresh, StartAt, Lock, Fetch, Store, Goto
<1>5. ASSUME NEW i \in Procs, Unlock(i) \/ AdoptFetched(i)
      PROVE lock' \in Refreshing'
  BY <1>5 DEF Unlock, Unlocked, Orphaned, AdoptFetched, Goto
<1>6. ASSUME NEW r \in Readers, StartSearch(r) \/ ReadTable(r) \/ BuildTable(r)
      PROVE lock' \in Refreshing'
  BY <1>6 DEF StartSearch, ReadTable, BuildTable, StartAt, Goto
<1>7. ASSUME NEW p \in Procs, Crash(p) PROVE lock' \in Refreshing'
  BY <1>7 DEF Crash, Orphaned, Home
<1>8. CASE Tick \/ StoredExpires \/ LockExpires
  BY <1>8 DEF Tick, StoredExpires, LockExpires
<1>9. CASE UNCHANGED vars
  BY <1>9 DEF vars
<1> QED
  BY <1>1, <1>2, <1>3, <1>4, <1>5, <1>6, <1>7, <1>8, <1>9 DEF Next

-----------------------------------------------------------------------------
(***************************************************************************)
(* The tables: each ends when the oldest of its rows does.                 *)
(***************************************************************************)
EndInTime(table_) ==
    \A s \in Symbols : table_.rows[s] # None => table_.until <= table_.rows[s] + Keep

TablesHold ==
    /\ table \in [Procs -> Tables \cup {None}]
    /\ \A p \in Procs : table[p] # None => EndInTime(table[p])

\* The order of the natural numbers, without a parameter.
Lower == {ss \in Nat \X Nat : ss[1] < ss[2]}

LEMMA LowerIsWellFounded == IsWellFoundedOn(Lower, Nat)
BY Zenon, NatLessThanWellFounded DEF OpToRel, Lower

\* The minimum that Until chooses is there.
LEMMA UntilEnds ==
    ASSUME NEW rows \in [Symbols -> Times \cup {None}]
    PROVE  /\ Until(rows) \in 0 .. MaxNow + Keep
           /\ \A s \in Symbols : rows[s] # None => Until(rows) <= rows[s] + Keep
<1> DEFINE times == {rows[s] : s \in Symbols} \ {None}
<1>1. times \subseteq Times /\ times \subseteq Nat
  BY DEF Times
<1>2. CASE times = {}
  BY <1>2, Constants DEF Until
<1>3. CASE times # {}
  <2>1. PICK t \in times : \A u \in times : ~(<<u, t>> \in Lower)
    BY <1>1, <1>3, WFMin, LowerIsWellFounded
  <2>2. \A u \in times : t <= u
    <3> SUFFICES ASSUME NEW u \in times PROVE t <= u
      OBVIOUS
    <3>1. u \in Nat /\ t \in Nat /\ ~(<<u, t>> \in Lower)
      BY <1>1, <2>1
    <3> HIDE DEF times
    <3> QED
      BY <3>1 DEF Lower
  <2>3. PICK m \in times : m = (CHOOSE x \in times : \A u \in times : x <= u) /\ \A u \in times : m <= u
    BY <2>2
  <2>4. Until(rows) = m + Keep
    BY <1>3, <2>3 DEF Until
  <2>5. m \in Times /\ Until(rows) \in 0 .. MaxNow + Keep
    BY <1>1, <2>3, <2>4, Constants DEF Times
  <2>6. \A s \in Symbols : rows[s] # None => rows[s] \in times /\ rows[s] \in Times
    OBVIOUS
  <2>7. \A s \in Symbols : rows[s] # None => m <= rows[s]
    BY <2>3, <2>6
  <2> HIDE DEF times
  <2>8. m \in Nat /\ \A s \in Symbols : rows[s] # None => rows[s] \in Nat
    BY <2>5, <2>6 DEF Times
  <2> QED
    BY <2>4, <2>5, <2>7, <2>8, Constants
<1> QED
  BY <1>2, <1>3

LEMMA TablesStep == Types /\ TablesHold /\ [Next]_vars => TablesHold'
<1> SUFFICES ASSUME Types, TablesHold, [Next]_vars PROVE TablesHold'
  OBVIOUS
<1> USE Constants DEF redis, memory, TablesHold
<1>1. CASE UNCHANGED table
  BY <1>1
<1>2. ASSUME NEW p \in Procs, table' = [table EXCEPT ![p] = None] PROVE TablesHold'
  BY <1>2
<1>3. ASSUME NEW t \in Tasks, Head(t) \/ Get(t) \/ Decode(t) PROVE TablesHold'
  BY <1>1, <1>2, <1>3 DEF Head, Get, Decode, Adopt
<1>4. ASSUME NEW j \in Procs, StartRefresh(j) \/ Lock(j) \/ Fetch(j) \/ Store(j) PROVE TablesHold'
  BY <1>1, <1>4 DEF StartRefresh, Lock, Fetch, Store
<1>5. ASSUME NEW j \in Procs, Unlock(j) \/ AdoptFetched(j) PROVE TablesHold'
  BY <1>1, <1>2, <1>5 DEF Unlock, AdoptFetched, Adopt
<1>6. ASSUME NEW r \in Readers, StartSearch(r) \/ ReadTable(r) PROVE TablesHold'
  BY <1>1, <1>6 DEF StartSearch, ReadTable
<1>7. ASSUME NEW r \in Readers, BuildTable(r) PROVE TablesHold'
  <2> DEFINE f == got[r]
             rows == [s \in Symbols |-> IF f = None \/ f.rows[s] = None
                                           \/ began[r] >= f.rows[s] + Keep
                                        THEN None ELSE f.rows[s]]
             built == [at |-> IF f = None THEN None ELSE f.at, rows |-> rows,
                       until |-> Until(rows)]
  <2>1. f \in Frames \cup {None}
    BY DEF Types, Tasks
  <2>2. rows \in [Symbols -> Times \cup {None}]
    BY <2>1 DEF Frames
  <2>3. built \in Tables /\ EndInTime(built)
    BY <2>1, <2>2, UntilEnds DEF Tables, EndInTime, Frames
  <2>4. table' = [table EXCEPT ![ProcOf[r]] = built]
    BY <1>7 DEF BuildTable
  <2> QED
    BY <2>3, <2>4
<1>8. ASSUME NEW p \in Procs, Crash(p) PROVE TablesHold'
  BY <1>2, <1>8 DEF Crash
<1>9. CASE Tick \/ StoredExpires \/ LockExpires \/ UNCHANGED vars
  BY <1>1, <1>9 DEF Tick, StoredExpires, LockExpires, vars
<1> QED
  BY <1>3, <1>4, <1>5, <1>6, <1>7, <1>8, <1>9 DEF Next

-----------------------------------------------------------------------------
(***************************************************************************)
(* As long as nothing fails: every refresh holds the lock, a process has   *)
(* no frame that is newer than the one in Redis, and a refresh that nobody *)
(* came between has the very one when it merges.                           *)
(***************************************************************************)
FramePlace == \A j \in Procs : frame[j] # None => pc[j] \in {"store", "unlock", "adopt"}

AllHold == \A j \in Refreshing : lock = j

\* What the second look of any refresh saw.
CalmLook ==
    \A j \in Procs :
        /\ pc[j] = "decode" /\ after[j] = "fetch" => stored \in {None, got[j]}
        /\ pc[j] \in {"fetch", "store"} => StaleFor(j)
        /\ pc[j] = "store" => frame[j] # None /\ frame[j].at = began[j]

\* A frame is too old, or the one in Redis, or one from before it.
Known(f) == f # None => Old(f.at) \/ (stored # None /\ (f.at < stored.at \/ f = stored))

AllKnown ==
    /\ \A p \in Procs : Known(entry[p]) /\ (pc[p] # "store" => Known(frame[p]))
    /\ \A t \in Tasks : Known(got[t])

\* No row is newer than its frame.
Below(f) == f # None => \A s \in Symbols : f.rows[s] # None => f.rows[s] <= f.at

AllBelow ==
    /\ Below(stored)
    /\ \A p \in Procs : Below(entry[p]) /\ Below(frame[p])
    /\ \A t \in Tasks : Below(got[t])

\* A frame has the rows of the one in Redis that are not too old, or newer ones.
Covers(f) ==
    \A s \in Symbols : Young(stored)[s] # None => f.rows[s] # None /\ f.rows[s] >= stored.rows[s]

HasStored ==
    \A j \in alone :
        /\ pc[j] = "fetch" /\ stored # None /\ ~Old(stored.at) => entry[j] = stored
        /\ pc[j] = "store" => Covers(frame[j])

CalmInv == FramePlace /\ (faults = 0 => AllHold /\ CalmLook /\ AllKnown /\ AllBelow /\ HasStored)

\* Nothing failed before, and nothing fails now.
LEMMA NoFault ==
    ASSUME Types, [Next]_vars, faults' = 0
    PROVE  faults = 0 /\ ~Fault
<1>1. ~Fault
  BY Constants DEF Fault, Types
<1>2. faults' = faults
  BY <1>1 DEF Next, Head, Get, Decode, StartRefresh, Lock, Fetch, Store, Unlock, AdoptFetched,
              StartSearch, ReadTable, BuildTable, Crash, Tick, StoredExpires, LockExpires, vars, Smooth
<1> QED
  BY <1>1, <1>2

LEMMA FramePlaceStep == Types /\ FramePlace /\ [Next]_vars => FramePlace'
<1> SUFFICES ASSUME Types, FramePlace, [Next]_vars, NEW j \in Procs, frame'[j] # None
             PROVE  pc'[j] \in {"store", "unlock", "adopt"}
  BY DEF FramePlace
<1> USE Constants DEF redis, memory, local, Types
<1>1. ASSUME NEW t \in Tasks, Head(t) \/ Get(t) \/ Decode(t)
      PROVE  pc'[j] \in {"store", "unlock", "adopt"}
  <2>1. UNCHANGED frame /\ pc[t] \in {"head", "get", "decode"} /\ \A u \in Tasks : u # t => pc'[u] = pc[u]
    BY <1>1 DEF Head, Get, Decode, Looked, Goto
  <2> QED
    BY <2>1 DEF FramePlace
<1>2. ASSUME NEW i \in Procs, StartRefresh(i) \/ Lock(i) \/ Fetch(i) \/ Store(i)
      PROVE  pc'[j] \in {"store", "unlock", "adopt"}
  BY <1>2 DEF StartRefresh, StartAt, Lock, Fetch, Store, Goto, FramePlace
<1>3. ASSUME NEW i \in Procs, Unlock(i) \/ AdoptFetched(i)
      PROVE  pc'[j] \in {"store", "unlock", "adopt"}
  BY <1>3 DEF Unlock, AdoptFetched, Goto, FramePlace
<1>4. ASSUME NEW r \in Readers, StartSearch(r) \/ ReadTable(r) \/ BuildTable(r)
      PROVE  pc'[j] \in {"store", "unlock", "adopt"}
  BY <1>4 DEF StartSearch, ReadTable, BuildTable, StartAt, Goto, FramePlace
<1>5. ASSUME NEW p \in Procs, Crash(p) PROVE pc'[j] \in {"store", "unlock", "adopt"}
  BY <1>5 DEF Crash, FramePlace
<1>6. CASE Tick \/ StoredExpires \/ LockExpires \/ UNCHANGED vars
  BY <1>6 DEF Tick, StoredExpires, LockExpires, vars, FramePlace
<1> QED
  BY <1>1, <1>2, <1>3, <1>4, <1>5, <1>6 DEF Next

LEMMA HoldStep == Types /\ AllHold /\ [Next]_vars /\ faults' = 0 => AllHold'
<1> SUFFICES ASSUME Types, AllHold, [Next]_vars, faults' = 0, NEW j \in Refreshing'
             PROVE  lock' = j
  BY DEF AllHold
<1>0. ~Fault
  BY NoFault
<1> USE Constants DEF redis, memory, local, Refreshing, AllHold, Types
<1>1. ASSUME NEW t \in Tasks, Head(t) \/ Get(t) \/ Decode(t) PROVE lock' = j
  <2>1. UNCHANGED <<lock, after>> /\ pc[t] \in {"head", "get", "decode"}
        /\ \A u \in Tasks : u # t => pc'[u] = pc[u]
    BY <1>1 DEF Head, Get, Decode, Looked, Goto
  <2>2. entry[Home(t)] \in Frames \cup {None} /\ got[t] \in Frames \cup {None}
    OBVIOUS
  <2>3. t \in Procs /\ pc'[t] \in {"fetch", "unlock"} => after[t] = "fetch"
    BY <1>1, <2>2, LookEnds DEF Head, Get, Decode, Goto
  <2>4. pc'[t] # "store"
    BY <1>1, <2>2, LookEnds DEF Head, Get, Decode, Goto
  <2> QED
    BY <2>1, <2>3, <2>4
<1>2. ASSUME NEW i \in Procs, StartRefresh(i) \/ Lock(i) \/ Fetch(i) \/ Store(i) PROVE lock' = j
  BY <1>0, <1>2 DEF StartRefresh, StartAt, Lock, Fetch, Store, Goto
<1>3. ASSUME NEW i \in Procs, Unlock(i) \/ AdoptFetched(i) PROVE lock' = j
  BY <1>0, <1>3 DEF Unlock, Unlocked, Orphaned, AdoptFetched, Goto
<1>4. ASSUME NEW r \in Readers, StartSearch(r) \/ ReadTable(r) \/ BuildTable(r) PROVE lock' = j
  BY <1>4 DEF StartSearch, ReadTable, BuildTable, StartAt, Goto
<1>5. ASSUME NEW p \in Procs, Crash(p) PROVE lock' = j
  BY <1>0, <1>5 DEF Crash
<1>6. CASE Tick \/ StoredExpires \/ LockExpires \/ UNCHANGED vars
  BY <1>0, <1>6 DEF Tick, StoredExpires, LockExpires, vars
<1> QED
  BY <1>1, <1>2, <1>3, <1>4, <1>5, <1>6 DEF Next

\* A frame has its place before Redis after a step.
KnownNext(f) ==
    f # None => now' >= f.at + Keep \/ (stored' # None /\ (f.at < stored'.at \/ f = stored'))

LEMMA KnownLater ==
    ASSUME Types, NEW f \in Frames \cup {None}, Known(f),
           Tick \/ StoredExpires \/ LockExpires \/ UNCHANGED vars
    PROVE  KnownNext(f)
<1> SUFFICES ASSUME f # None, f.at \in Nat, stored # None => stored.at \in Nat, now \in Nat
             PROVE  KnownNext(f)
  BY DEF KnownNext, Types, Frames, Times
<1>1. CASE Tick
  BY <1>1, Constants DEF Tick, Known, KnownNext, Old, redis
<1>2. CASE StoredExpires
  BY <1>2, Constants DEF StoredExpires, Known, KnownNext, Old
<1>3. CASE LockExpires \/ UNCHANGED vars
  BY <1>3 DEF LockExpires, vars, Known, KnownNext, Old
<1> QED
  BY <1>1, <1>2, <1>3

\* What a refresh of the one lock stores is newer than every frame that is not too old.
LEMMA KnownStored ==
    ASSUME Types, NEW j \in Procs, CalmLook, pc[j] = "store", stored' = frame[j], now' = now,
           NEW f \in Frames \cup {None}, Known(f)
    PROVE  KnownNext(f) /\ KnownNext(frame[j])
<1>1. frame[j] # None /\ frame[j].at = began[j] /\ StaleFor(j)
  BY DEF CalmLook
<1>2. frame[j] \in Frames /\ began[j] \in Nat /\ now \in Nat /\ stored \in Frames \cup {None}
  BY <1>1, Constants DEF Types, Times
<1>3. stored # None => stored.at \in Nat
  BY <1>2 DEF Frames, Times
<1>4. f # None => f.at \in Nat
  BY DEF Frames, Times
<1> QED
  BY <1>1, <1>2, <1>3, <1>4, MarketFramesAssumption DEF Known, KnownNext, StaleFor, Old

LEMMA KnownStep ==
    Types /\ GotSomething /\ FramePlace /\ CalmLook /\ AllKnown /\ [Next]_vars /\ faults' = 0 => AllKnown'
<1> SUFFICES ASSUME Types, GotSomething, FramePlace, CalmLook, AllKnown, [Next]_vars, faults' = 0
             PROVE  AllKnown'
  OBVIOUS
<1>0. ~Fault
  BY NoFault
<1>a. /\ \A p \in Procs : entry[p] \in Frames \cup {None} /\ frame[p] \in Frames \cup {None}
      /\ \A t \in Tasks : got[t] \in Frames \cup {None}
  BY DEF Types
<1>b. /\ \A p \in Procs : Known(entry[p]) /\ (pc[p] # "store" => Known(frame[p]))
      /\ \A t \in Tasks : Known(got[t])
  BY DEF AllKnown
<1>c. stored \in Frames \cup {None} /\ Known(stored) /\ Known(None)
  BY DEF Types, Known
<1> USE Constants DEF redis, memory, local
\* Redis and the clock stay, and every frame comes from where there was one.
<1>d. ASSUME UNCHANGED <<now, stored>>,
             \A p \in Procs : \E f \in Frames \cup {None} : entry'[p] = f /\ Known(f),
             \A p \in Procs : pc'[p] # "store" => \E f \in Frames \cup {None} : frame'[p] = f /\ Known(f),
             \A t \in Tasks : \E f \in Frames \cup {None} : got'[t] = f /\ Known(f)
      PROVE  AllKnown'
  BY <1>d DEF AllKnown, Known, Old
<1>1. ASSUME NEW t \in Tasks, Head(t) \/ Get(t) PROVE AllKnown'
  <2>1. UNCHANGED <<now, stored, entry, frame>> /\ \A u \in Tasks : got'[u] = got[u] \/ got'[u] = stored
    BY <1>1 DEF Head, Get, Types
  <2>2. \A p \in Procs : pc'[p] # "store" => pc[p] # "store"
    BY <1>1 DEF Head, Get, Looked, Goto, Types
  <2> QED
    BY <1>a, <1>b, <1>c, <1>d, <2>1, <2>2
<1>2. ASSUME NEW t \in Tasks, Decode(t) PROVE AllKnown'
  <2>1. /\ UNCHANGED <<now, stored, frame>>
        /\ \A u \in Tasks : got'[u] \in {got[u], None}
        /\ \A p \in Procs : entry'[p] \in {entry[p], got[t]}
    BY <1>2 DEF Decode, Adopt, Types
  <2>2. \A p \in Procs : pc'[p] # "store" => pc[p] # "store"
    BY <1>2 DEF Decode, Looked, Goto, Types
  <2> QED
    BY <1>a, <1>b, <1>c, <1>d, <2>1, <2>2
<1>3. ASSUME NEW j \in Procs, StartRefresh(j) \/ Lock(j) \/ Fetch(j) PROVE AllKnown'
  <2>1. UNCHANGED <<now, stored, entry, got>>
    BY <1>3 DEF StartRefresh, Lock, Fetch
  <2>2. \A p \in Procs : pc'[p] # "store" => pc[p] # "store" /\ frame'[p] = frame[p]
    BY <1>3 DEF StartRefresh, StartAt, Lock, Fetch, Goto, Types
  <2> QED
    BY <1>a, <1>b, <1>c, <1>d, <2>1, <2>2
<1>4. ASSUME NEW j \in Procs, Store(j) PROVE AllKnown'
  <2>1. /\ pc[j] = "store" /\ stored' = frame[j] /\ UNCHANGED <<now, entry, got, frame>>
        /\ pc' = [pc EXCEPT ![j] = "unlock"]
    BY <1>0, <1>4 DEF Store, Goto
  <2>2. \A f \in Frames \cup {None} : Known(f) => KnownNext(f) /\ KnownNext(frame[j])
    BY <2>1, KnownStored
  <2>3. KnownNext(frame[j])
    BY <1>c, <2>2
  <2>4. \A p \in Procs : KnownNext(entry[p]) /\ (p # j /\ pc[p] # "store" => KnownNext(frame[p]))
    BY <1>a, <1>b, <2>2
  <2>5. \A t \in Tasks : KnownNext(got[t])
    BY <1>a, <1>b, <2>2
  <2>6. \A p \in Procs : pc'[p] # "store" => p = j \/ pc[p] # "store"
    BY <2>1 DEF Types
  <2> QED
    BY <2>1, <2>3, <2>4, <2>5, <2>6 DEF AllKnown, Known, KnownNext, Old
<1>5. ASSUME NEW j \in Procs, Unlock(j) \/ AdoptFetched(j) PROVE AllKnown'
  <2>1. /\ UNCHANGED <<now, stored, got>> /\ pc[j] \in {"unlock", "adopt"}
        /\ \A p \in Procs : frame'[p] \in {frame[p], None} /\ entry'[p] \in {entry[p], frame[j]}
    BY <1>5 DEF Unlock, AdoptFetched, Adopt, Types
  <2>2. \A p \in Procs : pc'[p] # "store" => pc[p] # "store"
    BY <1>5 DEF Unlock, AdoptFetched, Goto, Types
  <2> QED
    BY <1>a, <1>b, <1>c, <1>d, <2>1, <2>2
<1>6. ASSUME NEW r \in Readers, StartSearch(r) \/ ReadTable(r) \/ BuildTable(r) PROVE AllKnown'
  <2>1. /\ UNCHANGED <<now, stored, frame>>
        /\ \A p \in Procs : entry'[p] \in {entry[p], None} /\ pc'[p] = pc[p]
        /\ \A t \in Tasks : got'[t] \in {got[t], None, entry[ProcOf[r]]}
    BY <1>6 DEF StartSearch, ReadTable, BuildTable, StartAt, Goto, Types
  <2> QED
    BY <1>a, <1>b, <1>c, <1>d, <2>1
<1>7. ASSUME NEW p \in Procs, Crash(p) PROVE AllKnown'
  BY <1>0, <1>7 DEF Crash
<1>8. CASE Tick \/ StoredExpires \/ LockExpires \/ UNCHANGED vars
  <2>1. UNCHANGED <<entry, frame, got, pc>>
    BY <1>8 DEF Tick, StoredExpires, LockExpires, vars
  <2>2. \A f \in Frames \cup {None} : Known(f) => KnownNext(f)
    BY <1>8, KnownLater
  <2>3. /\ \A p \in Procs : KnownNext(entry[p]) /\ (pc[p] # "store" => KnownNext(frame[p]))
        /\ \A t \in Tasks : KnownNext(got[t])
    BY <1>a, <1>b, <2>2
  <2> QED
    BY <2>1, <2>3 DEF AllKnown, Known, KnownNext, Old
<1> QED
  BY <1>1, <1>2, <1>3, <1>4, <1>5, <1>6, <1>7, <1>8 DEF Next

LEMMA CalmLookStep ==
    Types /\ GotSomething /\ AllHold /\ CalmLook /\ [Next]_vars /\ faults' = 0 => CalmLook'
<1> SUFFICES ASSUME Types, GotSomething, AllHold, CalmLook, [Next]_vars, faults' = 0, NEW j \in Procs
             PROVE  /\ pc'[j] = "decode" /\ after'[j] = "fetch" => stored' \in {None, got'[j]}
                    /\ pc'[j] \in {"fetch", "store"} => StaleFor(j)'
                    /\ pc'[j] = "store" => frame'[j] # None /\ frame'[j].at = began'[j]
  BY DEF CalmLook
<1> DEFINE Goal == /\ pc'[j] = "decode" /\ after'[j] = "fetch" => stored' \in {None, got'[j]}
                   /\ pc'[j] \in {"fetch", "store"} => StaleFor(j)'
                   /\ pc'[j] = "store" => frame'[j] # None /\ frame'[j].at = began'[j]
<1>0. ~Fault /\ j \in Tasks
  BY NoFault, Constants
<1> USE Constants DEF redis, memory, local, CalmLook
\* A step that leaves Redis, the clock and the refresh alone.
<1>a. ASSUME UNCHANGED <<now, stored>>, pc'[j] = pc[j], after'[j] = after[j], got'[j] = got[j],
             began'[j] = began[j], frame'[j] = frame[j]
      PROVE  Goal
  BY <1>a DEF StaleFor, Old
<1>1. ASSUME NEW t \in Tasks, Head(t) PROVE Goal
  <2>1. entry[Home(t)] \in Frames \cup {None} /\ stored \in Frames \cup {None}
    BY DEF Types
  <2>2. CASE j # t
    <3>1. pc'[j] = pc[j] /\ began'[j] = began[j]
      BY <1>0, <1>1, <2>2 DEF Head, Looked, Goto, Types
    <3> QED
      BY <1>a, <1>1, <3>1 DEF Head
  <2>3. CASE j = t /\ Goto(t, "get")
    BY <1>0, <1>1, <2>3 DEF Goto, Types
  <2>4. CASE j = t /\ Looked(t, entry[t])
    <3>1. PICK place \in Pcs :
            /\ pc' = [pc EXCEPT ![t] = place]
            /\ place \in {"table", "lock", "fetch", "unlock", "idle"}
            /\ place = "fetch" => began' = began
            /\ place = "fetch" /\ entry[t] # None => began[t] >= entry[t].at + RefreshAfter
      BY <2>1, <2>4, LookEnds
    <3>2. pc'[j] = place
      BY <2>4, <3>1 DEF Types
    <3>3. place = "fetch" => StaleFor(j)'
      <4> SUFFICES ASSUME place = "fetch", stored # None, ~Old(stored.at)
                   PROVE  began[t] >= stored.at + RefreshAfter
        BY <1>1, <2>4, <3>1 DEF Head, StaleFor, Old
      <4>1. ~(/\ stored # None
              /\ entry[t] # None => stored.at > entry[t].at
              /\ ~Old(stored.at))
        BY <1>0, <1>1, <2>4, <3>1 DEF Head, Types, Goto
      <4>2. entry[t] # None /\ ~(stored.at > entry[t].at)
        BY <4>1
      <4>3. entry[t] \in Frames /\ stored \in Frames /\ began[t] \in Times
        BY <4>2, <2>1, <2>4 DEF Types
      <4>4. entry[t].at \in Nat /\ stored.at \in Nat /\ began[t] \in Nat
        BY <4>3 DEF Frames, Times
      <4> QED
        BY <4>2, <4>4, <3>1
    <3> QED
      BY <3>1, <3>2, <3>3
  <2>5. Goto(t, "get") \/ Looked(t, entry[Home(t)])
    BY <1>1 DEF Head
  <2> QED
    BY <2>2, <2>3, <2>4, <2>5
<1>2. ASSUME NEW t \in Tasks, Get(t) PROVE Goal
  <2>1. entry[Home(t)] \in Frames \cup {None} /\ stored \in Frames \cup {None}
    BY DEF Types
  <2>2. CASE j # t
    <3>1. pc'[j] = pc[j] /\ began'[j] = began[j] /\ got'[j] = got[j]
      BY <1>0, <1>2, <2>2 DEF Get, Looked, Goto, Types
    <3> QED
      BY <1>a, <1>2, <3>1 DEF Get
  <2>3. CASE j = t /\ got' = [got EXCEPT ![t] = stored] /\ Goto(t, "decode") /\ Smooth
    BY <1>0, <1>2, <2>3 DEF Get, Goto, Types
  <2>4. CASE j = t /\ Looked(t, entry[t]) /\ stored = None
    BY <1>2, <2>1, <2>4, LookEnds DEF Get, Types, StaleFor
  <2> QED
    BY <1>0, <1>2, <2>2, <2>3, <2>4 DEF Get
<1>3. ASSUME NEW t \in Tasks, Decode(t) PROVE Goal
  <2>1. got[t] \in Frames /\ Looked(t, got[t])
    BY <1>3 DEF Decode, Types, GotSomething
  <2>2. CASE j # t
    <3>1. pc'[j] = pc[j] /\ began'[j] = began[j] /\ got'[j] = got[j]
      BY <1>0, <1>3, <2>2 DEF Decode, Looked, Goto, Types
    <3> QED
      BY <1>a, <1>3, <3>1 DEF Decode
  <2>3. CASE j = t
    BY <1>0, <1>3, <2>1, <2>3, LookEnds, MarketFramesAssumption DEF Decode, Types, StaleFor, Old
  <2> QED
    BY <2>2, <2>3
<1>4. ASSUME NEW i \in Procs, StartRefresh(i) \/ Lock(i) PROVE Goal
  BY <1>0, <1>4 DEF StartRefresh, StartAt, Lock, Goto, Types, StaleFor, Old
<1>5. ASSUME NEW i \in Procs, Fetch(i) PROVE Goal
  <2>1. CASE i # j
    <3>1. pc'[j] = pc[j] /\ began'[j] = began[j] /\ frame'[j] = frame[j]
      BY <1>0, <1>5, <2>1 DEF Fetch, Goto, Types
    <3> QED
      BY <1>a, <1>5, <3>1 DEF Fetch
  <2>2. ASSUME i = j, NEW failed \in SUBSET Symbols,
               frame' = [frame EXCEPT ![i] = Merged(i, failed)], Goto(i, "store")
        PROVE  Goal
    <3>1. Merged(i, failed) # None /\ Merged(i, failed).at = began[i]
      BY MergedType, MarketFramesAssumption
    <3> QED
      BY <1>0, <1>5, <2>2, <3>1 DEF Fetch, Goto, Types, StaleFor, Old
  <2>3. CASE i = j /\ Goto(i, "unlock") /\ UNCHANGED frame
    BY <1>0, <1>5, <2>3 DEF Fetch, Goto, Types
  <2> QED
    BY <1>5, <2>1, <2>2, <2>3 DEF Fetch
<1>6. ASSUME NEW i \in Procs, Store(i) PROVE Goal
  <2>1. CASE i = j
    BY <1>0, <1>6, <2>1 DEF Store, Goto, Types
  <2>2. CASE i # j
    <3>1. pc'[j] = pc[j] /\ after' = after /\ i \in Refreshing
      BY <1>0, <1>6, <2>2 DEF Store, Goto, Types, Refreshing
    <3>2. j \notin Refreshing
      BY <2>2, <3>1 DEF AllHold
    <3> QED
      BY <3>1, <3>2 DEF Refreshing
  <2> QED
    BY <2>1, <2>2
<1>7. ASSUME NEW i \in Procs, Unlock(i) \/ AdoptFetched(i) PROVE Goal
  BY <1>0, <1>7 DEF Unlock, AdoptFetched, Adopt, Goto, Types, StaleFor, Old
<1>8. ASSUME NEW r \in Readers, StartSearch(r) \/ ReadTable(r) \/ BuildTable(r) PROVE Goal
  BY <1>0, <1>8 DEF StartSearch, ReadTable, BuildTable, StartAt, Goto, Types, StaleFor, Old
<1>9. ASSUME NEW p \in Procs, Crash(p) PROVE Goal
  BY <1>0, <1>9 DEF Crash
<1>10. CASE Tick
  BY <1>0, <1>10 DEF Tick, Types, StaleFor, Old, Times, Frames
<1>11. CASE StoredExpires
  BY <1>11 DEF StoredExpires, StaleFor
<1>12. CASE LockExpires \/ UNCHANGED vars
  BY <1>a, <1>12 DEF LockExpires, vars
<1> QED
  BY <1>1, <1>2, <1>3, <1>4, <1>5, <1>6, <1>7, <1>8, <1>9, <1>10, <1>11, <1>12 DEF Next

\* A row that is kept is not too old, and no newer than its frame.
LEMMA YoungRow ==
    ASSUME NEW f \in Frames \cup {None}, Below(f), now \in Nat, NEW s \in Symbols, Young(f)[s] # None
    PROVE  /\ f \in Frames /\ Young(f)[s] = f.rows[s] /\ f.rows[s] \in Nat /\ f.at \in Nat
           /\ f.rows[s] <= f.at /\ ~Old(f.rows[s]) /\ ~Old(f.at)
<1>1. f # None /\ f.rows[s] # None /\ ~Old(f.rows[s]) /\ Young(f)[s] = f.rows[s]
  BY DEF Young
<1>2. f \in Frames /\ f.rows[s] \in Nat /\ f.at \in Nat
  BY <1>1 DEF Frames, Times
<1>3. f.rows[s] <= f.at
  BY <1>1 DEF Below
<1> QED
  BY <1>1, <1>2, <1>3, Constants DEF Old

LEMMA BelowStep ==
    Types /\ CalmLook /\ AllKnown /\ AllBelow /\ [Next]_vars /\ faults' = 0 => AllBelow'
<1> SUFFICES ASSUME Types, CalmLook, AllKnown, AllBelow, [Next]_vars, faults' = 0
             PROVE  AllBelow'
  OBVIOUS
<1>0. ~Fault
  BY NoFault
<1>b. /\ Below(stored) /\ Below(None)
      /\ \A p \in Procs : Below(entry[p]) /\ Below(frame[p])
      /\ \A t \in Tasks : Below(got[t])
  BY DEF AllBelow, Below
<1> USE Constants DEF redis, memory, local
\* Every frame comes from where there was one.
<1>d. ASSUME Below(stored'),
             \A p \in Procs : Below(entry'[p]) /\ Below(frame'[p]),
             \A t \in Tasks : Below(got'[t])
      PROVE  AllBelow'
  BY <1>d DEF AllBelow, Below
<1>1. ASSUME NEW t \in Tasks, Head(t) \/ Get(t) \/ Decode(t) PROVE AllBelow'
  <2>1. /\ UNCHANGED <<stored, frame>>
        /\ \A u \in Tasks : got'[u] \in {got[u], stored, None}
        /\ \A p \in Procs : entry'[p] \in {entry[p], got[t]}
    BY <1>1 DEF Head, Get, Decode, Adopt, Types
  <2> QED
    BY <1>b, <1>d, <2>1
<1>2. ASSUME NEW j \in Procs, StartRefresh(j) \/ Lock(j) PROVE AllBelow'
  BY <1>b, <1>d, <1>2 DEF StartRefresh, Lock
<1>3. ASSUME NEW j \in Procs, Fetch(j) PROVE AllBelow'
  <2>1. UNCHANGED <<now, stored, entry, got>> /\ pc[j] = "fetch"
    BY <1>3 DEF Fetch
  <2>2. ASSUME NEW failed \in SUBSET Symbols PROVE Below(Merged(j, failed))
    <3>1. began[j] \in Nat /\ now \in Nat
      BY DEF Types, Times
    <3>2. Merged(j, failed).at = began[j]
          /\ \A s \in Symbols : Merged(j, failed).rows[s] =
                 IF s \in failed THEN Young(entry[j])[s] ELSE began[j]
      BY DEF Merged
    <3>3. ASSUME NEW s \in Symbols, Young(entry[j])[s] # None PROVE Young(entry[j])[s] <= began[j]
      <4>1. entry[j] \in Frames \cup {None} /\ stored \in Frames \cup {None}
        BY DEF Types
      <4>2. /\ entry[j].rows[s] \in Nat /\ entry[j].at \in Nat /\ Young(entry[j])[s] = entry[j].rows[s]
            /\ entry[j].rows[s] <= entry[j].at /\ ~Old(entry[j].at) /\ entry[j] # None
        BY <1>b, <3>1, <3>3, <4>1, YoungRow, MarketFramesAssumption
      <4>6. stored # None /\ (entry[j].at < stored.at \/ entry[j] = stored)
        BY <4>2 DEF AllKnown, Known
      <4>4. stored.at \in Nat
        BY <4>1, <4>6 DEF Frames, Times
      <4>3. entry[j].at <= stored.at
        BY <4>2, <4>4, <4>6
      <4>5. StaleFor(j)
        BY <2>1 DEF CalmLook
      <4> QED
        BY <3>1, <4>2, <4>3, <4>4, <4>5, <4>6 DEF StaleFor, Old
    <3> QED
      BY <3>1, <3>2, <3>3 DEF Below
  <2>3. \A p \in Procs : Below(frame'[p])
    BY <1>3, <1>b, <2>2 DEF Fetch, Types
  <2> QED
    BY <1>b, <1>d, <2>1, <2>3
<1>4. ASSUME NEW j \in Procs, Store(j) \/ Unlock(j) \/ AdoptFetched(j) PROVE AllBelow'
  <2>1. /\ UNCHANGED got /\ stored' \in {stored, frame[j]}
        /\ \A p \in Procs : frame'[p] \in {frame[p], None} /\ entry'[p] \in {entry[p], frame[j]}
    BY <1>4 DEF Store, Unlock, AdoptFetched, Adopt, Types
  <2> QED
    BY <1>b, <1>d, <2>1
<1>5. ASSUME NEW r \in Readers, StartSearch(r) \/ ReadTable(r) \/ BuildTable(r) PROVE AllBelow'
  <2>1. /\ UNCHANGED <<stored, frame>>
        /\ \A p \in Procs : entry'[p] \in {entry[p], None}
        /\ \A t \in Tasks : got'[t] \in {got[t], None, entry[ProcOf[r]]}
    BY <1>5 DEF StartSearch, ReadTable, BuildTable, StartAt, Goto, Types
  <2> QED
    BY <1>b, <1>d, <2>1
<1>6. ASSUME NEW p \in Procs, Crash(p) PROVE AllBelow'
  BY <1>0, <1>6 DEF Crash
<1>7. CASE Tick \/ StoredExpires \/ LockExpires \/ UNCHANGED vars
  BY <1>b, <1>d, <1>7 DEF Tick, StoredExpires, LockExpires, vars
<1> QED
  BY <1>1, <1>2, <1>3, <1>4, <1>5, <1>6, <1>7 DEF Next

\* Between the second look and the fetch the frame of the process of a refresh that is
\* alone stays the one in Redis.
LEMMA HasStoredStep ==
    Types /\ GotSomething /\ AloneHolds /\ CalmLook /\ AllKnown /\ AllBelow /\ HasStored
      /\ [Next]_vars /\ faults' = 0 => HasStored'
<1> SUFFICES ASSUME Types, GotSomething, AloneHolds, CalmLook, AllKnown, AllBelow, HasStored,
                    [Next]_vars, faults' = 0, NEW j \in alone'
             PROVE  /\ pc'[j] = "fetch" /\ stored' # None /\ ~Old(stored.at)' => entry'[j] = stored'
                    /\ pc'[j] = "store" => Covers(frame[j])'
  BY DEF HasStored
<1> DEFINE Goal == /\ pc'[j] = "fetch" /\ stored' # None /\ ~Old(stored.at)' => entry'[j] = stored'
                   /\ pc'[j] = "store" => Covers(frame[j])'
<1>0. ~Fault /\ j \in Procs /\ j \in Tasks
  BY NoFault, TypesStep, Constants DEF Types
<1> USE Constants DEF redis, memory, local, HasStored
<1>a. ASSUME UNCHANGED <<now, stored>>, j \in alone, pc'[j] = pc[j], entry'[j] = entry[j], frame'[j] = frame[j]
      PROVE  Goal
  BY <1>a DEF Covers, Young, Old
<1>b. stored \in Frames \cup {None} /\ now \in Nat /\ began[j] \in Nat
      /\ (stored # None => stored.at \in Nat)
  BY <1>0 DEF Types, Times, Frames
<1>c. ASSUME NEW f \in Frames, f = entry[j], stored # None, ~Old(stored.at), ~(stored.at > f.at)
      PROVE  f = stored
  <2>1. Known(f) /\ f.at \in Nat /\ f # None
    BY <1>0, <1>c, MarketFramesAssumption DEF AllKnown, Frames, Times
  <2> QED
    BY <1>b, <1>c, <2>1 DEF Known, Old
<1>1. ASSUME NEW t \in Tasks, Head(t) PROVE Goal
  <2>1. UNCHANGED <<now, stored, entry, frame>> /\ alone' \subseteq alone
    BY <1>1 DEF Head, Smooth
  <2>2. CASE j # t
    <3>1. pc'[j] = pc[j]
      BY <1>0, <1>1, <2>2 DEF Head, Looked, Goto, Types
    <3> QED
      BY <1>a, <2>1, <3>1
  <2>3. CASE j = t /\ Goto(t, "get")
    BY <1>0, <2>3 DEF Goto, Types
  <2>4. CASE j = t /\ Looked(t, entry[t])
    <3>1. entry[t] \in Frames \cup {None} /\ Home(t) = t
      BY <1>0, <2>4 DEF Types
    <3>2. pc'[j] # "get" /\ pc'[j] # "store"
      BY <1>0, <2>4, <3>1, LookEnds DEF Types
    <3>3. ~(/\ stored # None
            /\ entry[t] # None => stored.at > entry[t].at
            /\ ~Old(stored.at))
      BY <1>0, <1>1, <2>4, <3>1, <3>2 DEF Head, Goto, Types
    <3>4. stored # None /\ ~Old(stored.at) => entry[j] = stored
      BY <1>c, <2>4, <3>1, <3>3
    <3> QED
      BY <2>1, <3>2, <3>4 DEF Old
  <2>5. Goto(t, "get") \/ Looked(t, entry[Home(t)])
    BY <1>1 DEF Head
  <2> QED
    BY <1>0, <2>2, <2>3, <2>4, <2>5
<1>2. ASSUME NEW t \in Tasks, Get(t) PROVE Goal
  <2>1. UNCHANGED <<now, stored, entry, frame>> /\ alone' \subseteq alone
    BY <1>2 DEF Get, Smooth
  <2>2. CASE j # t
    <3>1. pc'[j] = pc[j]
      BY <1>0, <1>2, <2>2 DEF Get, Looked, Goto, Types
    <3> QED
      BY <1>a, <2>1, <3>1
  <2>3. CASE j = t /\ Goto(t, "decode")
    BY <1>0, <2>3 DEF Goto, Types
  <2>4. CASE j = t /\ Looked(t, entry[t]) /\ stored = None
    <3>1. entry[t] \in Frames \cup {None}
      BY <1>0, <2>4 DEF Types
    <3>2. pc'[j] # "store"
      BY <1>0, <2>4, <3>1, LookEnds DEF Types
    <3> QED
      BY <2>1, <2>4, <3>2
  <2> QED
    BY <1>0, <1>2, <2>2, <2>3, <2>4 DEF Get
<1>3. ASSUME NEW t \in Tasks, Decode(t) PROVE Goal
  <2>1. got[t] \in Frames /\ Looked(t, got[t]) /\ UNCHANGED <<now, stored, frame>> /\ alone' \subseteq alone
    BY <1>3 DEF Decode, Types, GotSomething
  <2>2. CASE j = t
    <3>1. entry'[j] = got[t] /\ pc[t] = "decode"
      BY <1>0, <1>3, <2>2 DEF Decode, Adopt, Types
    <3>2. pc'[j] # "store" /\ (pc'[j] = "fetch" => after[t] = "fetch")
      BY <1>0, <2>1, <2>2, LookEnds DEF Types
    <3>3. pc'[j] = "fetch" => stored \in {None, got[t]}
      BY <1>0, <2>2, <3>1, <3>2 DEF CalmLook
    <3> QED
      BY <2>1, <3>1, <3>2, <3>3
  <2>3. CASE j # t /\ Home(t) # j
    <3>1. pc'[j] = pc[j] /\ entry'[j] = entry[j]
      BY <1>0, <1>3, <2>3 DEF Decode, Adopt, Looked, Goto, Types
    <3> QED
      BY <1>a, <2>1, <3>1
  <2>4. CASE j # t /\ Home(t) = j
    <3>1. pc'[j] = pc[j] /\ entry'[j] = got[t]
      BY <1>0, <1>3, <2>4 DEF Decode, Adopt, Looked, Goto, Types
    <3>2. ~(entry[j] # None /\ entry[j].at > got[t].at)
      BY <1>3, <2>4 DEF Decode
    <3>3. ASSUME pc[j] = "fetch", stored # None, ~Old(stored.at) PROVE got[t] = stored
      <4>1. entry[j] = stored
        BY <2>1, <3>3
      <4>2. got[t].at >= stored.at /\ got[t].at \in Nat
        BY <1>b, <2>1, <3>2, <3>3, <4>1 DEF Frames, Times
      <4>3. Known(got[t]) /\ got[t] # None
        BY <2>1, MarketFramesAssumption DEF AllKnown
      <4> QED
        BY <1>b, <3>3, <4>2, <4>3 DEF Known, Old
    <3>4. pc[j] = "store" => Covers(frame[j])'
      BY <2>1 DEF Covers, Young, Old
    <3> QED
      BY <2>1, <3>1, <3>3, <3>4 DEF Old
  <2> QED
    BY <2>2, <2>3, <2>4
<1>4. ASSUME NEW i \in Procs, StartRefresh(i) \/ Lock(i) PROVE Goal
  <2>1. UNCHANGED <<now, stored, entry, frame>>
    BY <1>4 DEF StartRefresh, Lock
  <2>2. CASE pc'[j] = pc[j] /\ j \in alone
    BY <1>a, <2>1, <2>2
  <2>3. CASE pc'[j] \in {"head", "idle"}
    BY <2>3
  <2> QED
    BY <1>0, <1>4, <2>2, <2>3 DEF StartRefresh, StartAt, Lock, Goto, Types, Smooth
<1>5. ASSUME NEW i \in Procs, Fetch(i) PROVE Goal
  <2>1. UNCHANGED <<now, stored, entry, alone>>
    BY <1>5 DEF Fetch, Smooth
  <2>2. CASE i # j
    <3>1. pc'[j] = pc[j] /\ frame'[j] = frame[j]
      BY <1>0, <1>5, <2>2 DEF Fetch, Goto, Types
    <3> QED
      BY <1>a, <2>1, <3>1
  <2>3. ASSUME i = j, NEW failed \in SUBSET Symbols,
               frame' = [frame EXCEPT ![i] = Merged(i, failed)], Goto(i, "store")
        PROVE  Goal
    <3>1. pc'[j] = "store" /\ frame'[j] = Merged(j, failed)
      BY <1>0, <2>3 DEF Goto, Types
    <3>2. \A s \in Symbols : frame'[j].rows[s] = IF s \in failed THEN Young(entry[j])[s] ELSE began[j]
      BY <3>1 DEF Merged
    <3>3. StaleFor(j) /\ (stored # None /\ ~Old(stored.at) => entry[j] = stored)
      BY <1>0, <1>5, <2>1, <2>3 DEF Fetch, CalmLook
    <3>4. ASSUME NEW s \in Symbols, Young(stored)[s] # None
          PROVE  frame'[j].rows[s] # None /\ frame'[j].rows[s] >= stored.rows[s]
      <4>1. /\ stored.rows[s] \in Nat /\ stored.at \in Nat /\ stored.rows[s] <= stored.at
            /\ ~Old(stored.at) /\ stored # None /\ Young(stored)[s] = stored.rows[s]
        BY <1>b, <3>4, YoungRow, MarketFramesAssumption DEF AllBelow
      <4>2. entry[j] = stored /\ began[j] >= stored.at + RefreshAfter
        BY <3>3, <4>1 DEF StaleFor
      <4> QED
        BY <1>b, <3>2, <3>4, <4>1, <4>2
    <3> QED
      BY <2>1, <3>1, <3>4 DEF Covers, Young, Old
  <2>4. CASE i = j /\ Goto(i, "unlock")
    BY <1>0, <2>4 DEF Goto, Types
  <2> QED
    BY <1>5, <2>2, <2>3, <2>4 DEF Fetch
<1>6. ASSUME NEW i \in Procs, Store(i) PROVE Goal
  <2>1. CASE i = j
    BY <1>0, <1>6, <2>1 DEF Store, Goto, Types
  <2>2. CASE i # j
    <3>1. j \in alone /\ i \notin alone /\ j \in Refreshing
      BY <1>0, <1>6, <2>2 DEF Store, AloneHolds
    <3>2. FALSE
      BY <1>6, <3>1 DEF Store
    <3> QED
      BY <3>2
  <2> QED
    BY <2>1, <2>2
<1>7. ASSUME NEW i \in Procs, Unlock(i) \/ AdoptFetched(i) PROVE Goal
  <2>1. UNCHANGED <<now, stored>> /\ j \in alone
    BY <1>7 DEF Unlock, AdoptFetched, Smooth
  <2>2. CASE i = j
    <3>1. pc'[j] \in {"idle", "adopt"}
      BY <1>0, <1>7, <2>2 DEF Unlock, AdoptFetched, Goto, Types
    <3> QED
      BY <3>1
  <2>3. CASE i # j
    <3>1. pc'[j] = pc[j] /\ entry'[j] = entry[j] /\ frame'[j] = frame[j]
      BY <1>0, <1>7, <2>3 DEF Unlock, AdoptFetched, Adopt, Goto, Types
    <3> QED
      BY <1>a, <2>1, <3>1
  <2> QED
    BY <2>2, <2>3
<1>8. ASSUME NEW r \in Readers, StartSearch(r) \/ BuildTable(r) PROVE Goal
  <2>1. UNCHANGED <<now, stored, entry, frame, alone>> /\ pc'[j] = pc[j]
    BY <1>0, <1>8 DEF StartSearch, BuildTable, Goto, Types, Smooth
  <2> QED
    BY <1>a, <2>1
<1>9. ASSUME NEW r \in Readers, ReadTable(r) PROVE Goal
  <2>1. UNCHANGED <<now, stored, frame, alone>> /\ pc'[j] = pc[j]
        /\ (entry'[j] = entry[j] \/ (entry[j] # None /\ Old(entry[j].at)))
    BY <1>0, <1>9 DEF ReadTable, StartAt, Goto, Types, Smooth
  <2>2. CASE entry'[j] = entry[j]
    BY <1>a, <2>1, <2>2
  <2>3. CASE entry[j] # None /\ Old(entry[j].at)
    <3>1. pc[j] = "store" => Covers(frame[j])'
      BY <2>1 DEF Covers, Young, Old
    <3> QED
      BY <2>1, <2>3, <3>1 DEF Old
  <2> QED
    BY <2>1, <2>2, <2>3
<1>10. ASSUME NEW p \in Procs, Crash(p) PROVE Goal
  BY <1>0, <1>10 DEF Crash
<1>11. CASE Tick
  <2>1. UNCHANGED <<stored, entry, frame, pc, alone>> /\ now' = now + 1
    BY <1>11 DEF Tick, Smooth
  <2>2. ~Old(stored.at)' /\ stored # None => ~Old(stored.at)
    BY <1>b, <2>1 DEF Old
  <2>3. \A s \in Symbols : Young(stored)'[s] # None => Young(stored)[s] # None
    <3> SUFFICES ASSUME NEW s \in Symbols, stored # None, stored.rows[s] # None, ~Old(stored.rows[s])'
                 PROVE  ~Old(stored.rows[s])
      BY <2>1 DEF Young
    <3>1. stored.rows[s] \in Nat
      BY <1>b DEF Frames, Times
    <3> QED
      BY <1>b, <2>1, <3>1 DEF Old
  <2>4. Covers(frame[j]) => Covers(frame[j])'
    BY <2>1, <2>3 DEF Covers
  <2> QED
    BY <2>1, <2>2, <2>4
<1>12. CASE StoredExpires
  BY <1>12 DEF StoredExpires, Smooth, Covers, Young
<1>13. CASE LockExpires \/ UNCHANGED vars
  BY <1>0, <1>a, <1>13 DEF LockExpires, vars
<1> QED
  BY <1>1, <1>2, <1>3, <1>4, <1>5, <1>6, <1>7, <1>8, <1>9, <1>10, <1>11, <1>12, <1>13 DEF Next

LEMMA CalmStep == Types /\ GotSomething /\ AloneHolds /\ CalmInv /\ [Next]_vars => CalmInv'
<1> SUFFICES ASSUME Types, GotSomething, AloneHolds, CalmInv, [Next]_vars PROVE CalmInv'
  OBVIOUS
<1>1. FramePlace'
  BY FramePlaceStep DEF CalmInv
<1>2. CASE faults' # 0
  BY <1>1, <1>2 DEF CalmInv
<1>3. CASE faults' = 0
  <2>1. FramePlace /\ AllHold /\ CalmLook /\ AllKnown /\ AllBelow /\ HasStored
    BY <1>3, NoFault DEF CalmInv
  <2> QED
    BY <1>1, <1>3, <2>1, HoldStep, CalmLookStep, KnownStep, BelowStep, HasStoredStep DEF CalmInv
<1> QED
  BY <1>2, <1>3

-----------------------------------------------------------------------------
(***************************************************************************)
(* The theorems.                                                           *)
(***************************************************************************)
Inv == Types /\ GotSomething /\ AloneHolds /\ SecondLook /\ LockHeld /\ TablesHold /\ CalmInv

LEMMA InitInv == Init => Inv
BY Constants DEF Init, Inv, Types, GotSomething, AloneHolds, SecondLook, LockHeld, TablesHold,
                 Times, Pcs, Tasks, CalmInv, FramePlace, AllHold, Refreshing, CalmLook, AllKnown,
                 Known, AllBelow, Below, HasStored

LEMMA InvStep == Inv /\ [Next]_vars => Inv'
BY TypesStep, AloneStep, LookStep, LockStep, TablesStep, CalmStep DEF Inv

\* The lock is that of a refresh that runs or one that could not give it back, and
\* every table ends (_refresh, table).
THEOREM TypeCorrect == Spec => []TypeOK
<1>1. Inv => TypeOK
  BY DEF Inv, Types, LockHeld, TablesHold, TypeOK
<1> QED
  BY <1>1, InitInv, InvStep, PTL DEF Spec

\* Two refreshes run at once only when Redis failed one of them or the lock of
\* one ended, whatever the number of processes: _refresh, Cache.lock and unlock.
THEOREM RefreshesAlone == Spec => []OneRefreshAtATime
<1>1. Inv => OneRefreshAtATime
  BY OneHolds DEF Inv
<1> QED
  BY <1>1, InitInv, InvStep, PTL DEF Spec

\* A refresh under the lock replaces a frame only by one that is newer by
\* REFRESH_SECONDS: the second look of _refresh, from any number of processes.
THEOREM StoredStays == Spec => StoredNeverGoesBack
<1> DEFINE Forward == \A j \in Procs :
         pc[j] = "store" /\ pc'[j] = "unlock" /\ j \in alone
           /\ stored # None /\ stored' # stored /\ ~Old(stored.at)
         => stored'.at >= stored.at + RefreshAfter
<1>1. Inv /\ [Next]_vars => [Forward]_vars
  <2> SUFFICES ASSUME Inv, [Next]_vars, NEW j \in Procs,
                      pc[j] = "store", pc'[j] = "unlock", j \in alone,
                      stored # None, stored' # stored, ~Old(stored.at)
               PROVE  stored'.at >= stored.at + RefreshAfter
    OBVIOUS
  <2>1. /\ began[j] >= stored.at + RefreshAfter
        /\ frame[j].at = began[j]
    BY DEF Inv, SecondLook, StaleFor
  <2>2. stored' = frame[j]
    <3> USE Constants DEF redis
    <3>1. ASSUME NEW i \in Procs, Store(i) PROVE i = j
      BY <3>1 DEF Store, Goto, Inv, Types
    <3>2. \E i \in Procs : Store(i)
      BY DEF Next, Head, Get, Decode, StartRefresh, Lock, Fetch, Unlock, AdoptFetched,
             StartSearch, ReadTable, BuildTable, Crash, Tick, StoredExpires, LockExpires, vars
    <3> QED
      BY <3>1, <3>2 DEF Store
  <2> QED
    BY <2>1, <2>2
<1> QED
  BY <1>1, InitInv, InvStep, PTL DEF Spec, StoredNeverGoesBack

\* A table that is served again has no row that is too old: it ends with the oldest
\* of its rows, those that were carried over included (table).
THEOREM TablesAreYoung == Spec => ServedRowsAreYoung
<1> DEFINE Young_ == \A r \in Readers : Serves(r)
         => \A s \in Symbols : LET row == table'[ProcOf[r]].rows[s] IN row # None => ~Old(row)
<1>1. Inv /\ [Next]_vars => [Young_]_vars
  <2> SUFFICES ASSUME Inv, [Next]_vars, NEW r \in Readers, Serves(r), NEW s \in Symbols,
                      table'[ProcOf[r]].rows[s] # None
               PROVE  ~Old(table'[ProcOf[r]].rows[s])
    OBVIOUS
  <2> DEFINE served == table'[ProcOf[r]]
  <2>1. now' = now /\ served # None /\ now < served.until /\ served \in Tables /\ EndInTime(served)
    <3>1. r \in Tasks /\ r \notin Procs /\ pc[r] = "table" /\ pc'[r] = "idle" /\ served # None
      BY Constants DEF Serves
    <3>2. ASSUME NEW t \in Tasks, Head(t) \/ Get(t) \/ Decode(t) PROVE FALSE
      BY <3>1, <3>2 DEF Head, Get, Decode, Looked, Goto, Inv, Types
    <3>3. ASSUME NEW j \in Procs,
                 \/ StartRefresh(j) \/ Lock(j) \/ Fetch(j)
                 \/ Store(j) \/ Unlock(j) \/ AdoptFetched(j)
          PROVE  FALSE
      BY <3>1, <3>3 DEF StartRefresh, StartAt, Lock, Fetch, Store, Unlock, AdoptFetched, Goto,
                        Inv, Types
    <3>4. ASSUME NEW q \in Readers, StartSearch(q) \/ BuildTable(q) PROVE FALSE
      BY <3>1, <3>4, Constants DEF StartSearch, BuildTable, Goto, Inv, Types
    <3>5. ASSUME NEW p \in Procs, Crash(p) PROVE FALSE
      <4>1. Home(r) # p /\ pc'[r] = pc[r]
        BY <3>1, <3>5, Constants DEF Crash, Home, Inv, Types, TablesHold
      <4> QED
        BY <3>1, <4>1
    <3>6. ASSUME Tick \/ StoredExpires \/ LockExpires \/ UNCHANGED vars PROVE FALSE
      BY <3>1, <3>6 DEF Tick, StoredExpires, LockExpires, vars
    <3>7. PICK q \in Readers : ReadTable(q)
      BY <3>2, <3>3, <3>4, <3>5, <3>6 DEF Next
    <3>8. q = r
      BY <3>1, <3>7, Constants DEF ReadTable, Goto, StartAt, Inv, Types
    <3>9. table' \in [Procs -> Tables \cup {None}] /\ EndInTime(served)
      BY <3>1, TypesStep, TablesStep, Constants DEF Inv, TablesHold
    <3> QED
      BY <3>1, <3>7, <3>8, <3>9, Constants DEF ReadTable, Goto, StartAt, Inv, Types, TablesHold
  <2>2. served.rows[s] \in Times
    BY <2>1 DEF Tables
  <2> QED
    BY <2>1, <2>2, Constants DEF EndInTime, Tables, Times, Old, Inv, Types
<1> QED
  BY <1>1, InitInv, InvStep, PTL DEF Spec, ServedRowsAreYoung

\* As long as nothing fails, a refresh that nobody came between stores every row that
\* is not too old, or a newer one (_merged): its process has the frame in Redis when
\* it merges, and not merely one as new.
THEOREM RowsAreCarried == Spec => RowsStayUntilTooOld
<1> DEFINE Carried == \A j \in Procs :
         pc[j] = "store" /\ pc'[j] = "unlock" /\ j \in alone /\ faults' = 0
         => \A s \in Symbols : Young(stored)[s] # None
                               => /\ stored'.rows[s] # None
                                  /\ stored'.rows[s] >= stored.rows[s]
<1>1. Inv /\ [Next]_vars => [Carried]_vars
  <2> SUFFICES ASSUME Inv, [Next]_vars, NEW j \in Procs,
                      pc[j] = "store", pc'[j] = "unlock", j \in alone, faults' = 0,
                      NEW s \in Symbols, Young(stored)[s] # None
               PROVE  stored'.rows[s] # None /\ stored'.rows[s] >= stored.rows[s]
    OBVIOUS
  <2>1. ~Fault /\ HasStored
    BY NoFault DEF Inv, CalmInv
  <2>2. PICK i \in Procs : Store(i)
    <3>1. ASSUME NEW t \in Tasks, Head(t) \/ Get(t) \/ Decode(t) PROVE FALSE
      BY <3>1, Constants DEF Head, Get, Decode, Looked, Goto, Inv, Types
    <3>2. ASSUME NEW i \in Procs,
                 StartRefresh(i) \/ Lock(i) \/ Fetch(i) \/ Unlock(i) \/ AdoptFetched(i)
          PROVE  FALSE
      BY <3>2, Constants DEF StartRefresh, StartAt, Lock, Fetch, Unlock, AdoptFetched, Goto, Inv, Types
    <3>3. ASSUME NEW r \in Readers, StartSearch(r) \/ ReadTable(r) \/ BuildTable(r) PROVE FALSE
      BY <3>3, Constants DEF StartSearch, ReadTable, BuildTable, StartAt, Goto, Inv, Types
    <3>4. ASSUME NEW p \in Procs, Crash(p) PROVE FALSE
      BY <2>1, <3>4 DEF Crash
    <3>5. ASSUME Tick \/ StoredExpires \/ LockExpires \/ UNCHANGED vars PROVE FALSE
      BY <3>5 DEF Tick, StoredExpires, LockExpires, vars
    <3> QED
      BY <3>1, <3>2, <3>3, <3>4, <3>5 DEF Next
  <2>3. i = j
    BY <2>2, Constants DEF Store, Goto, Inv, Types
  <2>4. stored' = frame[j]
    BY <2>1, <2>2, <2>3 DEF Store
  <2> QED
    BY <2>1, <2>4 DEF HasStored, Covers
<1> QED
  BY <1>1, InitInv, InvStep, PTL DEF Spec, RowsStayUntilTooOld

\* Both halves: what was not answered stays until it is too old, and is not served then.
THEOREM RowsAreTimely == Spec => RowsKeepTheirTime
BY RowsAreCarried, TablesAreYoung DEF RowsKeepTheirTime

=============================================================================
