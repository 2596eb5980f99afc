------------------------ MODULE ModelUploads_proofs ------------------------
(***************************************************************************)
(* Proofs about ModelUploads, for any number of requests.  The inductive   *)
(* invariant is Types /\ Places /\ LockInv /\ RowInv; FilesHaveRows,       *)
(* NameInv, UploadLockInv and QuotaInv are each inductive with it.         *)
(***************************************************************************)
EXTENDS ModelUploads, FiniteSetTheorems, WellFoundedInduction, TLAPS

-----------------------------------------------------------------------------
(***************************************************************************)
(* free_name ends: among one number more than there are names one is free, *)
(* and FreeNumber is the first.                                            *)
(***************************************************************************)
LEMMA SmallestOfNat ==
    ASSUME NEW S, S \subseteq Nat, S # {}
    PROVE  \E n \in S : \A m \in S : n <= m
<1>1. \E n \in S : \A m \in S : <<m, n>> \notin OpToRel(<, Nat)
  BY NatLessThanWellFounded, WFMin
<1>2. ASSUME NEW n \in S, NEW m \in S, <<m, n>> \notin OpToRel(<, Nat)
      PROVE  n <= m
  BY <1>2 DEF OpToRel
<1> QED
  BY <1>1, <1>2

LEMMA FreeNumberIsFree ==
    ASSUME NEW taken, IsFiniteSet(taken)
    PROVE  /\ FreeNumber(taken) \in Nat \ {0}
           /\ FreeNumber(taken) \notin taken
           /\ \A m \in 1..(FreeNumber(taken) - 1) : m \in taken
<1> DEFINE N == 1..(Cardinality(taken) + 1)
           S == N \ taken
<1>1. Cardinality(taken) \in Nat
  BY FS_CardinalityType
<1>2. S # {}
  <2> SUFFICES ASSUME N \subseteq taken PROVE FALSE
    OBVIOUS
  <2>1. Cardinality(N) <= Cardinality(taken)
    BY FS_Subset
  <2>2. Cardinality(N) = Cardinality(taken) + 1
    BY <1>1, FS_Interval
  <2> QED
    BY <1>1, <2>1, <2>2
<1>3. \E n \in S : \A m \in S : n <= m
  <2>1. S \subseteq Nat
    BY <1>1
  <2> HIDE DEF S
  <2> QED
    BY <1>2, <2>1, SmallestOfNat
<1>4. PICK n \in N : n \notin taken /\ \A m \in 1..(n - 1) : m \in taken
  BY <1>1, <1>3
<1>5. \E k \in 1..(Cardinality(taken) + 1) :
          k \notin taken /\ \A m \in 1..(k - 1) : m \in taken
  BY <1>4
<1>6. /\ FreeNumber(taken) \in 1..(Cardinality(taken) + 1)
      /\ FreeNumber(taken) \notin taken
      /\ \A m \in 1..(FreeNumber(taken) - 1) : m \in taken
  BY <1>5, Zenon DEF FreeNumber
<1> QED
  BY <1>1, <1>6
-----------------------------------------------------------------------------
(***************************************************************************)
(* Types: every variable has its type.  Places: every request is where its *)
(* kind may be, with the model or the name it needs there.                 *)
(***************************************************************************)
UploadPlaces == {"idle", "hold", "usage", "receive", "verify", "lock", "room", "name",
                 "flush", "save", "commit", "undo", "discard", "release", "done"}

Types ==
    /\ account \in BOOLEAN
    /\ name \in [Uploads -> Nat \cup {None}]
    /\ txlock \in Requests \cup {None}
    /\ uplock \in Uploads \cup {None}
    /\ files \subseteq Uploads /\ incoming \subseteq Uploads
    /\ pc \in [Requests -> Pcs]
    /\ pick \in [Requests -> Nat \cup Uploads \cup {None}]
    /\ result \in [Requests -> Results]
    /\ unlocked \subseteq Uploads
    /\ lapsed \subseteq Uploads /\ unsure \subseteq Uploads /\ strays \subseteq Uploads

Places ==
    /\ \A u \in Uploads :
        /\ pc[u] \in UploadPlaces
        /\ pc[u] \in {"flush", "save", "commit"} => pick[u] \in Nat
    /\ \A x \in Changes :
        /\ pc[x] \in {"idle", "lock", "select", "check", "done"}
        /\ pc[x] # "idle" => pick[x] \in Uploads
    /\ \A d \in Removals :
        /\ pc[d] \in {"idle", "delete", "commit", "unlink", "done"}
        /\ pc[d] # "idle" => pick[d] \in Uploads
    /\ \A c \in Closings :
        pc[c] \in {"idle", "lock", "delete", "commit", "files", "done"}

LEMMA TakenIsFinite ==
    ASSUME Types PROVE IsFiniteSet(Taken)
<1>1. IsFiniteSet(Models)
  BY UploadsAssumption, FS_Subset DEF Models
<1>2. [u \in Models |-> name[u]] \in Surjection(Models, Taken)
  BY DEF Surjection, Taken
<1> QED
  BY <1>1, <1>2, FS_Surjection DEF ExistsSurjection

LEMMA NamesAfterType ==
    ASSUME Types, Places, NEW applied \in SUBSET Committing
    PROVE  NamesAfter(applied) \in [Uploads -> Nat \cup {None}]
BY DEF Types, Places, NamesAfter, Committing

-----------------------------------------------------------------------------
\* The kinds of requests are disjoint, and there is no other.
LEMMA Kinds ==
    /\ Uploads \subseteq Requests /\ Changes \subseteq Requests
    /\ Removals \subseteq Requests /\ Closings \subseteq Requests
    /\ \A r \in Requests : r \in Uploads \cup Changes \cup Removals \cup Closings
    /\ Uploads \cap (Changes \cup Removals \cup Closings) = {}
    /\ Changes \cap (Removals \cup Closings) = {}
    /\ Removals \cap Closings = {}
BY UploadsAssumption DEF Requests

\* Every step leaves every request where its kind may be.
LEMMA PlacesStep ==
     Types /\ Places /\ [Next]_vars => Places'
<1> SUFFICES ASSUME Types, Places, [Next]_vars PROVE Places'
  OBVIOUS
<1> USE DEF Pcs, InTransaction, Results, Goto, Ends, db, redis, storage, history
<1>0. pc \in [Requests -> Pcs] /\ pick \in [Requests -> Nat \cup Uploads \cup {None}]
  BY DEF Types
<1>1. ASSUME NEW u \in Uploads, Hold(u)
      PROVE  Places'
  BY Kinds, <1>0, <1>1 DEF Places, UploadPlaces, Hold
<1>2. ASSUME NEW u \in Uploads, Usage(u)
      PROVE  Places'
  BY Kinds, <1>0, <1>2 DEF Places, UploadPlaces, Usage
<1>3. ASSUME NEW u \in Uploads, Receive(u)
      PROVE  Places'
  BY Kinds, <1>0, <1>3 DEF Places, UploadPlaces, Receive
<1>4. ASSUME NEW u \in Uploads, Verify(u)
      PROVE  Places'
  BY Kinds, <1>0, <1>4 DEF Places, UploadPlaces, Verify
<1>5. ASSUME NEW u \in Uploads, LockModels(u)
      PROVE  Places'
  BY Kinds, <1>0, <1>5 DEF Places, UploadPlaces, LockModels, TakeTxLock
<1>6. ASSUME NEW u \in Uploads, Room(u)
      PROVE  Places'
  BY Kinds, <1>0, <1>6 DEF Places, UploadPlaces, Room
<1>7. ASSUME NEW u \in Uploads, PickName(u)
      PROVE  Places'
  BY Kinds, <1>0, <1>7, TakenIsFinite, FreeNumberIsFree
  DEF Places, UploadPlaces, PickName
<1>8. ASSUME NEW u \in Uploads, Flush(u)
      PROVE  Places'
  BY Kinds, <1>0, <1>8 DEF Places, UploadPlaces, Flush, FreeTxLock
<1>9. ASSUME NEW u \in Uploads, Save(u)
      PROVE  Places'
  BY Kinds, <1>0, <1>9 DEF Places, UploadPlaces, Save
<1>10. ASSUME NEW u \in Uploads, Commit(u)
      PROVE  Places'
  BY Kinds, <1>0, <1>10 DEF Places, UploadPlaces, Commit, FreeTxLock
<1>11. ASSUME NEW u \in Uploads, CommitFails(u)
      PROVE  Places'
  BY Kinds, <1>0, <1>11
  DEF Places, UploadPlaces, CommitFails, FreeTxLock, MayFreeTxLock,
      AfterFailedCommit
<1>12. ASSUME NEW u \in Uploads, Undo(u)
      PROVE  Places'
  BY Kinds, <1>0, <1>12 DEF Places, UploadPlaces, Undo
<1>13. ASSUME NEW u \in Uploads, UploadFails(u)
      PROVE  Places'
  BY Kinds, <1>0, <1>13
  DEF Places, UploadPlaces, UploadFails, FreeTxLock, MayFreeTxLock
<1>14. ASSUME NEW u \in Uploads, Discard(u)
      PROVE  Places'
  BY Kinds, <1>0, <1>14 DEF Places, UploadPlaces, Discard
<1>15. ASSUME NEW u \in Uploads, Release(u)
      PROVE  Places'
  BY Kinds, <1>0, <1>15 DEF Places, UploadPlaces, Release, FreeTxLock, Unlocked
<1>16. ASSUME NEW x \in Changes, LockChange(x)
      PROVE  Places'
  BY Kinds, <1>0, <1>16 DEF Places, UploadPlaces, LockChange, TakeTxLock
<1>17. ASSUME NEW x \in Changes, SelectModel(x)
      PROVE  Places'
  <2>1. /\ pick' = pick
        /\ \/ pc' = [pc EXCEPT ![x] = "check"]
           \/ pc' = [pc EXCEPT ![x] = "done"]
    BY <1>17 DEF SelectModel
  <2> QED
    BY Kinds, <1>0, <1>17, <2>1 DEF Places, UploadPlaces, SelectModel
<1>18. ASSUME NEW x \in Changes, Change(x)
      PROVE  Places'
  <2>1. /\ pick' = pick
        /\ \/ pc' = [pc EXCEPT ![x] = "done"]
    BY <1>18 DEF Change
  <2> QED
    BY Kinds, <1>0, <1>18, <2>1 DEF Places, UploadPlaces, Change
<1>19. ASSUME NEW d \in Removals, Remove(d)
      PROVE  Places'
  <2>1. /\ pick' = pick
        /\ \/ pc' = [pc EXCEPT ![d] = "commit"]
           \/ pc' = [pc EXCEPT ![d] = "done"]
    BY <1>19 DEF Remove
  <2> QED
    BY Kinds, <1>0, <1>19, <2>1 DEF Places, UploadPlaces, Remove
<1>20. ASSUME NEW d \in Removals, CommitRemoval(d)
      PROVE  Places'
  BY Kinds, <1>0, <1>20 DEF Places, UploadPlaces, CommitRemoval
<1>21. ASSUME NEW d \in Removals, Unlink(d)
      PROVE  Places'
  BY Kinds, <1>0, <1>21 DEF Places, UploadPlaces, Unlink
<1>22. ASSUME NEW c \in Closings, LockClosing(c)
      PROVE  Places'
  BY Kinds, <1>0, <1>22 DEF Places, UploadPlaces, LockClosing, TakeTxLock
<1>23. ASSUME NEW c \in Closings, DeleteUser(c)
      PROVE  Places'
  BY Kinds, <1>0, <1>23 DEF Places, UploadPlaces, DeleteUser
<1>24. ASSUME NEW c \in Closings, CommitClosing(c)
      PROVE  Places'
  BY Kinds, <1>0, <1>24 DEF Places, UploadPlaces, CommitClosing, FreeTxLock
<1>25. ASSUME NEW c \in Closings, DeleteFiles(c)
      PROVE  Places'
  BY Kinds, <1>0, <1>25 DEF Places, UploadPlaces, DeleteFiles
<1>26. ASSUME NEW r \in Requests \ Uploads, OtherFails(r)
      PROVE  Places'
  BY Kinds, <1>0, <1>26 DEF Places, UploadPlaces, OtherFails, FreeTxLock
<1>27. ASSUME NEW r \in Requests, Arrive(r)
      PROVE  Places'
  BY Kinds, <1>0, <1>27 DEF Places, UploadPlaces, Arrive
<1>28. CASE UploadLockExpires
  BY Kinds, <1>0, <1>28 DEF Places, UploadPlaces, UploadLockExpires
<1>29. CASE Sweep
  BY Kinds, <1>0, <1>29 DEF Places, UploadPlaces, Sweep
<1>30. CASE Crash
  BY Kinds, <1>0, <1>30 DEF Places, UploadPlaces, Crash, Running
<1>31. CASE UNCHANGED vars
  BY Kinds, <1>0, <1>31 DEF Places, UploadPlaces, vars
<1> QED
  BY <1>1, <1>2, <1>3, <1>4, <1>5, <1>6, <1>7, <1>8, <1>9, <1>10, <1>11, <1>12,
     <1>13, <1>14, <1>15, <1>16, <1>17, <1>18, <1>19, <1>20, <1>21, <1>22, <1>23,
     <1>24, <1>25, <1>26, <1>27, <1>28, <1>29, <1>30, <1>31
  DEF Next, UploadStep, OtherStep

\* Every step keeps the types; Places gives the type of the name that goes in.
LEMMA TypesStep ==
     Types /\ Places /\ [Next]_vars => Types'
<1> SUFFICES ASSUME Types, Places, [Next]_vars PROVE Types'
  OBVIOUS
<1> USE DEF Pcs, InTransaction, Results, Goto, Ends, db, redis, storage, history
<1>1. ASSUME NEW u \in Uploads, Hold(u)
      PROVE  Types'
  BY Kinds, <1>1 DEF Types, Hold
<1>2. ASSUME NEW u \in Uploads, Usage(u)
      PROVE  Types'
  BY ZenonT(60), Kinds, <1>2 DEF Types, Usage
<1>3. ASSUME NEW u \in Uploads, Receive(u)
      PROVE  Types'
  BY Kinds, <1>3 DEF Types, Receive
<1>4. ASSUME NEW u \in Uploads, Verify(u)
      PROVE  Types'
  BY Kinds, <1>4 DEF Types, Verify
<1>5. ASSUME NEW u \in Uploads, LockModels(u)
      PROVE  Types'
  BY Kinds, <1>5 DEF Types, LockModels, TakeTxLock
<1>6. ASSUME NEW u \in Uploads, Room(u)
      PROVE  Types'
  BY Kinds, <1>6 DEF Types, Room
<1>7. ASSUME NEW u \in Uploads, PickName(u)
      PROVE  Types'
  BY Kinds, <1>7, TakenIsFinite, FreeNumberIsFree DEF Types, PickName
<1>8. ASSUME NEW u \in Uploads, Flush(u)
      PROVE  Types'
  BY Kinds, <1>8 DEF Types, Flush, FreeTxLock
<1>9. ASSUME NEW u \in Uploads, Save(u)
      PROVE  Types'
  BY Kinds, <1>9 DEF Types, Save
<1>10. ASSUME NEW u \in Uploads, Commit(u)
      PROVE  Types'
  <2>1. NamesAfter({u}) \in [Uploads -> Nat \cup {None}]
    BY Kinds, <1>10, NamesAfterType DEF Commit, Committing
  <2> QED
    BY Kinds, <1>10, <2>1 DEF Types, Commit, FreeTxLock
<1>11. ASSUME NEW u \in Uploads, CommitFails(u)
      PROVE  Types'
  <2>1. NamesAfter({u}) \in [Uploads -> Nat \cup {None}]
    BY Kinds, <1>11, NamesAfterType DEF CommitFails, Committing
  <2> QED
    BY Kinds, <1>11, <2>1
    DEF Types, CommitFails, FreeTxLock, MayFreeTxLock, AfterFailedCommit
<1>12. ASSUME NEW u \in Uploads, Undo(u)
      PROVE  Types'
  BY Kinds, <1>12 DEF Types, Undo
<1>13. ASSUME NEW u \in Uploads, UploadFails(u)
      PROVE  Types'
  BY Kinds, <1>13 DEF Types, UploadFails, FreeTxLock, MayFreeTxLock
<1>14. ASSUME NEW u \in Uploads, Discard(u)
      PROVE  Types'
  BY Kinds, <1>14 DEF Types, Discard
<1>15. ASSUME NEW u \in Uploads, Release(u)
      PROVE  Types'
  BY Kinds, <1>15 DEF Types, Release, FreeTxLock, Unlocked
<1>16. ASSUME NEW x \in Changes, LockChange(x)
      PROVE  Types'
  BY Kinds, <1>16 DEF Types, LockChange, TakeTxLock
<1>17. ASSUME NEW x \in Changes, SelectModel(x)
      PROVE  Types'
  BY Kinds, <1>17 DEF Types, SelectModel, FreeTxLock
<1>18. ASSUME NEW x \in Changes, Change(x)
      PROVE  Types'
  <2>1. name' \in [Uploads -> Nat \cup {None}]
    <3>1. name' = name \/ \E new \in Numbers \cup {name[pick[x]]} :
                              name' = [name EXCEPT ![pick[x]] = new]
      BY <1>18 DEF Change
    <3>2. pick[x] \in Uploads
      BY <1>18 DEF Change, Places
    <3> QED
      BY ZenonT(60), <3>1, <3>2, UploadsAssumption DEF Types
  <2>2. PICK how \in Results :
           pc' = [pc EXCEPT ![x] = "done"] /\ result' = [result EXCEPT ![x] = how]
    BY <1>18 DEF Change
  <2>3. UNCHANGED <<account, redis, storage, pick, history>> /\ FreeTxLock(x)
    BY <1>18 DEF Change
  <2> QED
    BY Kinds, <2>1, <2>2, <2>3 DEF Types, FreeTxLock
<1>19. ASSUME NEW d \in Removals, Remove(d)
      PROVE  Types'
  BY ZenonT(60), Kinds, <1>19 DEF Types, Remove
<1>20. ASSUME NEW d \in Removals, CommitRemoval(d)
      PROVE  Types'
  <2>1. NamesAfter({d}) \in [Uploads -> Nat \cup {None}]
    BY Kinds, <1>20, NamesAfterType DEF CommitRemoval, Committing
  <2> QED
    BY Kinds, <1>20, <2>1 DEF Types, CommitRemoval
<1>21. ASSUME NEW d \in Removals, Unlink(d)
      PROVE  Types'
  <2>1. pick[d] \in Uploads
    BY <1>21 DEF Unlink, Places
  <2> QED
    BY Kinds, <1>21, <2>1 DEF Types, Unlink
<1>22. ASSUME NEW c \in Closings, LockClosing(c)
      PROVE  Types'
  BY Kinds, <1>22 DEF Types, LockClosing, TakeTxLock
<1>23. ASSUME NEW c \in Closings, DeleteUser(c)
      PROVE  Types'
  BY Kinds, <1>23 DEF Types, DeleteUser
<1>24. ASSUME NEW c \in Closings, CommitClosing(c)
      PROVE  Types'
  <2>1. NamesAfter({c}) \in [Uploads -> Nat \cup {None}]
    BY Kinds, <1>24, NamesAfterType DEF CommitClosing, Committing
  <2> QED
    BY Kinds, <1>24, <2>1 DEF Types, CommitClosing, FreeTxLock, AccountAfter
<1>25. ASSUME NEW c \in Closings, DeleteFiles(c)
      PROVE  Types'
  BY Kinds, <1>25 DEF Types, DeleteFiles
<1>26. ASSUME NEW r \in Requests \ Uploads, OtherFails(r)
      PROVE  Types'
  <2>1. PICK applied \in SUBSET Committing :
           name' = NamesAfter(applied) /\ account' = AccountAfter(applied)
    BY <1>26 DEF OtherFails
  <2>2. name' \in [Uploads -> Nat \cup {None}] /\ account' \in BOOLEAN
    BY <2>1, NamesAfterType DEF AccountAfter, Types
  <2> QED
    BY Kinds, <1>26, <2>2 DEF Types, OtherFails, FreeTxLock, Models
<1>27. ASSUME NEW r \in Requests, Arrive(r)
      PROVE  Types'
  BY ZenonT(60), Kinds, <1>27 DEF Types, Arrive
<1>28. CASE UploadLockExpires
  BY Kinds, <1>28 DEF Types, UploadLockExpires
<1>29. CASE Sweep
  BY Kinds, <1>29 DEF Types, Sweep
<1>30. CASE Crash
  <2>1. PICK applied \in SUBSET Committing :
           name' = NamesAfter(applied) /\ account' = AccountAfter(applied)
    BY <1>30 DEF Crash
  <2>2. name' \in [Uploads -> Nat \cup {None}] /\ account' \in BOOLEAN
    BY <2>1, NamesAfterType DEF AccountAfter, Types
  <2> QED
    BY Kinds, <1>30, <2>2 DEF Types, Crash, Running
<1>31. CASE UNCHANGED vars
  BY Kinds, <1>31 DEF Types, vars
<1> QED
  BY <1>1, <1>2, <1>3, <1>4, <1>5, <1>6, <1>7, <1>8, <1>9, <1>10, <1>11, <1>12,
     <1>13, <1>14, <1>15, <1>16, <1>17, <1>18, <1>19, <1>20, <1>21, <1>22, <1>23,
     <1>24, <1>25, <1>26, <1>27, <1>28, <1>29, <1>30, <1>31
  DEF Next, UploadStep, OtherStep
-----------------------------------------------------------------------------
(***************************************************************************)
(* LockInv: who is in a transaction of the user's models holds the         *)
(* advisory lock, and nobody else does but an upload that is ending.       *)
(***************************************************************************)
HoldsTxLock(r) ==
    \/ r \in Uploads /\ pc[r] \in {"room", "name", "flush", "save", "commit"}
    \/ r \in Changes /\ pc[r] \in {"select", "check"}
    \/ r \in Closings /\ pc[r] \in {"delete", "commit"}

MayHoldTxLock(r) ==
    \/ HoldsTxLock(r)
    \/ r \in Uploads /\ pc[r] \in {"undo", "discard", "release"}

LockInv ==
    \A r \in Requests :
        /\ HoldsTxLock(r) => txlock = r
        /\ txlock = r => MayHoldTxLock(r)

LEMMA LockStep ==
     Types /\ Places /\ LockInv /\ [Next]_vars => LockInv'
<1> SUFFICES ASSUME Types, Places, LockInv, [Next]_vars PROVE LockInv'
  OBVIOUS
<1> USE DEF Pcs, InTransaction, Results, Goto, Ends, db, redis, storage, history
<1>0. pc \in [Requests -> Pcs] /\ txlock \in Requests \cup {None} /\ None \notin Requests
  BY UploadsAssumption DEF Types
<1>1. ASSUME NEW u \in Uploads, Hold(u)
      PROVE  LockInv'
  BY ZenonT(60), Kinds, <1>0, <1>1 DEF LockInv, HoldsTxLock, MayHoldTxLock, Hold
<1>2. ASSUME NEW u \in Uploads, Usage(u)
      PROVE  LockInv'
  BY Kinds, <1>0, <1>2 DEF LockInv, HoldsTxLock, MayHoldTxLock, Usage
<1>3. ASSUME NEW u \in Uploads, Receive(u)
      PROVE  LockInv'
  BY Kinds, <1>0, <1>3 DEF LockInv, HoldsTxLock, MayHoldTxLock, Receive
<1>4. ASSUME NEW u \in Uploads, Verify(u)
      PROVE  LockInv'
  BY Kinds, <1>0, <1>4 DEF LockInv, HoldsTxLock, MayHoldTxLock, Verify
<1>5. ASSUME NEW u \in Uploads, LockModels(u)
      PROVE  LockInv'
  <2>1. txlock = None /\ txlock' = u /\ pc' = [pc EXCEPT ![u] = "room"]
    BY <1>5 DEF LockModels, TakeTxLock
  <2>2. \A r \in Requests : ~HoldsTxLock(r)
    BY <1>0, <2>1 DEF LockInv
  <2>3. ASSUME NEW r \in Requests
        PROVE  (HoldsTxLock(r) => txlock = r)' /\ (txlock = r => MayHoldTxLock(r))'
    <3>1. CASE r = u
      BY Kinds, <1>0, <2>1, <3>1 DEF HoldsTxLock, MayHoldTxLock
    <3>2. CASE r # u
      BY Kinds, <1>0, <2>1, <2>2, <3>2 DEF HoldsTxLock
    <3> QED
      BY <3>1, <3>2
  <2> QED
    BY <2>3 DEF LockInv
<1>6. ASSUME NEW u \in Uploads, Room(u)
      PROVE  LockInv'
  BY Kinds, <1>0, <1>6 DEF LockInv, HoldsTxLock, MayHoldTxLock, Room
<1>7. ASSUME NEW u \in Uploads, PickName(u)
      PROVE  LockInv'
  BY Kinds, <1>0, <1>7 DEF LockInv, HoldsTxLock, MayHoldTxLock, PickName
<1>8. ASSUME NEW u \in Uploads, Flush(u)
      PROVE  LockInv'
  BY ZenonT(60), Kinds, <1>0, <1>8 DEF LockInv, HoldsTxLock, MayHoldTxLock, Flush, FreeTxLock
<1>9. ASSUME NEW u \in Uploads, Save(u)
      PROVE  LockInv'
  BY Kinds, <1>0, <1>9 DEF LockInv, HoldsTxLock, MayHoldTxLock, Save
<1>10. ASSUME NEW u \in Uploads, Commit(u)
      PROVE  LockInv'
  BY Kinds, <1>0, <1>10 DEF LockInv, HoldsTxLock, MayHoldTxLock, Commit, FreeTxLock
<1>11. ASSUME NEW u \in Uploads, CommitFails(u)
      PROVE  LockInv'
  BY Kinds, <1>0, <1>11
  DEF LockInv, HoldsTxLock, MayHoldTxLock, CommitFails, FreeTxLock, MayFreeTxLock,
      AfterFailedCommit
<1>12. ASSUME NEW u \in Uploads, Undo(u)
      PROVE  LockInv'
  BY Kinds, <1>0, <1>12 DEF LockInv, HoldsTxLock, MayHoldTxLock, Undo
<1>13. ASSUME NEW u \in Uploads, UploadFails(u)
      PROVE  LockInv'
  BY Kinds, <1>0, <1>13
  DEF LockInv, HoldsTxLock, MayHoldTxLock, UploadFails, FreeTxLock, MayFreeTxLock
<1>14. ASSUME NEW u \in Uploads, Discard(u)
      PROVE  LockInv'
  BY Kinds, <1>0, <1>14 DEF LockInv, HoldsTxLock, MayHoldTxLock, Discard
<1>15. ASSUME NEW u \in Uploads, Release(u)
      PROVE  LockInv'
  BY Kinds, <1>0, <1>15
  DEF LockInv, HoldsTxLock, MayHoldTxLock, Release, FreeTxLock, Unlocked
<1>16. ASSUME NEW x \in Changes, LockChange(x)
      PROVE  LockInv'
  <2>1. txlock = None /\ txlock' = x /\ pc' = [pc EXCEPT ![x] = "select"]
    BY <1>16 DEF LockChange, TakeTxLock
  <2>2. \A r \in Requests : ~HoldsTxLock(r)
    BY <1>0, <2>1 DEF LockInv
  <2>3. ASSUME NEW r \in Requests
        PROVE  (HoldsTxLock(r) => txlock = r)' /\ (txlock = r => MayHoldTxLock(r))'
    <3>1. CASE r = x
      BY Kinds, <1>0, <2>1, <3>1 DEF HoldsTxLock, MayHoldTxLock
    <3>2. CASE r # x
      BY Kinds, <1>0, <2>1, <2>2, <3>2 DEF HoldsTxLock
    <3> QED
      BY <3>1, <3>2
  <2> QED
    BY <2>3 DEF LockInv
<1>17. ASSUME NEW x \in Changes, SelectModel(x)
      PROVE  LockInv'
  BY ZenonT(60), Kinds, <1>0, <1>17
  DEF LockInv, HoldsTxLock, MayHoldTxLock, SelectModel, FreeTxLock
<1>18. ASSUME NEW x \in Changes, Change(x)
      PROVE  LockInv'
  <2>1. pc' = [pc EXCEPT ![x] = "done"] /\ FreeTxLock(x)
    BY <1>18 DEF Change
  <2> QED
    BY Kinds, <1>0, <2>1 DEF LockInv, HoldsTxLock, MayHoldTxLock, FreeTxLock
<1>19. ASSUME NEW d \in Removals, Remove(d)
      PROVE  LockInv'
  BY ZenonT(60), Kinds, <1>0, <1>19 DEF LockInv, HoldsTxLock, MayHoldTxLock, Remove
<1>20. ASSUME NEW d \in Removals, CommitRemoval(d)
      PROVE  LockInv'
  BY Kinds, <1>0, <1>20 DEF LockInv, HoldsTxLock, MayHoldTxLock, CommitRemoval
<1>21. ASSUME NEW d \in Removals, Unlink(d)
      PROVE  LockInv'
  BY Kinds, <1>0, <1>21 DEF LockInv, HoldsTxLock, MayHoldTxLock, Unlink
<1>22. ASSUME NEW c \in Closings, LockClosing(c)
      PROVE  LockInv'
  <2>1. txlock = None /\ txlock' = c /\ pc' = [pc EXCEPT ![c] = "delete"]
    BY <1>22 DEF LockClosing, TakeTxLock
  <2>2. \A r \in Requests : ~HoldsTxLock(r)
    BY <1>0, <2>1 DEF LockInv
  <2>3. ASSUME NEW r \in Requests
        PROVE  (HoldsTxLock(r) => txlock = r)' /\ (txlock = r => MayHoldTxLock(r))'
    <3>1. CASE r = c
      BY Kinds, <1>0, <2>1, <3>1 DEF HoldsTxLock, MayHoldTxLock
    <3>2. CASE r # c
      BY Kinds, <1>0, <2>1, <2>2, <3>2 DEF HoldsTxLock
    <3> QED
      BY <3>1, <3>2
  <2> QED
    BY <2>3 DEF LockInv
<1>23. ASSUME NEW c \in Closings, DeleteUser(c)
      PROVE  LockInv'
  BY Kinds, <1>0, <1>23 DEF LockInv, HoldsTxLock, MayHoldTxLock, DeleteUser
<1>24. ASSUME NEW c \in Closings, CommitClosing(c)
      PROVE  LockInv'
  BY Kinds, <1>0, <1>24
  DEF LockInv, HoldsTxLock, MayHoldTxLock, CommitClosing, FreeTxLock
<1>25. ASSUME NEW c \in Closings, DeleteFiles(c)
      PROVE  LockInv'
  BY Kinds, <1>0, <1>25 DEF LockInv, HoldsTxLock, MayHoldTxLock, DeleteFiles
<1>26. ASSUME NEW r \in Requests \ Uploads, OtherFails(r)
      PROVE  LockInv'
  BY Kinds, <1>0, <1>26
  DEF LockInv, HoldsTxLock, MayHoldTxLock, OtherFails, FreeTxLock
<1>27. ASSUME NEW r \in Requests, Arrive(r)
      PROVE  LockInv'
  BY Kinds, <1>0, <1>27 DEF LockInv, HoldsTxLock, MayHoldTxLock, Arrive
<1>28. CASE UploadLockExpires
  BY Kinds, <1>0, <1>28 DEF LockInv, HoldsTxLock, MayHoldTxLock, UploadLockExpires
<1>29. CASE Sweep
  BY Kinds, <1>0, <1>29 DEF LockInv, HoldsTxLock, MayHoldTxLock, Sweep
<1>30. CASE Crash
  BY Kinds, <1>0, <1>30 DEF LockInv, HoldsTxLock, MayHoldTxLock, Crash, Running
<1>31. CASE UNCHANGED vars
  BY Kinds, <1>0, <1>31 DEF LockInv, HoldsTxLock, MayHoldTxLock, vars
<1> QED
  BY <1>1, <1>2, <1>3, <1>4, <1>5, <1>6, <1>7, <1>8, <1>9, <1>10, <1>11, <1>12,
     <1>13, <1>14, <1>15, <1>16, <1>17, <1>18, <1>19, <1>20, <1>21, <1>22, <1>23,
     <1>24, <1>25, <1>26, <1>27, <1>28, <1>29, <1>30, <1>31
  DEF Next, UploadStep, OtherStep

LEMMA InitShape == Init => Types /\ Places /\ LockInv
BY UploadsAssumption
DEF Init, Types, Places, UploadPlaces, LockInv, HoldsTxLock, MayHoldTxLock, Pcs, Results,
    Requests

(***************************************************************************)
(* The shape of the state, and with it that the advisory lock is that of a *)
(* running request.                                                        *)
(***************************************************************************)
THEOREM TypeCorrect == Spec => []TypeOK
<1>1. Init => Types /\ Places /\ LockInv
  BY InitShape
<1>2. Types /\ Places /\ LockInv => TypeOK
  BY DEF Types, Places, LockInv, TypeOK, Running, HoldsTxLock, MayHoldTxLock
<1> QED
  BY <1>1, <1>2, TypesStep, PlacesStep, LockStep, PTL DEF Spec

-----------------------------------------------------------------------------
(***************************************************************************)
(* RowInv: what the rows and the files have to do with the places of the   *)
(* requests.  A row is one of an upload whose COMMIT was applied, no row   *)
(* goes in once the account is gone, a file is moved before the COMMIT and *)
(* removed only when its row is not there any more.                        *)
(***************************************************************************)
After == {"undo", "discard", "release", "done"}

RowOf(u) ==
    /\ name[u] # None => pc[u] \in After
    /\ name[u] # None => u \in files \cup unsure
    /\ name[u] # None => account
    /\ pc[u] \in {"save", "commit"} => account
    /\ pc[u] = "commit" => u \in files
    /\ pc[u] = "undo" => name[u] = None \/ u \in unsure

RemovalOf(d) ==
    /\ pc[d] \in {"commit", "unlink"} => pc[pick[d]] \in After
    /\ pc[d] = "unlink" => name[pick[d]] = None

RowInv ==
    /\ \A u \in Uploads : RowOf(u)
    /\ \A d \in Removals : RemovalOf(d)
    /\ \A c \in Closings : pc[c] = "files" => ~account

LEMMA NamesAfterOne ==
    ASSUME Types, NEW r \in Requests
    PROVE  /\ r \in Uploads => NamesAfter({r}) = [name EXCEPT ![r] = pick[r]]
           /\ r \in Removals => NamesAfter({r}) = [name EXCEPT ![pick[r]] = None]
           /\ r \in Closings => NamesAfter({r}) = [u \in Uploads |-> None]
<1>1. name \in [Uploads -> Nat \cup {None}]
  BY DEF Types
<1>2. ASSUME r \in Uploads
      PROVE  NamesAfter({r}) = [name EXCEPT ![r] = pick[r]]
  BY <1>1, <1>2, UploadsAssumption DEF NamesAfter
<1>3. ASSUME r \in Removals
      PROVE  NamesAfter({r}) = [name EXCEPT ![pick[r]] = None]
  BY ZenonT(60), <1>1, <1>3, UploadsAssumption DEF NamesAfter
<1>4. ASSUME r \in Closings
      PROVE  NamesAfter({r}) = [u \in Uploads |-> None]
  BY <1>4 DEF NamesAfter
<1> QED
  BY <1>2, <1>3, <1>4

\* Whatever COMMITs are applied, a row goes in only with that of its upload.
LEMMA NamesAfterCases ==
    ASSUME NEW applied \in SUBSET Committing, NEW u \in Uploads
    PROVE  /\ u \notin applied => NamesAfter(applied)[u] \in {None, name[u]}
           /\ applied \cap Closings # {} => NamesAfter(applied)[u] = None
           /\ \A d \in Removals \cap applied : pick[d] = u => NamesAfter(applied)[u] = None
BY DEF NamesAfter

\* Only one transaction of the user's models is open.
LEMMA OneTransaction ==
    ASSUME LockInv, NEW r \in Requests, NEW s \in Requests, HoldsTxLock(r), HoldsTxLock(s)
    PROVE  r = s
BY DEF LockInv

LEMMA RowStep ==
     Types /\ Places /\ LockInv /\ RowInv /\ [Next]_vars => RowInv'
<1> SUFFICES ASSUME Types, Places, LockInv, RowInv, [Next]_vars PROVE RowInv'
  OBVIOUS
<1> USE DEF Pcs, InTransaction, Results, Goto, Ends, db, redis, storage, history
<1>0. /\ pc \in [Requests -> Pcs] /\ pick \in [Requests -> Nat \cup Uploads \cup {None}]
      /\ name \in [Uploads -> Nat \cup {None}] /\ None \notin Requests
      /\ \A d \in Removals : pc[d] # "idle" => pick[d] \in Uploads
  BY UploadsAssumption DEF Types, Places
<1>1. ASSUME NEW u \in Uploads, Hold(u)
      PROVE  RowInv'
  <2>0. /\ UNCHANGED <<name, files, account, unsure, pick>>
        /\ pc[u] = "hold"
        /\ pc' = [pc EXCEPT ![u] = "usage"] \/ pc' = [pc EXCEPT ![u] = "done"]
    BY <1>1 DEF Hold
  <2>1. ASSUME NEW v \in Uploads PROVE RowOf(v)'
    BY Kinds, <1>0, <2>0 DEF RowInv, RowOf, RemovalOf, After
  <2>2. ASSUME NEW e \in Removals PROVE RemovalOf(e)'
    BY Kinds, <1>0, <2>0 DEF RowInv, RowOf, RemovalOf, After
  <2>3. ASSUME NEW k \in Closings PROVE (pc[k] = "files" => ~account)'
    BY Kinds, <1>0, <2>0 DEF RowInv, RowOf, RemovalOf, After
  <2> QED
    BY <2>1, <2>2, <2>3 DEF RowInv
<1>2. ASSUME NEW u \in Uploads, Usage(u)
      PROVE  RowInv'
  BY Kinds, <1>0, <1>2 DEF RowInv, RowOf, RemovalOf, After, Usage
<1>3. ASSUME NEW u \in Uploads, Receive(u)
      PROVE  RowInv'
  BY Kinds, <1>0, <1>3 DEF RowInv, RowOf, RemovalOf, After, Receive
<1>4. ASSUME NEW u \in Uploads, Verify(u)
      PROVE  RowInv'
  BY Kinds, <1>0, <1>4 DEF RowInv, RowOf, RemovalOf, After, Verify
<1>5. ASSUME NEW u \in Uploads, LockModels(u)
      PROVE  RowInv'
  BY Kinds, <1>0, <1>5 DEF RowInv, RowOf, RemovalOf, After, LockModels, TakeTxLock
<1>6. ASSUME NEW u \in Uploads, Room(u)
      PROVE  RowInv'
  BY Kinds, <1>0, <1>6 DEF RowInv, RowOf, RemovalOf, After, Room
<1>7. ASSUME NEW u \in Uploads, PickName(u)
      PROVE  RowInv'
  BY Kinds, <1>0, <1>7 DEF RowInv, RowOf, RemovalOf, After, PickName
<1>8. ASSUME NEW u \in Uploads, Flush(u)
      PROVE  RowInv'
  BY ZenonT(60), Kinds, <1>0, <1>8 DEF RowInv, RowOf, RemovalOf, After, Flush, FreeTxLock
<1>9. ASSUME NEW u \in Uploads, Save(u)
      PROVE  RowInv'
  BY Kinds, <1>0, <1>9 DEF RowInv, RowOf, RemovalOf, After, Save
<1>10. ASSUME NEW u \in Uploads, Commit(u)
      PROVE  RowInv'
  <2>0. /\ UNCHANGED <<files, account, unsure, pick>>
        /\ pc[u] = "commit" /\ pc' = [pc EXCEPT ![u] = "discard"]
        /\ name' = [name EXCEPT ![u] = pick[u]]
    BY Kinds, <1>10, NamesAfterOne DEF Commit
  <2>1. ASSUME NEW v \in Uploads PROVE RowOf(v)'
    BY Kinds, <1>0, <2>0 DEF RowInv, RowOf, RemovalOf, After
  <2>2. ASSUME NEW e \in Removals PROVE RemovalOf(e)'
    BY Kinds, <1>0, <2>0 DEF RowInv, RowOf, RemovalOf, After
  <2>3. ASSUME NEW k \in Closings PROVE (pc[k] = "files" => ~account)'
    BY Kinds, <1>0, <2>0 DEF RowInv, RowOf, RemovalOf, After
  <2> QED
    BY <2>1, <2>2, <2>3 DEF RowInv
<1>11. ASSUME NEW u \in Uploads, CommitFails(u)
      PROVE  RowInv'
  <2>0. /\ UNCHANGED <<files, account, pick>>
        /\ pc[u] = "commit" /\ pc' = [pc EXCEPT ![u] = "undo"]
        /\ \/ UNCHANGED <<name, unsure>>
           \/ name' = [name EXCEPT ![u] = pick[u]] /\ unsure' = unsure \cup {u}
    BY Kinds, <1>11, NamesAfterOne DEF CommitFails, AfterFailedCommit
  <2>1. ASSUME NEW v \in Uploads PROVE RowOf(v)'
    BY Kinds, <1>0, <2>0 DEF RowInv, RowOf, RemovalOf, After
  <2>2. ASSUME NEW e \in Removals PROVE RemovalOf(e)'
    BY Kinds, <1>0, <2>0 DEF RowInv, RowOf, RemovalOf, After
  <2>3. ASSUME NEW k \in Closings PROVE (pc[k] = "files" => ~account)'
    BY Kinds, <1>0, <2>0 DEF RowInv, RowOf, RemovalOf, After
  <2> QED
    BY <2>1, <2>2, <2>3 DEF RowInv
<1>12. ASSUME NEW u \in Uploads, Undo(u)
      PROVE  RowInv'
  BY Kinds, <1>0, <1>12 DEF RowInv, RowOf, RemovalOf, After, Undo, Models
<1>13. ASSUME NEW u \in Uploads, UploadFails(u)
      PROVE  RowInv'
  BY Kinds, <1>0, <1>13
  DEF RowInv, RowOf, RemovalOf, After, UploadFails, FreeTxLock, MayFreeTxLock
<1>14. ASSUME NEW u \in Uploads, Discard(u)
      PROVE  RowInv'
  BY Kinds, <1>0, <1>14 DEF RowInv, RowOf, RemovalOf, After, Discard
<1>15. ASSUME NEW u \in Uploads, Release(u)
      PROVE  RowInv'
  BY Kinds, <1>0, <1>15
  DEF RowInv, RowOf, RemovalOf, After, Release, FreeTxLock, Unlocked
<1>16. ASSUME NEW x \in Changes, LockChange(x)
      PROVE  RowInv'
  BY Kinds, <1>0, <1>16 DEF RowInv, RowOf, RemovalOf, After, LockChange, TakeTxLock
<1>17. ASSUME NEW x \in Changes, SelectModel(x)
      PROVE  RowInv'
  <2>0. /\ UNCHANGED <<name, files, account, unsure, pick>>
        /\ pc[x] = "select"
        /\ pc' = [pc EXCEPT ![x] = "check"] \/ pc' = [pc EXCEPT ![x] = "done"]
    BY <1>17 DEF SelectModel
  <2>1. ASSUME NEW v \in Uploads PROVE RowOf(v)'
    BY Kinds, <1>0, <2>0 DEF RowInv, RowOf, RemovalOf, After
  <2>2. ASSUME NEW e \in Removals PROVE RemovalOf(e)'
    BY Kinds, <1>0, <2>0 DEF RowInv, RowOf, RemovalOf, After
  <2>3. ASSUME NEW k \in Closings PROVE (pc[k] = "files" => ~account)'
    BY Kinds, <1>0, <2>0 DEF RowInv, RowOf, RemovalOf, After
  <2> QED
    BY <2>1, <2>2, <2>3 DEF RowInv
<1>18. ASSUME NEW x \in Changes, Change(x)
      PROVE  RowInv'
  <2>0. /\ UNCHANGED <<files, account, unsure, pick>>
        /\ pc[x] = "check" /\ pc' = [pc EXCEPT ![x] = "done"]
    BY <1>18 DEF Change
  <2>b. \A v \in Uploads : name'[v] # None => name[v] # None
    BY <1>0, <1>18 DEF Change, Models
  <2>c. \A v \in Uploads : name[v] = None => name'[v] = None
    BY <2>b
  <2>1. ASSUME NEW v \in Uploads PROVE RowOf(v)'
    BY Kinds, <1>0, <2>0, <2>b, <2>c DEF RowInv, RowOf, RemovalOf, After
  <2>2. ASSUME NEW e \in Removals PROVE RemovalOf(e)'
    BY Kinds, <1>0, <2>0, <2>b, <2>c DEF RowInv, RowOf, RemovalOf, After
  <2>3. ASSUME NEW k \in Closings PROVE (pc[k] = "files" => ~account)'
    BY Kinds, <1>0, <2>0, <2>b, <2>c DEF RowInv, RowOf, RemovalOf, After
  <2> QED
    BY <2>1, <2>2, <2>3 DEF RowInv
<1>19. ASSUME NEW d \in Removals, Remove(d)
      PROVE  RowInv'
  <2>0. /\ UNCHANGED <<name, files, account, unsure, pick>>
        /\ pc[d] = "delete"
        /\ \/ pc' = [pc EXCEPT ![d] = "commit"] /\ name[pick[d]] # None
           \/ pc' = [pc EXCEPT ![d] = "done"]
    BY <1>19 DEF Remove, Models
  <2>1. ASSUME NEW v \in Uploads PROVE RowOf(v)'
    BY Kinds, <1>0, <2>0 DEF RowInv, RowOf, RemovalOf, After
  <2>2. ASSUME NEW e \in Removals PROVE RemovalOf(e)'
    BY Kinds, <1>0, <2>0 DEF RowInv, RowOf, RemovalOf, After
  <2>3. ASSUME NEW k \in Closings PROVE (pc[k] = "files" => ~account)'
    BY Kinds, <1>0, <2>0 DEF RowInv, RowOf, RemovalOf, After
  <2> QED
    BY <2>1, <2>2, <2>3 DEF RowInv
<1>20. ASSUME NEW d \in Removals, CommitRemoval(d)
      PROVE  RowInv'
  <2>0. /\ UNCHANGED <<files, account, unsure, pick>>
        /\ pc[d] = "commit" /\ pc' = [pc EXCEPT ![d] = "unlink"]
        /\ name' = [name EXCEPT ![pick[d]] = None]
    BY Kinds, <1>20, NamesAfterOne DEF CommitRemoval
  <2>1. ASSUME NEW v \in Uploads PROVE RowOf(v)'
    BY Kinds, <1>0, <2>0 DEF RowInv, RowOf, RemovalOf, After
  <2>2. ASSUME NEW e \in Removals PROVE RemovalOf(e)'
    BY Kinds, <1>0, <2>0 DEF RowInv, RowOf, RemovalOf, After
  <2>3. ASSUME NEW k \in Closings PROVE (pc[k] = "files" => ~account)'
    BY Kinds, <1>0, <2>0 DEF RowInv, RowOf, RemovalOf, After
  <2> QED
    BY <2>1, <2>2, <2>3 DEF RowInv
<1>21. ASSUME NEW d \in Removals, Unlink(d)
      PROVE  RowInv'
  BY Kinds, <1>0, <1>21 DEF RowInv, RowOf, RemovalOf, After, Unlink
<1>22. ASSUME NEW c \in Closings, LockClosing(c)
      PROVE  RowInv'
  BY Kinds, <1>0, <1>22 DEF RowInv, RowOf, RemovalOf, After, LockClosing, TakeTxLock
<1>23. ASSUME NEW c \in Closings, DeleteUser(c)
      PROVE  RowInv'
  BY Kinds, <1>0, <1>23 DEF RowInv, RowOf, RemovalOf, After, DeleteUser
<1>24. ASSUME NEW c \in Closings, CommitClosing(c)
      PROVE  RowInv'
  <2>0. /\ UNCHANGED <<files, unsure, pick>>
        /\ pc[c] = "commit" /\ pc' = [pc EXCEPT ![c] = "files"]
        /\ name' = [u \in Uploads |-> None] /\ ~account'
    BY Kinds, <1>24, NamesAfterOne DEF CommitClosing, AccountAfter
  <2>b. \A v \in Uploads : pc[v] \notin {"save", "commit"}
    BY Kinds, <2>0, OneTransaction DEF HoldsTxLock
  <2>1. ASSUME NEW v \in Uploads PROVE RowOf(v)'
    BY Kinds, <1>0, <2>0, <2>b DEF RowInv, RowOf, RemovalOf, After
  <2>2. ASSUME NEW e \in Removals PROVE RemovalOf(e)'
    BY Kinds, <1>0, <2>0, <2>b DEF RowInv, RowOf, RemovalOf, After
  <2>3. ASSUME NEW k \in Closings PROVE (pc[k] = "files" => ~account)'
    BY Kinds, <1>0, <2>0, <2>b DEF RowInv, RowOf, RemovalOf, After
  <2> QED
    BY <2>1, <2>2, <2>3 DEF RowInv
<1>25. ASSUME NEW c \in Closings, DeleteFiles(c)
      PROVE  RowInv'
  BY Kinds, <1>0, <1>25 DEF RowInv, RowOf, RemovalOf, After, DeleteFiles
<1>26. ASSUME NEW r \in Requests \ Uploads, OtherFails(r)
      PROVE  RowInv'
  <2>z. PICK applied \in SUBSET ({r} \cap Committing) :
           name' = NamesAfter(applied) /\ account' = AccountAfter(applied)
    BY <1>26 DEF OtherFails
  <2>0. /\ UNCHANGED <<files, unsure, pick>> /\ pc' = [pc EXCEPT ![r] = "done"]
        /\ pc[r] \in InTransaction \cup {"lock"} /\ r \notin Uploads
    BY <1>26 DEF OtherFails
  <2>b. \A v \in Uploads : name'[v] \in {None, name[v]}
    BY <2>z, <2>0, NamesAfterCases
  <2>c. \/ account' = account
        \/ /\ ~account'
           /\ \A v \in Uploads : name'[v] = None /\ pc[v] \notin {"save", "commit"}
    <3>1. CASE applied \cap Closings = {}
      BY <2>z, <3>1 DEF AccountAfter, Types
    <3>2. CASE applied \cap Closings # {}
      <4>1. r \in Closings /\ pc[r] = "commit"
        BY <2>z, <3>2 DEF Committing
      <4>2. \A v \in Uploads : pc[v] \notin {"save", "commit"}
        BY Kinds, <4>1, OneTransaction DEF HoldsTxLock
      <4>3. \A v \in Uploads : name'[v] = None
        BY <2>z, <3>2, NamesAfterCases
      <4> QED
        BY <2>z, <3>2, <4>2, <4>3 DEF AccountAfter
    <3> QED
      BY <3>1, <3>2
  <2>1. ASSUME NEW v \in Uploads PROVE RowOf(v)'
    BY Kinds, <1>0, <2>0, <2>b, <2>c DEF RowInv, RowOf, RemovalOf, After
  <2>2. ASSUME NEW e \in Removals PROVE RemovalOf(e)'
    BY Kinds, <1>0, <2>0, <2>b, <2>c DEF RowInv, RowOf, RemovalOf, After
  <2>3. ASSUME NEW k \in Closings PROVE (pc[k] = "files" => ~account)'
    BY Kinds, <1>0, <2>0, <2>b, <2>c DEF RowInv, RowOf, RemovalOf, After
  <2> QED
    BY <2>1, <2>2, <2>3 DEF RowInv
<1>27. ASSUME NEW r \in Requests, Arrive(r)
      PROVE  RowInv'
  BY Kinds, <1>0, <1>27 DEF RowInv, RowOf, RemovalOf, After, Arrive
<1>28. CASE UploadLockExpires
  BY Kinds, <1>0, <1>28 DEF RowInv, RowOf, RemovalOf, After, UploadLockExpires
<1>29. CASE Sweep
  BY Kinds, <1>0, <1>29 DEF RowInv, RowOf, RemovalOf, After, Sweep
<1>30. CASE Crash
  <2>z. PICK applied \in SUBSET Committing :
           name' = NamesAfter(applied) /\ account' = AccountAfter(applied)
    BY <1>30 DEF Crash
  <2>0. /\ UNCHANGED <<files, unsure, pick>>
        /\ pc' = [r \in Requests |-> IF r \in Running THEN "done" ELSE pc[r]]
    BY <1>30 DEF Crash
  <2>a. \A r \in Requests : pc'[r] = IF pc[r] \in {"idle", "done"} THEN pc[r] ELSE "done"
    BY <2>0 DEF Running
  <2>b. \A v \in Uploads : name'[v] \in {None, name[v]} \/ pc[v] = "commit"
    BY <2>z, NamesAfterCases DEF Committing
  <2>c. \/ account' = account
        \/ ~account' /\ (\A v \in Uploads : name'[v] = None)
    BY <2>z, NamesAfterCases DEF AccountAfter, Types
  <2>1. ASSUME NEW v \in Uploads PROVE RowOf(v)'
    BY Kinds, <1>0, <2>0, <2>a, <2>b, <2>c DEF RowInv, RowOf, RemovalOf, After
  <2>2. ASSUME NEW e \in Removals PROVE RemovalOf(e)'
    BY Kinds, <1>0, <2>0, <2>a, <2>b, <2>c DEF RowInv, RowOf, RemovalOf, After
  <2>3. ASSUME NEW k \in Closings PROVE (pc[k] = "files" => ~account)'
    BY Kinds, <1>0, <2>0, <2>a, <2>b, <2>c DEF RowInv, RowOf, RemovalOf, After
  <2> QED
    BY <2>1, <2>2, <2>3 DEF RowInv
<1>31. CASE UNCHANGED vars
  BY Kinds, <1>0, <1>31 DEF RowInv, RowOf, RemovalOf, After, vars
<1> QED
  BY <1>1, <1>2, <1>3, <1>4, <1>5, <1>6, <1>7, <1>8, <1>9, <1>10, <1>11, <1>12,
     <1>13, <1>14, <1>15, <1>16, <1>17, <1>18, <1>19, <1>20, <1>21, <1>22, <1>23,
     <1>24, <1>25, <1>26, <1>27, <1>28, <1>29, <1>30, <1>31
  DEF Next, UploadStep, OtherStep

LEMMA RowsHold == Spec => [](Types /\ Places /\ LockInv /\ RowInv)
<1>1. Init => Types /\ Places /\ LockInv
  BY InitShape
<1>2. Init => RowInv
  BY DEF Init, RowInv, RowOf, RemovalOf, After, Requests
<1> QED
  BY <1>1, <1>2, TypesStep, PlacesStep, LockStep, RowStep, PTL DEF Spec

(***************************************************************************)
(* RowsHaveFiles: the file is in its place before the COMMIT and is taken  *)
(* away after the row, whatever fails in between but the answer to the     *)
(* COMMIT.                                                                 *)
(***************************************************************************)
THEOREM ModelsKeepTheirFiles == Spec => []RowsHaveFiles
<1>1. RowInv => RowsHaveFiles
  BY DEF RowInv, RowOf, RowsHaveFiles, Models
<1> QED
  BY <1>1, RowsHold, PTL

(***************************************************************************)
(* NothingAfterTheAccount: an upload that was being kept when the account  *)
(* went is refused, as the deletion takes the lock of the user's models.   *)
(***************************************************************************)
THEOREM ModelsGoWithTheAccount == Spec => []NothingAfterTheAccount
<1>1. RowInv => NothingAfterTheAccount
  BY DEF RowInv, RowOf, NothingAfterTheAccount, Models
<1> QED
  BY <1>1, RowsHold, PTL

-----------------------------------------------------------------------------
(***************************************************************************)
(* FilesHaveRows is inductive with the types: every step that leaves a     *)
(* file without its row leaves a request that is about to remove the file, *)
(* or counts it as a stray.                                                *)
(***************************************************************************)
LEMMA FilesStep ==
     Types /\ Places /\ FilesHaveRows /\ [Next]_vars => FilesHaveRows'
<1> SUFFICES ASSUME Types, Places, FilesHaveRows, [Next]_vars PROVE FilesHaveRows'
  OBVIOUS
<1> USE DEF Pcs, InTransaction, Results, Goto, Ends, db, redis, storage, history
<1>0. /\ pc \in [Requests -> Pcs] /\ pick \in [Requests -> Nat \cup Uploads \cup {None}]
      /\ files \subseteq Uploads /\ incoming \subseteq Uploads
      /\ name \in [Uploads -> Nat \cup {None}] /\ None \notin Requests
      /\ \A d \in Removals : pc[d] # "idle" => pick[d] \in Uploads
  BY UploadsAssumption DEF Types, Places
<1>1. ASSUME NEW u \in Uploads, Hold(u)
      PROVE  FilesHaveRows'
  <2>1. /\ UNCHANGED <<name, files, strays, pick>>
        /\ pc[u] = "hold"
        /\ pc' = [pc EXCEPT ![u] = "usage"] \/ pc' = [pc EXCEPT ![u] = "done"]
    BY Kinds, <1>1 DEF Hold
  <2> QED
    BY Kinds, <1>0, <2>1 DEF FilesHaveRows, Models
<1>2. ASSUME NEW u \in Uploads, Usage(u)
      PROVE  FilesHaveRows'
  BY Kinds, <1>0, <1>2 DEF FilesHaveRows, Models, Usage
<1>3. ASSUME NEW u \in Uploads, Receive(u)
      PROVE  FilesHaveRows'
  BY Kinds, <1>0, <1>3 DEF FilesHaveRows, Models, Receive
<1>4. ASSUME NEW u \in Uploads, Verify(u)
      PROVE  FilesHaveRows'
  BY Kinds, <1>0, <1>4 DEF FilesHaveRows, Models, Verify
<1>5. ASSUME NEW u \in Uploads, LockModels(u)
      PROVE  FilesHaveRows'
  BY Kinds, <1>0, <1>5 DEF FilesHaveRows, Models, LockModels, TakeTxLock
<1>6. ASSUME NEW u \in Uploads, Room(u)
      PROVE  FilesHaveRows'
  BY Kinds, <1>0, <1>6 DEF FilesHaveRows, Models, Room
<1>7. ASSUME NEW u \in Uploads, PickName(u)
      PROVE  FilesHaveRows'
  BY Kinds, <1>0, <1>7 DEF FilesHaveRows, Models, PickName
<1>8. ASSUME NEW u \in Uploads, Flush(u)
      PROVE  FilesHaveRows'
  <2>1. /\ UNCHANGED <<name, files, strays, pick>>
        /\ pc[u] = "flush"
        /\ pc' = [pc EXCEPT ![u] = "save"] \/ pc' = [pc EXCEPT ![u] = "discard"]
    BY Kinds, <1>8 DEF Flush
  <2> QED
    BY Kinds, <1>0, <2>1 DEF FilesHaveRows, Models
<1>9. ASSUME NEW u \in Uploads, Save(u)
      PROVE  FilesHaveRows'
  BY Kinds, <1>0, <1>9 DEF FilesHaveRows, Models, Save
<1>10. ASSUME NEW u \in Uploads, Commit(u)
      PROVE  FilesHaveRows'
  <2>0. pick[u] \in Nat /\ pick[u] # None
    BY <1>10, UploadsAssumption DEF Commit, Places
  <2>1. /\ UNCHANGED <<files, strays, pick>>
        /\ pc[u] = "commit"
        /\ pc' = [pc EXCEPT ![u] = "discard"]
        /\ name' = [name EXCEPT ![u] = pick[u]] /\ pick[u] # None
    BY Kinds, <1>10, NamesAfterOne, <2>0 DEF Commit
  <2> QED
    BY Kinds, <1>0, <2>1 DEF FilesHaveRows, Models
<1>11. ASSUME NEW u \in Uploads, CommitFails(u)
      PROVE  FilesHaveRows'
  <2>0. pick[u] \in Nat /\ pick[u] # None
    BY <1>11, UploadsAssumption DEF CommitFails, Places
  <2>1. /\ UNCHANGED <<files, strays, pick>>
        /\ pc[u] = "commit"
        /\ pc' = [pc EXCEPT ![u] = "undo"]
        /\ name' = name \/ (name' = [name EXCEPT ![u] = pick[u]] /\ pick[u] # None)
    BY Kinds, <1>11, NamesAfterOne, <2>0 DEF CommitFails, AfterFailedCommit
  <2> QED
    BY Kinds, <1>0, <2>1 DEF FilesHaveRows, Models
<1>12. ASSUME NEW u \in Uploads, Undo(u)
      PROVE  FilesHaveRows'
  BY Kinds, <1>0, <1>12 DEF FilesHaveRows, Models, Undo
<1>13. ASSUME NEW u \in Uploads, UploadFails(u)
      PROVE  FilesHaveRows'
  BY Kinds, <1>0, <1>13
  DEF FilesHaveRows, Models, UploadFails, FreeTxLock, MayFreeTxLock
<1>14. ASSUME NEW u \in Uploads, Discard(u)
      PROVE  FilesHaveRows'
  BY Kinds, <1>0, <1>14 DEF FilesHaveRows, Models, Discard
<1>15. ASSUME NEW u \in Uploads, Release(u)
      PROVE  FilesHaveRows'
  BY Kinds, <1>0, <1>15 DEF FilesHaveRows, Models, Release, FreeTxLock, Unlocked
<1>16. ASSUME NEW x \in Changes, LockChange(x)
      PROVE  FilesHaveRows'
  BY Kinds, <1>0, <1>16 DEF FilesHaveRows, Models, LockChange, TakeTxLock
<1>17. ASSUME NEW x \in Changes, SelectModel(x)
      PROVE  FilesHaveRows'
  <2>1. /\ UNCHANGED <<name, files, strays, pick>>
        /\ pc[x] = "select"
        /\ pc' = [pc EXCEPT ![x] = "check"] \/ pc' = [pc EXCEPT ![x] = "done"]
    BY Kinds, <1>17 DEF SelectModel
  <2> QED
    BY Kinds, <1>0, <2>1 DEF FilesHaveRows, Models
<1>18. ASSUME NEW x \in Changes, Change(x)
      PROVE  FilesHaveRows'
  <2>1. /\ UNCHANGED <<files, strays, pick>>
        /\ pc[x] = "check" /\ pc' = [pc EXCEPT ![x] = "done"]
    BY <1>18 DEF Change
  <2>2. \/ name' = name
        \/ \E new \in Numbers \cup {name[pick[x]]} :
              pick[x] \in Models /\ name' = [name EXCEPT ![pick[x]] = new]
    BY <1>18 DEF Change
  <2>3. \A m \in Models : m \in Models'
    BY <1>0, <2>2, UploadsAssumption DEF Models
  <2> QED
    BY Kinds, <1>0, <2>1, <2>3 DEF FilesHaveRows
<1>19. ASSUME NEW d \in Removals, Remove(d)
      PROVE  FilesHaveRows'
  <2>1. /\ UNCHANGED <<name, files, strays, pick>>
        /\ pc[d] = "delete"
        /\ pc' = [pc EXCEPT ![d] = "commit"] \/ pc' = [pc EXCEPT ![d] = "done"]
    BY Kinds, <1>19 DEF Remove
  <2> QED
    BY Kinds, <1>0, <2>1 DEF FilesHaveRows, Models
<1>20. ASSUME NEW d \in Removals, CommitRemoval(d)
      PROVE  FilesHaveRows'
  <2>1. /\ UNCHANGED <<files, strays, pick>>
        /\ pc[d] = "commit"
        /\ pc' = [pc EXCEPT ![d] = "unlink"]
        /\ name' = [name EXCEPT ![pick[d]] = None]
    BY Kinds, <1>20, NamesAfterOne DEF CommitRemoval
  <2> QED
    BY Kinds, <1>0, <2>1 DEF FilesHaveRows, Models
<1>21. ASSUME NEW d \in Removals, Unlink(d)
      PROVE  FilesHaveRows'
  BY Kinds, <1>0, <1>21 DEF FilesHaveRows, Models, Unlink
<1>22. ASSUME NEW c \in Closings, LockClosing(c)
      PROVE  FilesHaveRows'
  BY Kinds, <1>0, <1>22 DEF FilesHaveRows, Models, LockClosing, TakeTxLock
<1>23. ASSUME NEW c \in Closings, DeleteUser(c)
      PROVE  FilesHaveRows'
  BY Kinds, <1>0, <1>23 DEF FilesHaveRows, Models, DeleteUser
<1>24. ASSUME NEW c \in Closings, CommitClosing(c)
      PROVE  FilesHaveRows'
  BY Kinds, <1>0, <1>24 DEF FilesHaveRows, Models, CommitClosing, FreeTxLock
<1>25. ASSUME NEW c \in Closings, DeleteFiles(c)
      PROVE  FilesHaveRows'
  BY Kinds, <1>0, <1>25 DEF FilesHaveRows, Models, DeleteFiles
<1>26. ASSUME NEW r \in Requests \ Uploads, OtherFails(r)
      PROVE  FilesHaveRows'
  BY Kinds, <1>0, <1>26 DEF FilesHaveRows, Models, OtherFails, FreeTxLock
<1>27. ASSUME NEW r \in Requests, Arrive(r)
      PROVE  FilesHaveRows'
  BY Kinds, <1>0, <1>27 DEF FilesHaveRows, Models, Arrive
<1>28. CASE UploadLockExpires
  BY Kinds, <1>0, <1>28 DEF FilesHaveRows, Models, UploadLockExpires
<1>29. CASE Sweep
  BY Kinds, <1>0, <1>29 DEF FilesHaveRows, Models, Sweep
<1>30. CASE Crash
  BY Kinds, <1>0, <1>30 DEF FilesHaveRows, Models, Crash, Running
<1>31. CASE UNCHANGED vars
  BY Kinds, <1>0, <1>31 DEF FilesHaveRows, Models, vars
<1> QED
  BY <1>1, <1>2, <1>3, <1>4, <1>5, <1>6, <1>7, <1>8, <1>9, <1>10, <1>11, <1>12,
     <1>13, <1>14, <1>15, <1>16, <1>17, <1>18, <1>19, <1>20, <1>21, <1>22, <1>23,
     <1>24, <1>25, <1>26, <1>27, <1>28, <1>29, <1>30, <1>31
  DEF Next, UploadStep, OtherStep

(***************************************************************************)
(* FilesHaveRows: no upload, removal or closing forgets a file.            *)
(***************************************************************************)
THEOREM FilesAreAccountedFor == Spec => []FilesHaveRows
<1>1. Init => FilesHaveRows
  BY DEF Init, FilesHaveRows
<1> QED
  BY <1>1, FilesStep, RowsHold, PTL DEF Spec

-----------------------------------------------------------------------------
(***************************************************************************)
(* NameInv: the name an upload found free stays free until its row goes    *)
(* in, as every statement that takes a name runs under the advisory lock.  *)
(***************************************************************************)
NameInv ==
    \A u \in Uploads :
        /\ pc[u] = "flush" => \A v \in Uploads : name[v] # None => name[v] # pick[u]
        /\ result[u] # "name taken"

LEMMA NameStep ==
     Types /\ Places /\ LockInv /\ NameInv /\ [Next]_vars => NameInv'
<1> SUFFICES ASSUME Types, Places, LockInv, NameInv, [Next]_vars PROVE NameInv'
  OBVIOUS
<1> USE DEF Pcs, InTransaction, Results, Goto, Ends, db, redis, storage, history
<1>0. /\ pc \in [Requests -> Pcs] /\ pick \in [Requests -> Nat \cup Uploads \cup {None}]
      /\ name \in [Uploads -> Nat \cup {None}] /\ None \notin Requests
      /\ result \in [Requests -> Results]
  BY UploadsAssumption DEF Types
<1>1. ASSUME NEW u \in Uploads, Hold(u)
      PROVE  NameInv'
  BY Kinds, <1>0, <1>1 DEF NameInv, Hold
<1>2. ASSUME NEW u \in Uploads, Usage(u)
      PROVE  NameInv'
  BY Kinds, <1>0, <1>2 DEF NameInv, Usage
<1>3. ASSUME NEW u \in Uploads, Receive(u)
      PROVE  NameInv'
  BY Kinds, <1>0, <1>3 DEF NameInv, Receive
<1>4. ASSUME NEW u \in Uploads, Verify(u)
      PROVE  NameInv'
  BY Kinds, <1>0, <1>4 DEF NameInv, Verify
<1>5. ASSUME NEW u \in Uploads, LockModels(u)
      PROVE  NameInv'
  BY Kinds, <1>0, <1>5 DEF NameInv, LockModels, TakeTxLock
<1>6. ASSUME NEW u \in Uploads, Room(u)
      PROVE  NameInv'
  BY Kinds, <1>0, <1>6 DEF NameInv, Room
<1>7. ASSUME NEW u \in Uploads, PickName(u)
      PROVE  NameInv'
  <2>1. FreeNumber(Taken) \notin Taken /\ FreeNumber(Taken) \in Nat
    BY TakenIsFinite, FreeNumberIsFree
  <2>2. /\ UNCHANGED <<name, result>> /\ pc' = [pc EXCEPT ![u] = "flush"]
        /\ pick' = [pick EXCEPT ![u] = FreeNumber(Taken)]
    BY <1>7 DEF PickName
  <2>3. \A v \in Uploads : name[v] # None => name[v] # FreeNumber(Taken)
    BY <2>1 DEF Taken, Models
  <2> QED
    BY Kinds, <1>0, <2>2, <2>3 DEF NameInv
<1>8. ASSUME NEW u \in Uploads, Flush(u)
      PROVE  NameInv'
  <2>1. pick[u] \notin Taken
    BY <1>8 DEF Flush, NameInv, Taken, Models
  <2>2. /\ UNCHANGED <<name, pick>> /\ pc[u] = "flush"
        /\ \/ pc' = [pc EXCEPT ![u] = "save"] /\ UNCHANGED result
           \/ /\ pc' = [pc EXCEPT ![u] = "discard"]
              /\ result' = [result EXCEPT ![u] = "account gone"]
    BY <1>8, <2>1 DEF Flush
  <2> QED
    BY Kinds, <1>0, <2>2 DEF NameInv
<1>9. ASSUME NEW u \in Uploads, Save(u)
      PROVE  NameInv'
  BY Kinds, <1>0, <1>9 DEF NameInv, Save
<1>10. ASSUME NEW u \in Uploads, Commit(u)
      PROVE  NameInv'
  <2>0. \A v \in Uploads : v # u => pc[v] # "flush"
    BY Kinds, <1>10, OneTransaction DEF Commit, HoldsTxLock
  <2>1. /\ UNCHANGED pick
        /\ pc' = [pc EXCEPT ![u] = "discard"] /\ result' = [result EXCEPT ![u] = "ok"]
    BY <1>10 DEF Commit
  <2> QED
    BY Kinds, <1>0, <2>0, <2>1 DEF NameInv
<1>11. ASSUME NEW u \in Uploads, CommitFails(u)
      PROVE  NameInv'
  <2>0. \A v \in Uploads : v # u => pc[v] # "flush"
    BY Kinds, <1>11, OneTransaction DEF CommitFails, HoldsTxLock
  <2>1. /\ UNCHANGED pick
        /\ pc' = [pc EXCEPT ![u] = "undo"] /\ result' = [result EXCEPT ![u] = "failed"]
    BY <1>11 DEF CommitFails, AfterFailedCommit
  <2> QED
    BY Kinds, <1>0, <2>0, <2>1 DEF NameInv
<1>12. ASSUME NEW u \in Uploads, Undo(u)
      PROVE  NameInv'
  BY Kinds, <1>0, <1>12 DEF NameInv, Undo
<1>13. ASSUME NEW u \in Uploads, UploadFails(u)
      PROVE  NameInv'
  BY Kinds, <1>0, <1>13 DEF NameInv, UploadFails, FreeTxLock, MayFreeTxLock
<1>14. ASSUME NEW u \in Uploads, Discard(u)
      PROVE  NameInv'
  BY Kinds, <1>0, <1>14 DEF NameInv, Discard
<1>15. ASSUME NEW u \in Uploads, Release(u)
      PROVE  NameInv'
  BY Kinds, <1>0, <1>15 DEF NameInv, Release, FreeTxLock, Unlocked
<1>16. ASSUME NEW x \in Changes, LockChange(x)
      PROVE  NameInv'
  BY Kinds, <1>0, <1>16 DEF NameInv, LockChange, TakeTxLock
<1>17. ASSUME NEW x \in Changes, SelectModel(x)
      PROVE  NameInv'
  <2>1. /\ UNCHANGED <<name, pick>>
        /\ \A u \in Uploads : pc'[u] = pc[u] /\ result'[u] = result[u]
    BY ZenonT(60), Kinds, <1>0, <1>17 DEF SelectModel
  <2> QED
    BY Kinds, <1>0, <2>1 DEF NameInv
<1>18. ASSUME NEW x \in Changes, Change(x)
      PROVE  NameInv'
  <2>0. \A v \in Uploads : pc[v] # "flush"
    BY Kinds, <1>18, OneTransaction DEF Change, HoldsTxLock
  <2>1. /\ UNCHANGED pick
        /\ pc' = [pc EXCEPT ![x] = "done"]
        /\ \E how \in Results : result' = [result EXCEPT ![x] = how]
    BY <1>18 DEF Change
  <2>p. PICK how \in Results : result' = [result EXCEPT ![x] = how]
    BY <2>1
  <2>2. \A v \in Uploads : result'[v] = result[v] /\ pc'[v] = pc[v]
    <3>1. \A v \in Uploads : v # x /\ v \in Requests
      BY Kinds
    <3> QED
      BY <1>0, <2>1, <2>p, <3>1
  <2> QED
    BY <1>0, <2>0, <2>1, <2>2 DEF NameInv
<1>19. ASSUME NEW d \in Removals, Remove(d)
      PROVE  NameInv'
  <2>1. /\ UNCHANGED <<name, pick>>
        /\ pc' = [pc EXCEPT ![d] = "commit"] \/ pc' = [pc EXCEPT ![d] = "done"]
        /\ result' = result \/ result' = [result EXCEPT ![d] = "not found"]
    BY <1>19 DEF Remove
  <2> QED
    BY Kinds, <1>0, <2>1 DEF NameInv
<1>20. ASSUME NEW d \in Removals, CommitRemoval(d)
      PROVE  NameInv'
  <2>1. /\ UNCHANGED pick /\ name' = [name EXCEPT ![pick[d]] = None]
        /\ pc' = [pc EXCEPT ![d] = "unlink"] /\ result' = [result EXCEPT ![d] = "ok"]
    BY Kinds, <1>20, NamesAfterOne DEF CommitRemoval
  <2> QED
    BY Kinds, <1>0, <2>1 DEF NameInv
<1>21. ASSUME NEW d \in Removals, Unlink(d)
      PROVE  NameInv'
  BY Kinds, <1>0, <1>21 DEF NameInv, Unlink
<1>22. ASSUME NEW c \in Closings, LockClosing(c)
      PROVE  NameInv'
  BY Kinds, <1>0, <1>22 DEF NameInv, LockClosing, TakeTxLock
<1>23. ASSUME NEW c \in Closings, DeleteUser(c)
      PROVE  NameInv'
  BY Kinds, <1>0, <1>23 DEF NameInv, DeleteUser
<1>24. ASSUME NEW c \in Closings, CommitClosing(c)
      PROVE  NameInv'
  <2>1. /\ UNCHANGED pick /\ name' = [u \in Uploads |-> None]
        /\ pc' = [pc EXCEPT ![c] = "files"] /\ result' = [result EXCEPT ![c] = "ok"]
    BY Kinds, <1>24, NamesAfterOne DEF CommitClosing
  <2> QED
    BY Kinds, <1>0, <2>1 DEF NameInv
<1>25. ASSUME NEW c \in Closings, DeleteFiles(c)
      PROVE  NameInv'
  BY Kinds, <1>0, <1>25 DEF NameInv, DeleteFiles
<1>26. ASSUME NEW r \in Requests \ Uploads, OtherFails(r)
      PROVE  NameInv'
  <2>1. PICK applied \in SUBSET ({r} \cap Committing) : name' = NamesAfter(applied)
    BY <1>26 DEF OtherFails
  <2>2. \A v \in Uploads : name'[v] \in {None, name[v]}
    BY <2>1, NamesAfterCases
  <2>3. /\ UNCHANGED pick
        /\ pc' = [pc EXCEPT ![r] = "done"] /\ result' = [result EXCEPT ![r] = "failed"]
    BY <1>26 DEF OtherFails
  <2> QED
    BY Kinds, <1>0, <2>2, <2>3 DEF NameInv
<1>27. ASSUME NEW r \in Requests, Arrive(r)
      PROVE  NameInv'
  BY Kinds, <1>0, <1>27 DEF NameInv, Arrive
<1>28. CASE UploadLockExpires
  BY Kinds, <1>0, <1>28 DEF NameInv, UploadLockExpires
<1>29. CASE Sweep
  BY Kinds, <1>0, <1>29 DEF NameInv, Sweep
<1>30. CASE Crash
  <2>1. \A u \in Uploads : pc'[u] # "flush" /\ result'[u] \in {result[u], "failed"}
    BY Kinds, <1>0, <1>30 DEF Crash, Running
  <2> QED
    BY <1>0, <2>1 DEF NameInv
<1>31. CASE UNCHANGED vars
  BY Kinds, <1>0, <1>31 DEF NameInv, vars
<1> QED
  BY <1>1, <1>2, <1>3, <1>4, <1>5, <1>6, <1>7, <1>8, <1>9, <1>10, <1>11, <1>12,
     <1>13, <1>14, <1>15, <1>16, <1>17, <1>18, <1>19, <1>20, <1>21, <1>22, <1>23,
     <1>24, <1>25, <1>26, <1>27, <1>28, <1>29, <1>30, <1>31
  DEF Next, UploadStep, OtherStep

(***************************************************************************)
(* NoNameClash: the unique index never refuses the name an upload picked.  *)
(***************************************************************************)
THEOREM PickedNamesStayFree == Spec => []NoNameClash
<1>1. Init => NameInv
  BY DEF Init, NameInv, Requests
<1>2. NameInv => NoNameClash
  BY DEF NameInv, NoNameClash
<1> QED
  BY <1>1, <1>2, NameStep, RowsHold, PTL DEF Spec

-----------------------------------------------------------------------------
(***************************************************************************)
(* UploadLockInv: an upload that is under way has its own token in Redis,  *)
(* or lost the lock to its expiry, or runs without as Redis failed.        *)
(***************************************************************************)
UploadLockInv ==
    \A u \in Uploads :
        pc[u] \notin {"idle", "hold", "done"} => u \in unlocked \cup lapsed \/ uplock = u

LEMMA UploadLockStep ==
     Types /\ Places /\ UploadLockInv /\ [Next]_vars => UploadLockInv'
<1> SUFFICES ASSUME Types, Places, UploadLockInv, [Next]_vars PROVE UploadLockInv'
  OBVIOUS
<1> USE DEF Pcs, InTransaction, Results, Goto, Ends, db, redis, storage, history
<1>0. /\ pc \in [Requests -> Pcs] /\ pick \in [Requests -> Nat \cup Uploads \cup {None}]
      /\ name \in [Uploads -> Nat \cup {None}] /\ None \notin Requests
  BY UploadsAssumption DEF Types
<1>1. ASSUME NEW u \in Uploads, Hold(u)
      PROVE  UploadLockInv'
  <2>1. \/ uplock = None /\ uplock' = u /\ unlocked' = unlocked
        \/ uplock' = uplock /\ unlocked' = unlocked /\ pc' = [pc EXCEPT ![u] = "done"]
        \/ /\ uplock' = uplock \/ uplock = None
           /\ \/ unlocked' = unlocked \cup {u}
              \/ unlocked' = unlocked /\ pc' = [pc EXCEPT ![u] = "done"]
    BY <1>1 DEF Hold
  <2>2. /\ UNCHANGED lapsed
        /\ pc' = [pc EXCEPT ![u] = "usage"] \/ pc' = [pc EXCEPT ![u] = "done"]
    BY <1>1 DEF Hold
  <2> QED
    BY Kinds, <1>0, <2>1, <2>2 DEF UploadLockInv
<1>2. ASSUME NEW u \in Uploads, Usage(u)
      PROVE  UploadLockInv'
  BY Kinds, <1>0, <1>2 DEF UploadLockInv, Usage
<1>3. ASSUME NEW u \in Uploads, Receive(u)
      PROVE  UploadLockInv'
  BY Kinds, <1>0, <1>3 DEF UploadLockInv, Receive
<1>4. ASSUME NEW u \in Uploads, Verify(u)
      PROVE  UploadLockInv'
  BY Kinds, <1>0, <1>4 DEF UploadLockInv, Verify
<1>5. ASSUME NEW u \in Uploads, LockModels(u)
      PROVE  UploadLockInv'
  BY Kinds, <1>0, <1>5 DEF UploadLockInv, LockModels, TakeTxLock
<1>6. ASSUME NEW u \in Uploads, Room(u)
      PROVE  UploadLockInv'
  BY Kinds, <1>0, <1>6 DEF UploadLockInv, Room
<1>7. ASSUME NEW u \in Uploads, PickName(u)
      PROVE  UploadLockInv'
  BY Kinds, <1>0, <1>7 DEF UploadLockInv, PickName
<1>8. ASSUME NEW u \in Uploads, Flush(u)
      PROVE  UploadLockInv'
  BY Kinds, <1>0, <1>8 DEF UploadLockInv, Flush, FreeTxLock
<1>9. ASSUME NEW u \in Uploads, Save(u)
      PROVE  UploadLockInv'
  BY Kinds, <1>0, <1>9 DEF UploadLockInv, Save
<1>10. ASSUME NEW u \in Uploads, Commit(u)
      PROVE  UploadLockInv'
  BY Kinds, <1>0, <1>10 DEF UploadLockInv, Commit, FreeTxLock
<1>11. ASSUME NEW u \in Uploads, CommitFails(u)
      PROVE  UploadLockInv'
  BY Kinds, <1>0, <1>11
  DEF UploadLockInv, CommitFails, FreeTxLock, MayFreeTxLock, AfterFailedCommit
<1>12. ASSUME NEW u \in Uploads, Undo(u)
      PROVE  UploadLockInv'
  BY Kinds, <1>0, <1>12 DEF UploadLockInv, Undo
<1>13. ASSUME NEW u \in Uploads, UploadFails(u)
      PROVE  UploadLockInv'
  BY Kinds, <1>0, <1>13 DEF UploadLockInv, UploadFails, FreeTxLock, MayFreeTxLock
<1>14. ASSUME NEW u \in Uploads, Discard(u)
      PROVE  UploadLockInv'
  BY Kinds, <1>0, <1>14 DEF UploadLockInv, Discard
<1>15. ASSUME NEW u \in Uploads, Release(u)
      PROVE  UploadLockInv'
  BY Kinds, <1>0, <1>15 DEF UploadLockInv, Release, FreeTxLock, Unlocked
<1>16. ASSUME NEW x \in Changes, LockChange(x)
      PROVE  UploadLockInv'
  BY Kinds, <1>0, <1>16 DEF UploadLockInv, LockChange, TakeTxLock
<1>17. ASSUME NEW x \in Changes, SelectModel(x)
      PROVE  UploadLockInv'
  <2>1. /\ UNCHANGED <<uplock, unlocked, lapsed>>
        /\ \A u \in Uploads : pc'[u] = pc[u]
    BY Kinds, <1>0, <1>17 DEF SelectModel
  <2> QED
    BY Kinds, <1>0, <2>1 DEF UploadLockInv
<1>18. ASSUME NEW x \in Changes, Change(x)
      PROVE  UploadLockInv'
  <2>1. /\ UNCHANGED <<uplock, unlocked, lapsed>>
        /\ \A u \in Uploads : pc'[u] = pc[u]
    BY ZenonT(60), Kinds, <1>0, <1>18 DEF Change
  <2> QED
    BY Kinds, <1>0, <2>1 DEF UploadLockInv
<1>19. ASSUME NEW d \in Removals, Remove(d)
      PROVE  UploadLockInv'
  <2>1. /\ UNCHANGED <<uplock, unlocked, lapsed>>
        /\ \A u \in Uploads : pc'[u] = pc[u]
    BY Kinds, <1>0, <1>19 DEF Remove
  <2> QED
    BY Kinds, <1>0, <2>1 DEF UploadLockInv
<1>20. ASSUME NEW d \in Removals, CommitRemoval(d)
      PROVE  UploadLockInv'
  BY Kinds, <1>0, <1>20 DEF UploadLockInv, CommitRemoval
<1>21. ASSUME NEW d \in Removals, Unlink(d)
      PROVE  UploadLockInv'
  BY Kinds, <1>0, <1>21 DEF UploadLockInv, Unlink
<1>22. ASSUME NEW c \in Closings, LockClosing(c)
      PROVE  UploadLockInv'
  BY Kinds, <1>0, <1>22 DEF UploadLockInv, LockClosing, TakeTxLock
<1>23. ASSUME NEW c \in Closings, DeleteUser(c)
      PROVE  UploadLockInv'
  BY Kinds, <1>0, <1>23 DEF UploadLockInv, DeleteUser
<1>24. ASSUME NEW c \in Closings, CommitClosing(c)
      PROVE  UploadLockInv'
  BY Kinds, <1>0, <1>24 DEF UploadLockInv, CommitClosing, FreeTxLock
<1>25. ASSUME NEW c \in Closings, DeleteFiles(c)
      PROVE  UploadLockInv'
  BY Kinds, <1>0, <1>25 DEF UploadLockInv, DeleteFiles
<1>26. ASSUME NEW r \in Requests \ Uploads, OtherFails(r)
      PROVE  UploadLockInv'
  BY Kinds, <1>0, <1>26 DEF UploadLockInv, OtherFails, FreeTxLock
<1>27. ASSUME NEW r \in Requests, Arrive(r)
      PROVE  UploadLockInv'
  BY Kinds, <1>0, <1>27 DEF UploadLockInv, Arrive
<1>28. CASE UploadLockExpires
  BY Kinds, <1>0, <1>28 DEF UploadLockInv, UploadLockExpires
<1>29. CASE Sweep
  BY Kinds, <1>0, <1>29 DEF UploadLockInv, Sweep
<1>30. CASE Crash
  BY Kinds, <1>0, <1>30 DEF UploadLockInv, Crash, Running
<1>31. CASE UNCHANGED vars
  BY Kinds, <1>0, <1>31 DEF UploadLockInv, vars
<1> QED
  BY <1>1, <1>2, <1>3, <1>4, <1>5, <1>6, <1>7, <1>8, <1>9, <1>10, <1>11, <1>12,
     <1>13, <1>14, <1>15, <1>16, <1>17, <1>18, <1>19, <1>20, <1>21, <1>22, <1>23,
     <1>24, <1>25, <1>26, <1>27, <1>28, <1>29, <1>30, <1>31
  DEF Next, UploadStep, OtherStep

(***************************************************************************)
(* OneUploadAtATime: the release compares the token, so only an expiry or  *)
(* a Redis error lets two uploads run side by side.                        *)
(***************************************************************************)
THEOREM UploadsRunOneByOne == Spec => []OneUploadAtATime
<1>1. Init => UploadLockInv
  BY DEF Init, UploadLockInv, Requests
<1>2. UploadLockInv => OneUploadAtATime
  BY DEF UploadLockInv, OneUploadAtATime
<1> QED
  BY <1>1, <1>2, UploadLockStep, RowsHold, PTL DEF Spec

(***************************************************************************)
(* RowsAndFilesAgree: between the two every model has its row and its file *)
(* or neither, but for what a lost COMMIT, a crash, a cancellation or a    *)
(* failed unlink excuses.                                                  *)
(***************************************************************************)
THEOREM RowsAgreeWithFiles == Spec => []RowsAndFilesAgree
  BY ModelsKeepTheirFiles, FilesAreAccountedFor, PTL DEF RowsAndFilesAgree

-----------------------------------------------------------------------------
(***************************************************************************)
(* What SumFunctionOnSet adds up: no more over fewer elements, and each    *)
(* element once.                                                           *)
(***************************************************************************)
PickOf(S) == CHOOSE x \in S : TRUE

\* f is the function by which SumFunctionOnSet adds up fun over S.
Adds(f, fun, S) ==
    f = [s \in SUBSET S |-> IF s = {} THEN 0 ELSE fun[PickOf(s)] + f[s \ {PickOf(s)}]]

LEMMA SumIsAdding ==
    ASSUME NEW fun, NEW S
    PROVE  SumFunctionOnSet(fun, S) = (CHOOSE f : Adds(f, fun, S))[S]
BY DEF SumFunctionOnSet, FoldFunctionOnSet, MapThenFoldSet, Adds, PickOf

LEMMA SmallestSubset ==
    ASSUME NEW U, IsFiniteSet(U), NEW T, T \subseteq SUBSET U, T # {}
    PROVE  \E s \in T : \A t \in T : t \subseteq s => t = s
<1>1. T \subseteq FiniteSubsetsOf(U)
  BY FS_FiniteSubsetsOfFinite
<1>2. \E s \in T : \A t \in T : <<t, s>> \notin StrictSubsetOrdering(U)
  BY <1>1, FS_StrictSubsetOrderingWellFounded, WFMin
<1> QED
  BY <1>2 DEF StrictSubsetOrdering

LEMMA AddsStep ==
    ASSUME NEW fun, NEW S, NEW f, Adds(f, fun, S)
    PROVE  /\ f[{}] = 0
           /\ \A s \in SUBSET S : s # {} => /\ PickOf(s) \in s
                                          /\ f[s] = fun[PickOf(s)] + f[s \ {PickOf(s)}]
<1>1. \A s \in SUBSET S :
        f[s] = IF s = {} THEN 0 ELSE fun[PickOf(s)] + f[s \ {PickOf(s)}]
  BY Zenon DEF Adds
<1>2. \A s \in SUBSET S : s # {} => PickOf(s) \in s
  BY DEF PickOf
<1>3. {} \in SUBSET S
  OBVIOUS
<1> HIDE DEF Adds
<1> QED
  BY <1>1, <1>2, <1>3

\* What adds up over a set adds up over every subset alike.
LEMMA AddsAgree ==
    ASSUME NEW fun, NEW S, IsFiniteSet(S), NEW T \in SUBSET S, NEW f, NEW g,
           Adds(f, fun, S), Adds(g, fun, T)
    PROVE  \A s \in SUBSET T : f[s] = g[s]
<1> DEFINE Differ == {s \in SUBSET T : f[s] # g[s]}
<1> SUFFICES ASSUME Differ # {} PROVE FALSE
  OBVIOUS
<1>1. PICK s \in Differ : \A t \in Differ : t \subseteq s => t = s
  <2>1. Differ \subseteq SUBSET S
    OBVIOUS
  <2> HIDE DEF Differ
  <2> QED
    BY <2>1, SmallestSubset
<1>2. s \in SUBSET S /\ s \in SUBSET T /\ f[s] # g[s]
  OBVIOUS
<1>3. s # {}
  BY <1>2, AddsStep
<1> DEFINE t == s \ {PickOf(s)}
<1>4. /\ PickOf(s) \in s
      /\ f[s] = fun[PickOf(s)] + f[t]
      /\ g[s] = fun[PickOf(s)] + g[t]
  BY <1>2, <1>3, AddsStep
<1>5. t \in SUBSET T /\ t \subseteq s /\ t # s
  BY <1>2, <1>4
<1>6. f[t] = g[t]
  BY <1>1, <1>5
<1> QED
  BY <1>2, <1>4, <1>6

LEMMA AddsExists ==
    ASSUME NEW fun, NEW S, IsFiniteSet(S)
    PROVE  \E f : Adds(f, fun, S)
<1> DEFINE Without == {s \in SUBSET S : ~ \E f : Adds(f, fun, s)}
           Total(s) == SumFunctionOnSet(fun, s)
<1> SUFFICES ASSUME Without # {} PROVE FALSE
  OBVIOUS
<1>1. PICK s \in Without : \A t \in Without : t \subseteq s => t = s
  <2>1. Without \subseteq SUBSET S
    OBVIOUS
  <2> HIDE DEF Without
  <2> QED
    BY <2>1, SmallestSubset
<1>2. \A t \in SUBSET s : t # s => \E f : Adds(f, fun, t)
  BY <1>1
<1>3. ASSUME NEW t \in SUBSET s, t # s, t # {}
      PROVE  Total(t) = fun[PickOf(t)] + Total(t \ {PickOf(t)})
  <2> DEFINE r == t \ {PickOf(t)}
  <2>1. PickOf(t) \in t
    BY <1>3 DEF PickOf
  <2>2. r \in SUBSET t /\ r \in SUBSET s /\ r # s
    BY <1>3, <2>1
  <2> DEFINE f == CHOOSE h : Adds(h, fun, t)
             g == CHOOSE h : Adds(h, fun, r)
  <2>3. Adds(f, fun, t) /\ Adds(g, fun, r)
    BY <1>2, <1>3, <2>2
  <2>4. Total(t) = f[t] /\ Total(r) = g[r]
    BY SumIsAdding
  <2>5. IsFiniteSet(t)
    BY FS_Subset
  <2> HIDE DEF f, g, r, Total
  <2>6. f[r] = g[r]
    BY <2>2, <2>3, <2>5, AddsAgree
  <2>7. f[t] = fun[PickOf(t)] + f[r]
    BY <1>3, <2>3, AddsStep DEF r
  <2> QED
    BY <2>4, <2>6, <2>7 DEF r
<1>4. Total({}) = 0 \/ s = {}
  <2> SUFFICES ASSUME s # {} PROVE Total({}) = 0
    OBVIOUS
  <2> DEFINE g == CHOOSE h : Adds(h, fun, {})
  <2>1. Adds(g, fun, {})
    BY <1>2
  <2>2. Total({}) = g[{}]
    BY SumIsAdding
  <2> HIDE DEF g, Total
  <2> QED
    BY <2>1, <2>2, AddsStep
<1> DEFINE F == [t \in SUBSET s |-> IF t = {} THEN 0
                                   ELSE fun[PickOf(t)] + Total(t \ {PickOf(t)})]
<1> HIDE DEF Total
<1>5. ASSUME NEW t \in SUBSET s, t # {}
      PROVE  F[t \ {PickOf(t)}] = Total(t \ {PickOf(t)})
  <2> DEFINE r == t \ {PickOf(t)}
  <2>1. PickOf(t) \in t
    BY <1>5 DEF PickOf
  <2>2. r \in SUBSET s /\ r # s
    BY <2>1
  <2>3. CASE r = {}
    BY <1>4, <2>1, <2>2, <2>3
  <2>4. CASE r # {}
    <3>1. F[r] = fun[PickOf(r)] + Total(r \ {PickOf(r)})
      BY <2>2, <2>4
    <3> QED
      BY <1>3, <2>2, <2>4, <3>1
  <2> QED
    BY <2>3, <2>4
<1>6. F = [t \in SUBSET s |-> IF t = {} THEN 0
                             ELSE fun[PickOf(t)] + F[t \ {PickOf(t)}]]
  BY <1>5
<1>7. Adds(F, fun, s)
  BY <1>6, Zenon DEF Adds
<1> QED
  BY <1>7

\* One function adds up over all subsets.
LEMMA SumAdds ==
    ASSUME NEW fun, NEW U, IsFiniteSet(U), NEW S \in SUBSET U, S # {}
    PROVE  /\ PickOf(S) \in S
           /\ SumFunctionOnSet(fun, S) =
                 fun[PickOf(S)] + SumFunctionOnSet(fun, S \ {PickOf(S)})
<1> DEFINE r == S \ {PickOf(S)}
           f == CHOOSE h : Adds(h, fun, S)
           g == CHOOSE h : Adds(h, fun, r)
<1>1. IsFiniteSet(S) /\ r \in SUBSET S
  BY FS_Subset
<1>2. IsFiniteSet(r)
  BY <1>1, FS_Subset
<1>3. Adds(f, fun, S) /\ Adds(g, fun, r)
  BY <1>1, <1>2, AddsExists
<1>4. SumFunctionOnSet(fun, S) = f[S] /\ SumFunctionOnSet(fun, r) = g[r]
  BY SumIsAdding
<1> HIDE DEF f, g, r
<1>5. f[r] = g[r]
  BY <1>1, <1>3, AddsAgree
<1>6. PickOf(S) \in S /\ f[S] = fun[PickOf(S)] + f[r]
  BY <1>3, AddsStep DEF r
<1> QED
  BY <1>4, <1>5, <1>6 DEF r

LEMMA SumOfNone ==
    ASSUME NEW fun PROVE SumFunctionOnSet(fun, {}) = 0
<1> DEFINE f == CHOOSE h : Adds(h, fun, {})
<1>1. Adds(f, fun, {})
  BY AddsExists, FS_EmptySet
<1>2. SumFunctionOnSet(fun, {}) = f[{}]
  BY SumIsAdding
<1> HIDE DEF f
<1> QED
  BY <1>1, <1>2, AddsStep

LEMMA SumIsNat ==
    ASSUME NEW U, IsFiniteSet(U), NEW fun \in [U -> Nat], NEW S \in SUBSET U
    PROVE  SumFunctionOnSet(fun, S) \in Nat
<1> DEFINE Bad == {s \in SUBSET U : SumFunctionOnSet(fun, s) \notin Nat}
<1> SUFFICES ASSUME Bad # {} PROVE FALSE
  OBVIOUS
<1>1. PICK s \in Bad : \A t \in Bad : t \subseteq s => t = s
  <2>1. Bad \subseteq SUBSET U
    OBVIOUS
  <2> HIDE DEF Bad
  <2> QED
    BY <2>1, SmallestSubset
<1>2. s \in SUBSET U /\ SumFunctionOnSet(fun, s) \notin Nat
  OBVIOUS
<1>3. s # {}
  BY <1>2, SumOfNone
<1>4. /\ PickOf(s) \in s
      /\ SumFunctionOnSet(fun, s) = fun[PickOf(s)] + SumFunctionOnSet(fun, s \ {PickOf(s)})
  BY <1>2, <1>3, SumAdds
<1>5. s \ {PickOf(s)} \notin Bad
  BY <1>1, <1>4
<1>6. SumFunctionOnSet(fun, s \ {PickOf(s)}) \in Nat
  BY <1>2, <1>5
<1>7. fun[PickOf(s)] \in Nat
  BY <1>2, <1>4
<1> QED
  BY <1>2, <1>4, <1>6, <1>7

\* Any element may be taken out.
LEMMA SumWithout ==
    ASSUME NEW U, IsFiniteSet(U), NEW fun \in [U -> Nat], NEW S \in SUBSET U
    PROVE  \A x \in S : SumFunctionOnSet(fun, S) = fun[x] + SumFunctionOnSet(fun, S \ {x})
<1> DEFINE Sum(s) == SumFunctionOnSet(fun, s)
           Bad == {s \in SUBSET U : \E x \in s : Sum(s) # fun[x] + Sum(s \ {x})}
<1> SUFFICES ASSUME Bad # {} PROVE FALSE
  OBVIOUS
<1>1. PICK s \in Bad : \A t \in Bad : t \subseteq s => t = s
  <2>1. Bad \subseteq SUBSET U
    OBVIOUS
  <2> HIDE DEF Bad
  <2> QED
    BY <2>1, SmallestSubset
<1>2. PICK x \in s : s \in SUBSET U /\ Sum(s) # fun[x] + Sum(s \ {x})
  OBVIOUS
<1>3. \A t \in SUBSET s : t # s => \A y \in t : Sum(t) = fun[y] + Sum(t \ {y})
  BY <1>1
<1> DEFINE c == PickOf(s)
           r == s \ {c, x}
<1>4. c \in s /\ Sum(s) = fun[c] + Sum(s \ {c})
  BY <1>2, SumAdds
<1>5. c # x
  BY <1>2, <1>4
<1>6. /\ s \ {c} \in SUBSET s /\ s \ {c} # s /\ x \in s \ {c} /\ (s \ {c}) \ {x} = r
      /\ s \ {x} \in SUBSET s /\ s \ {x} # s /\ c \in s \ {x} /\ (s \ {x}) \ {c} = r
  BY <1>2, <1>4, <1>5
<1>7. Sum(r) \in Nat /\ fun[c] \in Nat /\ fun[x] \in Nat
  BY <1>2, <1>4, SumIsNat
<1> HIDE DEF Sum, Bad, c, r
<1>8. Sum(s \ {c}) = fun[x] + Sum(r)
  BY <1>3, <1>6
<1>9. Sum(s \ {x}) = fun[c] + Sum(r)
  BY <1>3, <1>6
<1> QED
  BY <1>2, <1>4, <1>7, <1>8, <1>9

\* Less is in less of the elements.
LEMMA SumOfFewer ==
    ASSUME NEW U, IsFiniteSet(U), NEW fun \in [U -> Nat], NEW S \in SUBSET U, NEW T \in SUBSET S
    PROVE  SumFunctionOnSet(fun, T) <= SumFunctionOnSet(fun, S)
<1> DEFINE Sum(s) == SumFunctionOnSet(fun, s)
           Bad == {s \in SUBSET U : T \subseteq s /\ ~(Sum(T) <= Sum(s))}
<1> SUFFICES ASSUME Bad # {} PROVE FALSE
  OBVIOUS
<1>1. PICK s \in Bad : \A t \in Bad : t \subseteq s => t = s
  <2>1. Bad \subseteq SUBSET U
    OBVIOUS
  <2> HIDE DEF Bad
  <2> QED
    BY <2>1, SmallestSubset
<1>2. s \in SUBSET U /\ T \subseteq s /\ ~(Sum(T) <= Sum(s))
  OBVIOUS
<1>3. Sum(T) \in Nat /\ Sum(s) \in Nat
  BY <1>2, SumIsNat
<1>4. PICK x \in s : x \notin T
  BY <1>2, <1>3
<1>5. s \ {x} \in SUBSET U /\ T \subseteq s \ {x}
  BY <1>2, <1>4
<1>6. Sum(T) <= Sum(s \ {x})
  BY <1>1, <1>4, <1>5
<1>7. Sum(s) = fun[x] + Sum(s \ {x})
  BY <1>2, <1>4, SumWithout
<1>8. Sum(s \ {x}) \in Nat /\ fun[x] \in Nat
  BY <1>2, <1>4, <1>5, SumIsNat
<1> QED
  BY <1>2, <1>3, <1>6, <1>7, <1>8

-----------------------------------------------------------------------------
(***************************************************************************)
(* QuotaInv: the models kept fit, and so does, next to them, the model of  *)
(* an upload that has looked under the lock.                               *)
(***************************************************************************)
Admitted(u) == pc[u] \in {"name", "flush", "save", "commit"}

QuotaInv ==
    /\ WithinQuota
    /\ \A u \in Uploads : Admitted(u) => HasRoom(Size[u])

\* What a step may do to the models and to the uploads admitted: admit one that
\* fits while the models are no more than before, or put in one that was
\* admitted while no upload stays so.
AdmitsWhatFits ==
    /\ Models' \subseteq Models
    /\ \A u \in Uploads : Admitted(u)' => Admitted(u) \/ HasRoom(Size[u])

KeepsWhatFits ==
    /\ \E u \in Uploads : Admitted(u) /\ Models' \subseteq Models \cup {u}
    /\ \A u \in Uploads : ~Admitted(u)'

\* Fewer models take no more room.
LEMMA FewerFit ==
    ASSUME NEW M \in SUBSET Uploads, NEW N \in SUBSET M
    PROVE  /\ Cardinality(N) \in Nat /\ Cardinality(M) \in Nat
           /\ Cardinality(N) <= Cardinality(M)
           /\ SumFunctionOnSet(Size, N) \in Nat /\ SumFunctionOnSet(Size, M) \in Nat
           /\ SumFunctionOnSet(Size, N) <= SumFunctionOnSet(Size, M)
<1>1. IsFiniteSet(M) /\ IsFiniteSet(Uploads) /\ Size \in [Uploads -> Nat]
  BY UploadsAssumption, FS_Subset
<1>2. N \in SUBSET Uploads /\ IsFiniteSet(N)
  BY <1>1, FS_Subset
<1> QED
  BY <1>1, <1>2, FS_CardinalityType, FS_Subset, SumIsNat, SumOfFewer

\* One more model takes its own size.
LEMMA OneMoreFits ==
    ASSUME NEW M \in SUBSET Uploads, NEW u \in Uploads
    PROVE  /\ Cardinality(M \cup {u}) <= Cardinality(M) + 1
           /\ SumFunctionOnSet(Size, M \cup {u}) <= SumFunctionOnSet(Size, M) + Size[u]
<1>1. IsFiniteSet(M) /\ IsFiniteSet(Uploads) /\ Size \in [Uploads -> Nat]
  BY UploadsAssumption, FS_Subset
<1>2. Cardinality(M) \in Nat /\ SumFunctionOnSet(Size, M) \in Nat /\ Size[u] \in Nat
  BY <1>1, FewerFit
<1> DEFINE N == M \cup {u}
<1>3. CASE u \in M
  <2>1. N = M
    BY <1>3
  <2> HIDE DEF N
  <2>2. /\ Cardinality(N) <= Cardinality(M) + 1
        /\ SumFunctionOnSet(Size, N) <= SumFunctionOnSet(Size, M) + Size[u]
    BY <1>2, <2>1
  <2> QED
    BY <2>2 DEF N
<1>4. CASE u \notin M
  <2>1. N \ {u} = M /\ N \in SUBSET Uploads
    BY <1>4
  <2>2. Cardinality(N) = Cardinality(M) + 1
    BY <1>1, <1>4, FS_AddElement
  <2>3. SumFunctionOnSet(Size, N) = Size[u] + SumFunctionOnSet(Size, M)
    BY <1>1, <2>1, SumWithout
  <2> HIDE DEF N
  <2> QED
    BY <1>2, <2>2, <2>3 DEF N
<1> QED
  BY <1>3, <1>4

\* Either change keeps the invariant.
LEMMA QuotaIsKept ==
    ASSUME QuotaInv, AdmitsWhatFits \/ KeepsWhatFits
    PROVE  QuotaInv'
<1>1. /\ Models \in SUBSET Uploads /\ Models' \in SUBSET Uploads
      /\ Quota \in Nat /\ ModelsMax \in Nat /\ \A u \in Uploads : Size[u] \in Nat
  BY UploadsAssumption DEF Models
<1> DEFINE C == Cardinality(Models)
           Cn == Cardinality(Models')
           T == SumFunctionOnSet(Size, Models)
           Tn == SumFunctionOnSet(Size, Models')
<1>2. C <= ModelsMax /\ T <= Quota
  BY DEF QuotaInv, WithinQuota
<1>3. C \in Nat /\ Cn \in Nat /\ T \in Nat /\ Tn \in Nat
  BY <1>1, FewerFit
<1>4. CASE AdmitsWhatFits
  <2>1. Cn <= C /\ Tn <= T
    BY <1>1, <1>4, FewerFit DEF AdmitsWhatFits
  <2>2. \A u \in Uploads : Admitted(u)' => C < ModelsMax /\ T + Size[u] <= Quota
    BY <1>4 DEF AdmitsWhatFits, QuotaInv, HasRoom
  <2>3. \A u \in Uploads : Admitted(u)' => Cn < ModelsMax /\ Tn + Size[u] <= Quota
    BY <1>1, <1>3, <2>1, <2>2
  <2>4. Cn <= ModelsMax /\ Tn <= Quota
    BY <1>1, <1>2, <1>3, <2>1
  <2> QED
    BY <2>3, <2>4 DEF QuotaInv, WithinQuota, HasRoom
<1>5. CASE KeepsWhatFits
  <2>1. PICK u \in Uploads : Admitted(u) /\ Models' \subseteq Models \cup {u}
    BY <1>5 DEF KeepsWhatFits
  <2>2. C < ModelsMax /\ T + Size[u] <= Quota
    BY <2>1 DEF QuotaInv, HasRoom
  <2> DEFINE M == Models \cup {u}
  <2>3. Cardinality(M) <= C + 1 /\ SumFunctionOnSet(Size, M) <= T + Size[u]
    BY <1>1, OneMoreFits
  <2>4. /\ Cn <= Cardinality(M) /\ Tn <= SumFunctionOnSet(Size, M)
        /\ Cardinality(M) \in Nat /\ SumFunctionOnSet(Size, M) \in Nat
    BY <1>1, <2>1, FewerFit
  <2> HIDE DEF M, C, Cn, T, Tn
  <2>5. Cn <= ModelsMax /\ Tn <= Quota
    BY <1>1, <1>3, <2>2, <2>3, <2>4
  <2> QED
    BY <1>5, <2>5 DEF KeepsWhatFits, QuotaInv, WithinQuota, Cn, Tn
<1> QED
  BY <1>4, <1>5

\* The models after COMMITs are applied are those of before, and of the uploads
\* among them.
LEMMA ModelsAfter ==
    ASSUME NEW applied \in SUBSET Committing, name' = NamesAfter(applied)
    PROVE  Models' \subseteq Models \cup (applied \cap Uploads)
<1>1. ASSUME NEW u \in Uploads, name'[u] # None, u \notin applied
      PROVE  name[u] # None
  BY <1>1, NamesAfterCases
<1> QED
  BY <1>1 DEF Models

\* An upload that is being kept is the only one admitted.
LEMMA OneAdmitted ==
    ASSUME LockInv, NEW u \in Uploads, pc[u] = "commit", NEW v \in Uploads, Admitted(v)
    PROVE  v = u
BY Kinds, OneTransaction DEF HoldsTxLock, Admitted

\* Every step of ModelUploads is one of the two.
LEMMA QuotaChanges ==
     Types /\ LockInv /\ [Next]_vars => AdmitsWhatFits \/ KeepsWhatFits
<1> SUFFICES ASSUME Types, LockInv, [Next]_vars PROVE AdmitsWhatFits \/ KeepsWhatFits
  OBVIOUS
<1> USE DEF Goto, Ends, db, redis, storage, history
<1>0. /\ pc \in [Requests -> Pcs] /\ name \in [Uploads -> Nat \cup {None}]
      /\ None \notin Nat /\ Numbers \subseteq Nat
  BY UploadsAssumption DEF Types
<1>1. ASSUME NEW u \in Uploads, Hold(u)
      PROVE  AdmitsWhatFits \/ KeepsWhatFits
  BY Kinds, <1>0, <1>1 DEF AdmitsWhatFits, Admitted, Models, Hold
<1>2. ASSUME NEW u \in Uploads, Usage(u)
      PROVE  AdmitsWhatFits \/ KeepsWhatFits
  BY Kinds, <1>0, <1>2 DEF AdmitsWhatFits, Admitted, Models, Usage
<1>3. ASSUME NEW u \in Uploads, Receive(u)
      PROVE  AdmitsWhatFits \/ KeepsWhatFits
  BY Kinds, <1>0, <1>3 DEF AdmitsWhatFits, Admitted, Models, Receive
<1>4. ASSUME NEW u \in Uploads, Verify(u)
      PROVE  AdmitsWhatFits \/ KeepsWhatFits
  BY Kinds, <1>0, <1>4 DEF AdmitsWhatFits, Admitted, Models, Verify
<1>5. ASSUME NEW u \in Uploads, LockModels(u)
      PROVE  AdmitsWhatFits \/ KeepsWhatFits
  BY Kinds, <1>0, <1>5 DEF AdmitsWhatFits, Admitted, Models, LockModels, TakeTxLock
<1>6. ASSUME NEW u \in Uploads, Room(u)
      PROVE  AdmitsWhatFits \/ KeepsWhatFits
  BY Kinds, <1>0, <1>6 DEF AdmitsWhatFits, Admitted, Models, Room
<1>7. ASSUME NEW u \in Uploads, PickName(u)
      PROVE  AdmitsWhatFits \/ KeepsWhatFits
  BY Kinds, <1>0, <1>7 DEF AdmitsWhatFits, Admitted, Models, PickName
<1>8. ASSUME NEW u \in Uploads, Flush(u)
      PROVE  AdmitsWhatFits \/ KeepsWhatFits
  BY Kinds, <1>0, <1>8 DEF AdmitsWhatFits, Admitted, Models, Flush
<1>9. ASSUME NEW u \in Uploads, Save(u)
      PROVE  AdmitsWhatFits \/ KeepsWhatFits
  BY Kinds, <1>0, <1>9 DEF AdmitsWhatFits, Admitted, Models, Save
<1>10. ASSUME NEW u \in Uploads, Commit(u)
      PROVE  AdmitsWhatFits \/ KeepsWhatFits
  <2>1. pc[u] = "commit" /\ pc' = [pc EXCEPT ![u] = "discard"]
    BY <1>10 DEF Commit
  <2>2. {u} \in SUBSET Committing
    BY Kinds, <2>1 DEF Committing
  <2>3. \A v \in Uploads : ~Admitted(v)'
    BY Kinds, <1>0, <2>1, OneAdmitted DEF Admitted
  <2>4. UNCHANGED name \/ name' = NamesAfter({u})
    BY <1>10 DEF Commit
  <2>5. Models' \subseteq Models \cup {u}
    BY <2>2, <2>4, ModelsAfter DEF Models
  <2> QED
    BY <2>1, <2>3, <2>5 DEF KeepsWhatFits, Admitted
<1>11. ASSUME NEW u \in Uploads, CommitFails(u)
      PROVE  AdmitsWhatFits \/ KeepsWhatFits
  <2>1. pc[u] = "commit" /\ pc' = [pc EXCEPT ![u] = "undo"]
    BY <1>11 DEF CommitFails, AfterFailedCommit
  <2>2. {u} \in SUBSET Committing
    BY Kinds, <2>1 DEF Committing
  <2>3. \A v \in Uploads : ~Admitted(v)'
    BY Kinds, <1>0, <2>1, OneAdmitted DEF Admitted
  <2>4. UNCHANGED name \/ name' = NamesAfter({u})
    BY <1>11 DEF CommitFails
  <2>5. Models' \subseteq Models \cup {u}
    BY <2>2, <2>4, ModelsAfter DEF Models
  <2> QED
    BY <2>1, <2>3, <2>5 DEF KeepsWhatFits, Admitted
<1>12. ASSUME NEW u \in Uploads, Undo(u)
      PROVE  AdmitsWhatFits \/ KeepsWhatFits
  BY Kinds, <1>0, <1>12 DEF AdmitsWhatFits, Admitted, Models, Undo
<1>13. ASSUME NEW u \in Uploads, UploadFails(u)
      PROVE  AdmitsWhatFits \/ KeepsWhatFits
  BY Kinds, <1>0, <1>13 DEF AdmitsWhatFits, Admitted, Models, UploadFails
<1>14. ASSUME NEW u \in Uploads, Discard(u)
      PROVE  AdmitsWhatFits \/ KeepsWhatFits
  BY Kinds, <1>0, <1>14 DEF AdmitsWhatFits, Admitted, Models, Discard
<1>15. ASSUME NEW u \in Uploads, Release(u)
      PROVE  AdmitsWhatFits \/ KeepsWhatFits
  BY Kinds, <1>0, <1>15 DEF AdmitsWhatFits, Admitted, Models, Release
<1>16. ASSUME NEW x \in Changes, LockChange(x)
      PROVE  AdmitsWhatFits \/ KeepsWhatFits
  BY Kinds, <1>0, <1>16 DEF AdmitsWhatFits, Admitted, Models, LockChange
<1>17. ASSUME NEW x \in Changes, SelectModel(x)
      PROVE  AdmitsWhatFits \/ KeepsWhatFits
  BY Kinds, <1>0, <1>17 DEF AdmitsWhatFits, Admitted, Models, SelectModel
<1>18. ASSUME NEW x \in Changes, Change(x)
      PROVE  AdmitsWhatFits \/ KeepsWhatFits
  <2>1. pc' = [pc EXCEPT ![x] = "done"]
    BY <1>18 DEF Change
  <2>2. \/ UNCHANGED name
        \/ pick[x] \in Models /\ \E new : name' = [name EXCEPT ![pick[x]] = new]
    BY <1>18 DEF Change
  <2>3. Models' \subseteq Models
    BY <1>0, <2>2 DEF Models
  <2>4. \A u \in Uploads : pc'[u] = pc[u]
    BY Kinds, <1>0, <2>1
  <2> QED
    BY <2>3, <2>4 DEF AdmitsWhatFits, Admitted
<1>19. ASSUME NEW d \in Removals, Remove(d)
      PROVE  AdmitsWhatFits \/ KeepsWhatFits
  BY Kinds, <1>0, <1>19 DEF AdmitsWhatFits, Admitted, Models, Remove
<1>20. ASSUME NEW d \in Removals, CommitRemoval(d)
      PROVE  AdmitsWhatFits \/ KeepsWhatFits
  <2>1. /\ pc[d] = "commit" /\ name' = NamesAfter({d})
        /\ pc' = [pc EXCEPT ![d] = "unlink"]
    BY <1>20 DEF CommitRemoval
  <2>2. {d} \in SUBSET Committing /\ {d} \cap Uploads = {}
    BY Kinds, <2>1 DEF Committing
  <2>3. Models' \subseteq Models
    BY <2>1, <2>2, ModelsAfter
  <2> QED
    BY Kinds, <1>0, <2>1, <2>3 DEF AdmitsWhatFits, Admitted
<1>21. ASSUME NEW d \in Removals, Unlink(d)
      PROVE  AdmitsWhatFits \/ KeepsWhatFits
  BY Kinds, <1>0, <1>21 DEF AdmitsWhatFits, Admitted, Models, Unlink
<1>22. ASSUME NEW c \in Closings, LockClosing(c)
      PROVE  AdmitsWhatFits \/ KeepsWhatFits
  BY Kinds, <1>0, <1>22 DEF AdmitsWhatFits, Admitted, Models, LockClosing
<1>23. ASSUME NEW c \in Closings, DeleteUser(c)
      PROVE  AdmitsWhatFits \/ KeepsWhatFits
  BY Kinds, <1>0, <1>23 DEF AdmitsWhatFits, Admitted, Models, DeleteUser
<1>24. ASSUME NEW c \in Closings, CommitClosing(c)
      PROVE  AdmitsWhatFits \/ KeepsWhatFits
  <2>1. /\ pc[c] = "commit" /\ name' = NamesAfter({c})
        /\ pc' = [pc EXCEPT ![c] = "files"]
    BY <1>24 DEF CommitClosing
  <2>2. {c} \in SUBSET Committing /\ {c} \cap Uploads = {}
    BY Kinds, <2>1 DEF Committing
  <2>3. Models' \subseteq Models
    BY <2>1, <2>2, ModelsAfter
  <2> QED
    BY Kinds, <1>0, <2>1, <2>3 DEF AdmitsWhatFits, Admitted
<1>25. ASSUME NEW c \in Closings, DeleteFiles(c)
      PROVE  AdmitsWhatFits \/ KeepsWhatFits
  BY Kinds, <1>0, <1>25 DEF AdmitsWhatFits, Admitted, Models, DeleteFiles
<1>26. ASSUME NEW r \in Requests \ Uploads, OtherFails(r)
      PROVE  AdmitsWhatFits \/ KeepsWhatFits
  <2>1. PICK applied \in SUBSET ({r} \cap Committing) : name' = NamesAfter(applied)
    BY <1>26 DEF OtherFails
  <2>2. Models' \subseteq Models
    BY <2>1, ModelsAfter
  <2>3. pc' = [pc EXCEPT ![r] = "done"]
    BY <1>26 DEF OtherFails
  <2> QED
    BY <1>0, <2>2, <2>3 DEF AdmitsWhatFits, Admitted
<1>27. ASSUME NEW r \in Requests, Arrive(r)
      PROVE  AdmitsWhatFits \/ KeepsWhatFits
  BY Kinds, <1>0, <1>27 DEF AdmitsWhatFits, Admitted, Models, Arrive
<1>28. CASE UploadLockExpires
  BY <1>28 DEF AdmitsWhatFits, Admitted, Models, UploadLockExpires
<1>29. CASE Sweep
  BY <1>29 DEF AdmitsWhatFits, Admitted, Models, Sweep
<1>30. CASE Crash
  <2>1. PICK applied \in SUBSET Committing : name' = NamesAfter(applied)
    BY <1>30 DEF Crash
  <2>2. \A u \in Uploads : ~Admitted(u)'
    BY Kinds, <1>0, <1>30 DEF Crash, Running, Admitted
  <2>3. CASE applied \cap Uploads = {}
    BY <2>1, <2>2, <2>3, ModelsAfter DEF AdmitsWhatFits
  <2>4. ASSUME NEW u \in applied \cap Uploads
        PROVE  KeepsWhatFits
    <3>1. pc[u] = "commit"
      BY <2>4 DEF Committing
    <3>2. applied \cap Uploads \subseteq {u}
      BY <3>1, OneAdmitted DEF Committing, Admitted
    <3>3. Models' \subseteq Models \cup {u}
      BY <2>1, <3>2, ModelsAfter
    <3> QED
      BY <2>2, <3>1, <3>3 DEF KeepsWhatFits, Admitted
  <2> QED
    BY <2>3, <2>4
<1>31. CASE UNCHANGED vars
  BY <1>31 DEF AdmitsWhatFits, Admitted, Models, vars
<1> QED
  BY <1>1, <1>2, <1>3, <1>4, <1>5, <1>6, <1>7, <1>8, <1>9, <1>10, <1>11, <1>12,
     <1>13, <1>14, <1>15, <1>16, <1>17, <1>18, <1>19, <1>20, <1>21, <1>22, <1>23,
     <1>24, <1>25, <1>26, <1>27, <1>28, <1>29, <1>30, <1>31
  DEF Next, UploadStep, OtherStep

(***************************************************************************)
(* WithinQuota: the count and the bytes are looked at again under the lock *)
(* that every row goes in with, so uploads side by side never keep more    *)
(* models, or more bytes, than a user may have.                            *)
(***************************************************************************)
THEOREM ModelsFitTheQuota == Spec => []WithinQuota
<1>1. Init => QuotaInv
  <2> SUFFICES ASSUME Init PROVE QuotaInv
    OBVIOUS
  <2>1. Models = {}
    BY DEF Init, Models
  <2>2. \A u \in Uploads : ~Admitted(u)
    BY DEF Init, Admitted, Requests
  <2>3. Cardinality(Models) = 0 /\ SumFunctionOnSet(Size, Models) = 0
    BY <2>1, FS_EmptySet, SumOfNone
  <2> QED
    BY <2>2, <2>3, UploadsAssumption DEF QuotaInv, WithinQuota
<1>2. Types /\ LockInv /\ QuotaInv /\ [Next]_vars => QuotaInv'
  BY QuotaChanges, QuotaIsKept
<1>3. QuotaInv => WithinQuota
  BY DEF QuotaInv
<1> QED
  BY <1>1, <1>2, <1>3, RowsHold, PTL DEF Spec
=============================================================================
