---------------------------- MODULE ModelUploads ----------------------------
(***************************************************************************)
(* The model files of one user: ModelsService and ModelsAccountDeletion of *)
(* ml/service.py with the upload lock in Redis (ml/uploads.py), the table  *)
(* in Postgres (ml/store.py), the files (ml/storage.py) and the account's  *)
(* deletion (accounts/service.py) that runs the hook.                      *)
(*                                                                         *)
(* A request is an upload, a change (rename or star), a deletion of one    *)
(* model or the deletion of the account.  One step is one statement to     *)
(* Postgres, one Redis command or one operation on the storage.  Every     *)
(* lock, constraint and file is the user's own, so one user is enough; the *)
(* queue of the check in the child process is shared and left out here.    *)
(* A model has the identity of the upload that made it.                    *)
(***************************************************************************)
EXTENDS Integers, FiniteSets, Functions

CONSTANTS
    Uploads,    \* calls of ModelsService.upload
    Changes,    \* calls of ModelsService.update
    Removals,   \* calls of ModelsService.delete
    Closings,   \* calls of AccountsService.delete_account
    Size,       \* the size of the file of each upload
    Quota,      \* QUOTA_BYTES
    ModelsMax,  \* MODELS_MAX
    Numbers,    \* the numbers a name may carry: model (n).keras, lowercased
    None

Requests == Uploads \cup Changes \cup Removals \cup Closings

ASSUME UploadsAssumption ==
    /\ Uploads \cap (Changes \cup Removals \cup Closings) = {}
    /\ Changes \cap (Removals \cup Closings) = {}
    /\ Removals \cap Closings = {}
    /\ IsFiniteSet(Uploads) /\ None \notin Requests
    /\ Size \in [Uploads -> Nat \ {0}]
    /\ Quota \in Nat /\ ModelsMax \in Nat
    /\ Numbers \subseteq Nat \ {0} /\ None \notin Nat

VARIABLES
    account,    \* Postgres: the user's row is there
    name,       \* Postgres: the number in the name of each model, None = no row
    txlock,     \* Postgres: who holds the advisory lock of the user's models
    uplock,     \* Redis: the token in ml:upload:<user>, an upload
    files,      \* storage: the models whose file is in its place
    incoming,   \* storage: the uploads with an incoming file
    pc,         \* where each request is
    pick,       \* the name an upload inserts; the model a change or removal is of
    result,     \* how a request ended
    unlocked,   \* uploads that go on without the lock, as Redis failed
    \* history, read by no action
    lapsed,     \* uploads whose lock expired
    unsure,     \* uploads whose COMMIT was applied and still raised
    strays      \* model files left by a crash, a cancellation or a failed unlink

db      == <<account, name, txlock>>
redis   == <<uplock, unlocked>>
storage == <<files, incoming>>
history == <<lapsed, unsure, strays>>
vars    == <<account, name, txlock, uplock, files, incoming, pc, pick, result,
             unlocked, lapsed, unsure, strays>>

\* The transaction of an upload that has inserted its row.
Inserted == {u \in Uploads : pc[u] \in {"save", "commit"}}

\* In a transaction of the user's models.
InTransaction == {"room", "name", "flush", "save", "select", "check", "delete", "commit"}

Pcs == {"idle", "hold", "usage", "receive", "verify", "lock", "undo", "discard",
        "release", "unlink", "files", "done"} \cup InTransaction

Results == {"none", "ok", "in progress", "full", "failed", "name taken",
            "account gone", "not found", "stale"}

\* The requests that run.
Running == {r \in Requests : pc[r] \notin {"idle", "done"}}

\* Every variable has its type, and the advisory lock is that of a running request.
TypeOK ==
    /\ account \in BOOLEAN
    /\ name \in [Uploads -> Nat \cup {None}]
    /\ txlock \in Running \cup {None}
    /\ uplock \in Uploads \cup {None}
    /\ files \subseteq Uploads /\ incoming \subseteq Uploads
    /\ pc \in [Requests -> Pcs]
    /\ pick \in [Requests -> Nat \cup Uploads \cup {None}]
    /\ result \in [Requests -> Results]
    /\ unlocked \subseteq Uploads
    /\ lapsed \subseteq Uploads /\ unsure \subseteq Uploads /\ strays \subseteq Uploads

Init ==
    /\ account = TRUE
    /\ name = [u \in Uploads |-> None]
    /\ txlock = None /\ uplock = None
    /\ files = {} /\ incoming = {}
    /\ pc = [r \in Requests |-> "idle"]
    /\ pick = [r \in Requests |-> None]
    /\ result = [r \in Requests |-> "none"]
    /\ unlocked = {} /\ lapsed = {} /\ unsure = {} /\ strays = {}

-----------------------------------------------------------------------------
(***************************************************************************)
(* Helpers.                                                                *)
(***************************************************************************)

Goto(r, place) == pc' = [pc EXCEPT ![r] = place]

Ends(r, place, how) == Goto(r, place) /\ result' = [result EXCEPT ![r] = how]

\* The rows a statement sees: those committed.
Models == {u \in Uploads : name[u] # None}

Taken == {name[u] : u \in Models}

\* _check_room: the count and the bytes of the models kept so far.
HasRoom(size) ==
    /\ Cardinality(Models) < ModelsMax
    /\ SumFunctionOnSet(Size, Models) + size <= Quota

\* free_name: the first number that makes it none of `taken'.
FreeNumber(taken) ==
    CHOOSE n \in 1..(Cardinality(taken) + 1) :
        n \notin taken /\ \A m \in 1..(n - 1) : m \in taken

\* The _RELEASE script of uploads.py: only the lock of this token.
Unlocked(u) == IF uplock = u THEN None ELSE uplock

TakeTxLock(r) == txlock = None /\ txlock' = r

\* Wrong variant of FreeTxLock: a lock of the session (pg_advisory_lock).
TxLockStays(r) == txlock' = txlock

\* The end of the transaction frees pg_advisory_xact_lock.
FreeTxLock(r) == txlock' = IF txlock = r THEN None ELSE txlock

\* An exception unwinds to the session, which rolls back when the request is
\* over; a connection that is lost is rolled back at once.
MayFreeTxLock(r) == FreeTxLock(r) \/ UNCHANGED txlock

\* The rows and the account once the COMMITs of `applied' are.
NamesAfter(applied) ==
    [u \in Uploads |->
        IF \/ applied \cap Closings # {}
           \/ \E d \in applied \cap Removals : pick[d] = u
        THEN None
        ELSE IF u \in applied THEN pick[u] ELSE name[u]]

AccountAfter(applied) == account /\ applied \cap Closings = {}

-----------------------------------------------------------------------------
(***************************************************************************)
(* Uploads.                                                                *)
(***************************************************************************)

\* SET NX EX of hold(): the lock, a refusal, a Redis error, which lets the
\* upload go on unlocked, or a cancellation, which ends it; whether or not the
\* command was applied.
Hold(u) ==
    /\ pc[u] = "hold"
    /\ \/ /\ uplock = None
          /\ uplock' = u /\ Goto(u, "usage") /\ UNCHANGED <<result, unlocked>>
       \/ uplock # None /\ Ends(u, "done", "in progress") /\ UNCHANGED <<uplock, unlocked>>
       \/ /\ uplock' \in (IF uplock = None THEN {None, u} ELSE {uplock})
          /\ \/ Goto(u, "usage") /\ unlocked' = unlocked \cup {u} /\ UNCHANGED result
             \/ Ends(u, "done", "failed") /\ UNCHANGED unlocked
    /\ UNCHANGED <<db, storage, pick, history>>

\* The first look, before anything is read: the size announced, or one byte.
Usage(u) ==
    /\ pc[u] = "usage"
    /\ \E declared \in {Size[u], 1} :
          \/ HasRoom(declared) /\ Goto(u, "receive") /\ UNCHANGED result
          \/ ~HasRoom(declared) /\ Ends(u, "release", "full")
    /\ UNCHANGED <<db, redis, storage, pick, history>>

Receive(u) ==
    /\ pc[u] = "receive"
    /\ incoming' = incoming \cup {u}
    /\ \/ Goto(u, "verify") /\ UNCHANGED result
       \/ Ends(u, "discard", "failed")      \* too large, too slow or empty
    /\ UNCHANGED <<db, redis, files, pick, history>>

\* check_upload in the child process.
Verify(u) ==
    /\ pc[u] = "verify"
    /\ \/ Goto(u, "lock") /\ UNCHANGED result
       \/ Ends(u, "discard", "failed")
    /\ UNCHANGED <<db, redis, storage, pick, history>>

LockModels(u) ==
    /\ pc[u] = "lock"
    /\ TakeTxLock(u)
    /\ Goto(u, "room")
    /\ UNCHANGED <<account, name, redis, storage, pick, result, history>>

\* Wrong variant of Room: the first look at the quota was enough.
RoomUnchecked(u) ==
    /\ pc[u] = "room"
    /\ Goto(u, "name")
    /\ UNCHANGED <<db, redis, storage, pick, result, history>>

\* The second look, under the lock.
Room(u) ==
    /\ pc[u] = "room"
    /\ \/ HasRoom(Size[u]) /\ Goto(u, "name") /\ UNCHANGED result
       \/ ~HasRoom(Size[u]) /\ Ends(u, "discard", "full")
    /\ UNCHANGED <<db, redis, storage, pick, history>>

PickName(u) ==
    /\ pc[u] = "name"
    /\ pick' = [pick EXCEPT ![u] = FreeNumber(Taken)]
    /\ Goto(u, "flush")
    /\ UNCHANGED <<db, redis, storage, result, history>>

\* Wrong variant of Flush: no foreign key to the user.
FlushWithoutUser(u) ==
    /\ pc[u] = "flush"
    /\ Goto(u, "save")
    /\ UNCHANGED <<db, redis, storage, pick, result, history>>

\* The INSERT.  It waits for an uncommitted row with its name and for an
\* uncommitted deletion of the user; the foreign key or the unique index may
\* refuse it, and the failed flush rolls back.
Flush(u) ==
    /\ pc[u] = "flush"
    /\ \A v \in Inserted : pick[v] # pick[u]
    /\ \A c \in Closings : pc[c] # "commit"
    /\ \/ /\ account /\ pick[u] \notin Taken
          /\ Goto(u, "save")
          /\ UNCHANGED <<txlock, result>>
       \/ /\ ~account
          /\ Ends(u, "discard", "account gone")
          /\ FreeTxLock(u)
       \/ /\ account /\ pick[u] \in Taken
          /\ Ends(u, "discard", "name taken")
          /\ FreeTxLock(u)
    /\ UNCHANGED <<account, name, redis, storage, pick, history>>

\* The rename of the incoming file to its place.
Save(u) ==
    /\ pc[u] = "save"
    /\ files' = files \cup {u}
    /\ incoming' = incoming \ {u}
    /\ Goto(u, "commit")
    /\ UNCHANGED <<db, redis, pick, result, history>>

Commit(u) ==
    /\ pc[u] = "commit"
    /\ name' = NamesAfter({u})
    /\ FreeTxLock(u)
    /\ Ends(u, "discard", "ok")
    /\ UNCHANGED <<account, redis, storage, pick, history>>

\* The requests whose COMMIT is on its way.
Committing == {r \in Requests : pc[r] = "commit"}

\* Wrong variant of AfterFailedCommit: the file is not taken back.
FileStays(u) == Ends(u, "discard", "failed")

AfterFailedCommit(u) == Ends(u, "undo", "failed")

\* The COMMIT raised: it was not applied, or only its answer did not arrive
\* (the connection was lost or the request cancelled after Postgres had it).
CommitFails(u) ==
    /\ pc[u] = "commit"
    /\ \/ MayFreeTxLock(u) /\ UNCHANGED <<name, unsure>>
       \/ name' = NamesAfter({u}) /\ unsure' = unsure \cup {u} /\ FreeTxLock(u)
    /\ AfterFailedCommit(u)
    /\ UNCHANGED <<account, redis, storage, pick, lapsed, strays>>

\* `except BaseException' takes the file back, shielded from cancellation.
Undo(u) ==
    /\ pc[u] = "undo"
    /\ \/ files' = files \ {u} /\ UNCHANGED strays
       \/ strays' = strays \cup {u} /\ UNCHANGED files        \* OSError
    /\ Goto(u, "discard")
    /\ UNCHANGED <<db, redis, incoming, pick, result, lapsed, unsure>>

\* An exception or a cancellation ends the upload: what its `finally' blocks
\* hold is done.
UploadFails(u) ==
    /\ pc[u] \in {"usage", "receive", "verify", "lock", "room", "name", "flush", "save"}
    /\ Ends(u, IF pc[u] = "usage" THEN "release" ELSE "discard", "failed")
    /\ MayFreeTxLock(u)
    /\ UNCHANGED <<account, name, redis, storage, pick, history>>

\* The incoming files go whatever happens, or stay for the sweep (OSError).
Discard(u) ==
    /\ pc[u] = "discard"
    /\ incoming' \in {incoming \ {u}, incoming}
    /\ Goto(u, "release")
    /\ UNCHANGED <<db, redis, files, pick, result, history>>

\* An upload that runs unlocked has nothing to release; a release that fails
\* leaves the lock to its TTL.  Then the request's session is closed.
Release(u) ==
    /\ pc[u] = "release"
    /\ uplock' \in (IF u \in unlocked THEN {uplock} ELSE {Unlocked(u), uplock})
    /\ FreeTxLock(u)
    /\ Goto(u, "done")
    /\ UNCHANGED <<account, name, storage, pick, result, history, unlocked>>

-----------------------------------------------------------------------------
(***************************************************************************)
(* Changes, removals and the deletion of the account.                      *)
(***************************************************************************)

\* Wrong variant of LockChange: a rename does not take the lock.
ChangeUnlocked(x) ==
    /\ pc[x] = "lock" /\ x \in Changes
    /\ Goto(x, "select")
    /\ UNCHANGED <<db, redis, storage, pick, result, history>>

LockChange(x) ==
    /\ pc[x] = "lock" /\ x \in Changes
    /\ TakeTxLock(x)
    /\ Goto(x, "select")
    /\ UNCHANGED <<account, name, redis, storage, pick, result, history>>

SelectModel(x) ==
    /\ pc[x] = "select"
    /\ IF pick[x] \in Models
       THEN Goto(x, "check") /\ UNCHANGED <<txlock, result>>
       ELSE Ends(x, "done", "not found") /\ FreeTxLock(x)
    /\ UNCHANGED <<account, name, redis, storage, pick, history>>

\* A removal that has deleted the row and not committed holds its row lock.
RowLocked(m) == \E d \in Removals : pc[d] = "commit" /\ pick[d] = m

\* name_taken, then the UPDATE, if there is anything to change, and the COMMIT,
\* whose answer may be lost ("failed", and the change is there).
\* The UPDATE waits for an uncommitted removal of the row; SQLAlchemy raises
\* StaleDataError when the row is gone by then.
Change(x) ==
    /\ pc[x] = "check"
    /\ \/ Ends(x, "done", "ok") /\ UNCHANGED name       \* nothing to change
       \/ \E new \in Numbers :
             /\ new \in {name[m] : m \in Models \ {pick[x]}}
             /\ Ends(x, "done", "name taken") /\ UNCHANGED name
       \/ \E new \in Numbers \cup {name[pick[x]]} :   \* the same name: a star
             /\ new \notin {name[m] : m \in Models \ {pick[x]}}
             /\ ~RowLocked(pick[x])
             /\ \/ /\ pick[x] \in Models
                   /\ name' = [name EXCEPT ![pick[x]] = new]
                   /\ \E how \in {"ok", "failed"} : Ends(x, "done", how)
                \/ /\ pick[x] \notin Models
                   /\ Ends(x, "done", "stale") /\ UNCHANGED name
    /\ FreeTxLock(x)
    /\ UNCHANGED <<account, redis, storage, pick, history>>

\* DELETE ... RETURNING, without the lock of the user's models; it waits for
\* the row lock of another removal and of the account's deletion.
Remove(d) ==
    /\ pc[d] = "delete" /\ d \in Removals
    /\ ~RowLocked(pick[d])
    /\ \A c \in Closings : pc[c] # "commit"
    /\ IF pick[d] \in Models THEN Goto(d, "commit") /\ UNCHANGED result
                             ELSE Ends(d, "done", "not found")
    /\ UNCHANGED <<db, redis, storage, pick, history>>

CommitRemoval(d) ==
    /\ pc[d] = "commit" /\ d \in Removals
    /\ name' = NamesAfter({d})
    /\ Ends(d, "unlink", "ok")
    /\ UNCHANGED <<account, txlock, redis, storage, pick, history>>

\* The file goes after the row; one that cannot be removed stays (a warning).
Unlink(d) ==
    /\ pc[d] = "unlink"
    /\ \/ files' = files \ {pick[d]} /\ UNCHANGED strays
       \/ strays' = strays \cup {pick[d]} /\ UNCHANGED files
    /\ Goto(d, "done")
    /\ UNCHANGED <<db, redis, incoming, pick, result, lapsed, unsure>>

LockClosing(c) ==
    /\ pc[c] = "lock" /\ c \in Closings
    /\ TakeTxLock(c)
    /\ Goto(c, "delete")
    /\ UNCHANGED <<account, name, redis, storage, pick, result, history>>

\* delete_all and delete_user, which wait for the row locks of removals and
\* for the foreign key of an uncommitted insert.
DeleteUser(c) ==
    /\ pc[c] = "delete" /\ c \in Closings
    /\ Inserted = {}
    /\ \A d \in Removals : pc[d] # "commit"
    /\ Goto(c, "commit")
    /\ UNCHANGED <<db, redis, storage, pick, result, history>>

\* The rows and the user go together (ON DELETE CASCADE).
CommitClosing(c) ==
    /\ pc[c] = "commit" /\ c \in Closings
    /\ account' = AccountAfter({c})
    /\ name' = NamesAfter({c})
    /\ FreeTxLock(c)
    /\ Ends(c, "files", "ok")
    /\ UNCHANGED <<redis, storage, pick, history>>

\* after_commit: the user's directory.  A failure is logged.
DeleteFiles(c) ==
    /\ pc[c] = "files"
    /\ \/ files' = {} /\ UNCHANGED strays
       \/ \E left \in SUBSET files : files' = left /\ strays' = strays \cup left
    /\ Goto(c, "done")
    /\ UNCHANGED <<db, redis, incoming, pick, result, lapsed, unsure>>

\* A failed or cancelled change, removal or closing: rolled back, or, when
\* only the answer to its COMMIT was lost, applied with the files left.
OtherFails(r) ==
    /\ r \notin Uploads
    /\ pc[r] \in InTransaction \cup {"lock"}
    /\ Ends(r, "done", "failed")
    /\ FreeTxLock(r)
    /\ \E applied \in SUBSET ({r} \cap Committing) :
          /\ name' = NamesAfter(applied)
          /\ account' = AccountAfter(applied)
          /\ strays' = strays \cup {m \in Models \cap files : name'[m] = None}
    /\ UNCHANGED <<redis, storage, pick, lapsed, unsure>>

-----------------------------------------------------------------------------
(***************************************************************************)
(* The environment.                                                        *)
(***************************************************************************)

\* A request with a session of the user arrives; a model is given by its ID.
Arrive(r) ==
    /\ pc[r] = "idle"
    /\ account
    /\ \/ r \in Uploads /\ Goto(r, "hold") /\ UNCHANGED pick
       \/ /\ r \in Changes \cup Removals
          /\ Goto(r, IF r \in Changes THEN "lock" ELSE "delete")
          /\ \E m \in Uploads : pick' = [pick EXCEPT ![r] = m]
       \/ r \in Closings /\ Goto(r, "lock") /\ UNCHANGED pick
    /\ UNCHANGED <<db, redis, storage, result, history>>

\* UPLOAD_LOCK_TTL runs out, or Redis loses the key.
UploadLockExpires ==
    /\ uplock # None
    /\ uplock' = None
    /\ lapsed' = lapsed \cup {uplock}
    /\ UNCHANGED <<db, storage, pc, pick, result, unsure, strays, unlocked>>

\* The API process dies: its files stay, its transactions are rolled back but
\* for the COMMITs Postgres has got.
Crash ==
    /\ Running # {}
    /\ \E applied \in SUBSET Committing :
          /\ name' = NamesAfter(applied)
          /\ account' = AccountAfter(applied)
    /\ pc' = [r \in Requests |-> IF r \in Running THEN "done" ELSE pc[r]]
    /\ result' = [r \in Requests |-> IF r \in Running THEN "failed" ELSE result[r]]
    /\ txlock' = None
    /\ strays' = strays \cup {m \in files : name'[m] = None}
    /\ UNCHANGED <<redis, storage, pick, lapsed, unsure>>

\* keep_incoming_swept and prepare: an incoming file an hour old is one of an
\* upload that is over, as an upload lasts minutes (receiving it, the queue
\* of the checks and the check itself are all limited).
Sweep ==
    /\ \E u \in incoming : pc[u] = "done" /\ incoming' = incoming \ {u}
    /\ UNCHANGED <<db, redis, files, pc, pick, result, history>>

-----------------------------------------------------------------------------
UploadStep(u) ==
    \/ Hold(u) \/ Usage(u) \/ Receive(u) \/ Verify(u) \/ LockModels(u) \/ Room(u)
    \/ PickName(u) \/ Flush(u) \/ Save(u) \/ Commit(u) \/ Undo(u) \/ Discard(u)
    \/ Release(u)

OtherStep(r) ==
    \/ r \in Changes /\ (LockChange(r) \/ SelectModel(r) \/ Change(r))
    \/ r \in Removals /\ (Remove(r) \/ CommitRemoval(r) \/ Unlink(r))
    \/ r \in Closings /\ (LockClosing(r) \/ DeleteUser(r) \/ CommitClosing(r) \/ DeleteFiles(r))

Next ==
    \/ \E u \in Uploads : UploadStep(u) \/ CommitFails(u) \/ UploadFails(u)
    \/ \E r \in Requests \ Uploads : OtherStep(r) \/ OtherFails(r)
    \/ \E r \in Requests : Arrive(r)
    \/ UploadLockExpires \/ Crash \/ Sweep

Spec == Init /\ [][Next]_vars

\* The server schedules its requests, each wait in them is limited, and the
\* sweep runs every ten minutes.
Fairness ==
    /\ \A u \in Uploads : WF_vars(UploadStep(u))
    /\ \A r \in Requests \ Uploads : WF_vars(OtherStep(r))
    /\ WF_vars(Sweep)

FairSpec == Spec /\ Fairness

-----------------------------------------------------------------------------
(***************************************************************************)
(* Properties.                                                             *)
(***************************************************************************)

\* However the uploads interleave, with the upload lock or without, the
\* models kept fit the quota and the number a user may have.
WithinQuota ==
    /\ Cardinality(Models) <= ModelsMax
    /\ SumFunctionOnSet(Size, Models) <= Quota

\* Every model listed has its file, but for an upload whose COMMIT was
\* applied and raised: the handler takes its file back.
RowsHaveFiles == Models \subseteq files \cup unsure

\* A file without a row is one whose upload is being kept or taken back,
\* whose removal or whose account's removal is about to delete it, or one
\* left by a crash, a lost answer, a cancellation or a failed unlink.
FilesHaveRows ==
    \A m \in files :
        \/ m \in Models \cup strays
        \/ pc[m] \in {"commit", "undo"}
        \/ \E d \in Removals : pc[d] = "unlink" /\ pick[d] = m
        \/ \E c \in Closings : pc[c] = "files"

\* The name an upload found free is still free when its row goes in: renames
\* and uploads of a user run one after the other.
NoNameClash == \A u \in Uploads : result[u] # "name taken"

\* Two uploads take space side by side only when Redis failed or the lock of
\* one of them ran out.
OneUploadAtATime ==
    \A u, v \in Uploads :
        /\ pc[u] \notin {"idle", "hold", "done"}
        /\ pc[v] \notin {"idle", "hold", "done"}
        /\ u # v
        => {u, v} \cap (unlocked \cup lapsed) # {}

\* Once the account is gone no model is kept any more, whatever was being
\* uploaded when it went.
NothingAfterTheAccount == ~account => Models = {}

\* No request waits forever: the locks are always given back.
EveryRequestEnds == \A r \in Requests : pc[r] # "idle" ~> pc[r] = "done"

\* Incoming files go, also the ones a crash left.
IncomingFilesGo == \A u \in Uploads : u \in incoming ~> u \notin incoming

\* The rows and the files of a user's models are those of the same models, except as
\* a lost COMMIT, a crash or a failed unlink excuses (ml/service.py, _keep and delete).
RowsAndFilesAgree == RowsHaveFiles /\ FilesHaveRows

\* No request waits forever for a lock or a row, and no incoming file stays forever
\* (ml/store.py, lock_user; ml/storage.py, keep_incoming_swept).
NothingWaitsForever == EveryRequestEnds /\ IncomingFilesGo
=============================================================================
