------------------------------ MODULE Accounts ------------------------------
(***************************************************************************)
(* Signing in, connecting and removing sign-in methods, sessions and the   *)
(* deletion of an account: AccountsService of accounts/service.py with its *)
(* tables (accounts/store.py, accounts/models.py) and the pending states   *)
(* in Redis (accounts/pending.py).                                         *)
(*                                                                         *)
(* A trip is an OAuth round trip that a browser starts; a call is one      *)
(* request of its callback, which a browser may repeat.  One step is one   *)
(* read of Postgres, one Redis command, one talk with the provider, or the *)
(* writes of a request with their COMMIT: those take row locks, so what    *)
(* others read before the COMMIT is what they would have read before the   *)
(* writes.  A user, and a session, has the identity of the call that made  *)
(* it.                                                                     *)
(***************************************************************************)
EXTENDS Naturals, FiniteSets

CONSTANTS
    SignIns,     \* trips started by start_sign_in
    Connects,    \* trips started by start_connect
    Calls,       \* calls of finish_sign_in
    TripOf,      \* the trip whose state a call brings back
    Removals,    \* calls of disconnect
    SignOuts,    \* calls of sign_out_everywhere
    Closings,    \* calls of delete_account
    Accounts,    \* accounts at the providers
    ProviderOf,  \* the provider of an account
    EmailOf,     \* the verified email of an account
    Beta,        \* BETA_ALLOWLIST
    None

Trips == SignIns \cup Connects

\* Requests of a signed-in browser.
Signed == Connects \cup Removals \cup SignOuts \cup Closings

Requests == SignIns \cup Calls \cup Signed

Providers == {ProviderOf[a] : a \in Accounts}

Emails == {EmailOf[a] : a \in Accounts}

ASSUME AccountsAssumption ==
    /\ SignIns \cap (Calls \cup Signed) = {} /\ Calls \cap Signed = {}
    /\ Connects \cap (Removals \cup SignOuts \cup Closings) = {}
    /\ Removals \cap (SignOuts \cup Closings) = {} /\ SignOuts \cap Closings = {}
    /\ TripOf \in [Calls -> Trips]
    /\ ProviderOf \in [Accounts -> Providers] /\ EmailOf \in [Accounts -> Emails]
    /\ None \notin Requests \cup Accounts \cup Emails \cup Providers

VARIABLES
    email,     \* users: the email of each user, None = no row
    identity,  \* identities: the user an account signs in as
    session,   \* sessions: the user of each session
    age,       \* sessions: fresh, due (a day since it was extended) or expired
    rowlock,   \* the row lock of a user that a change of methods holds
    pending,   \* Redis: the trips whose state is there
    pc,        \* where each request is
    token,     \* the session cookie a request came with
    account,   \* the account the provider vouched for
    user,      \* the user a request read
    plan,      \* what the save of a call is to do
    method,    \* the provider whose method a removal removes
    result     \* how a request ended

postgres == <<email, identity, session, age, rowlock>>
local    == <<token, account, user, plan, method>>
vars     == <<email, identity, session, age, rowlock, pending, pc, token, account,
              user, plan, method, result>>

Ages == {"fresh", "due", "expired"}

Pcs == {"idle", "start", "take", "session", "extend", "drop", "fetch", "identity",
        "user", "by email", "lock", "providers", "save", "remove", "sign out", "delete", "done"}

Plans == {"none", "known", "join", "new", "connect"}

Results == {"none", "ok", "failed", "expired", "not signed in", "stale", "taken",
            "denied", "last method", "no such method", "assertion"}

\* The requests that may hold the row lock of a user.
Changing == {r \in Requests : pc[r] \in {"providers", "save", "remove"}}

\* Every variable has its type, and a row lock is that of a request that
\* changes the methods of a user.
TypeOK ==
    /\ email \in [Calls -> Emails \cup {None}]
    /\ identity \in [Accounts -> Calls \cup {None}]
    /\ session \in [Calls -> Calls \cup {None}]
    /\ age \in [Calls -> Ages]
    /\ rowlock \in [Calls -> Changing \cup {None}]
    /\ pending \subseteq Trips
    /\ pc \in [Requests -> Pcs]
    /\ token \in [Requests -> Calls \cup {None}]
    /\ account \in [Requests -> Accounts \cup {None}]
    /\ user \in [Requests -> Calls \cup {None}]
    /\ plan \in [Requests -> Plans]
    /\ method \in [Requests -> Providers \cup {None}]
    /\ result \in [Requests -> Results]

Init ==
    /\ email = [c \in Calls |-> None]
    /\ identity = [a \in Accounts |-> None]
    /\ session = [c \in Calls |-> None]
    /\ age = [c \in Calls |-> "fresh"]
    /\ rowlock = [c \in Calls |-> None]
    /\ pending = {}
    /\ pc = [r \in Requests |-> "idle"]
    /\ token = [r \in Requests |-> None]
    /\ account = [r \in Requests |-> None]
    /\ user = [r \in Requests |-> None]
    /\ plan = [r \in Requests |-> "none"]
    /\ method = [r \in Requests |-> None]
    /\ result = [r \in Requests |-> "none"]

-----------------------------------------------------------------------------
(***************************************************************************)
(* Helpers.                                                                *)
(***************************************************************************)

Goto(r, place) == pc' = [pc EXCEPT ![r] = place]

Ends(r, how) == Goto(r, "done") /\ result' = [result EXCEPT ![r] = how]

Users == {u \in Calls : email[u] # None}

MethodsOf(u) == {a \in Accounts : identity[a] = u}

ProvidersOf(u) == {ProviderOf[a] : a \in MethodsOf(u)}

\* The row locks once the transaction of a request is over.
Freed(r) == [u \in Calls |-> IF rowlock[u] = r THEN None ELSE rowlock[u]]

\* Wrong variant of Locked: SELECT without FOR UPDATE.
ReadOnly(r, u) == rowlock

\* lock_user: SELECT ... FOR UPDATE of the user's row, of none when it is gone.
Locked(r, u) == IF u \in Users THEN [rowlock EXCEPT ![u] = r] ELSE rowlock

\* Nobody else holds the row of a user a statement wants to write.
Writable(r, u) == rowlock[u] \in {r, None}

-----------------------------------------------------------------------------
(***************************************************************************)
(* The session of a request.                                               *)
(***************************************************************************)

\* Where a request goes once its session is found.
AfterSession(r) ==
    IF r \in Connects THEN "start"
    ELSE IF r \in Calls THEN "fetch"
    ELSE IF r \in Removals THEN "lock"
    ELSE IF r \in SignOuts THEN "sign out"
    ELSE "delete"

\* 401, the sign-in page or, for a callback, Settings with an error.
NotSignedIn(r) == Ends(r, IF r \in Calls THEN "failed" ELSE "not signed in")

\* signed_in: one SELECT of the session with its user.
FindSession(r) ==
    /\ pc[r] = "session"
    /\ \/ session[token[r]] = None /\ NotSignedIn(r) /\ UNCHANGED user
       \/ /\ session[token[r]] # None
          /\ user' = [user EXCEPT ![r] = session[token[r]]]
          /\ \/ age[token[r]] = "fresh" /\ Goto(r, AfterSession(r))
             \/ age[token[r]] = "due" /\ Goto(r, "extend")
             \/ age[token[r]] = "expired" /\ Goto(r, "drop")
          /\ UNCHANGED result
    /\ UNCHANGED <<postgres, pending, token, account, plan, method>>

\* Wrong variant of Extended: an upsert of the session that was read.
Upserted(r) ==
    /\ session' = [session EXCEPT ![token[r]] = user[r]]
    /\ age' = [age EXCEPT ![token[r]] = "fresh"]
    /\ Goto(r, AfterSession(r))
    /\ UNCHANGED result

\* The UPDATE of the session; it raises StaleDataError when the row is gone.
Extended(r) ==
    \/ /\ session[token[r]] # None
       /\ age' = [age EXCEPT ![token[r]] = "fresh"]
       /\ Goto(r, AfterSession(r))
       /\ UNCHANGED <<session, result>>
    \/ /\ session[token[r]] = None
       /\ Ends(r, IF r \in Calls THEN "failed" ELSE "stale")
       /\ UNCHANGED <<session, age>>

ExtendSession(r) ==
    /\ pc[r] = "extend"
    /\ Extended(r)
    /\ UNCHANGED <<email, identity, rowlock, pending, local>>

\* The expired session is deleted by its token, whatever became of it.
DropSession(r) ==
    /\ pc[r] = "drop"
    /\ session' = [session EXCEPT ![token[r]] = None]
    /\ NotSignedIn(r)
    /\ UNCHANGED <<email, identity, age, rowlock, pending, local>>

-----------------------------------------------------------------------------
(***************************************************************************)
(* The round trip.                                                         *)
(***************************************************************************)

\* put_sign_in: SET of the pending state, with the session of a connect.
Start(t) ==
    /\ pc[t] = "start"
    /\ pending' = pending \cup {t}
    /\ Ends(t, "ok")
    /\ UNCHANGED <<postgres, local>>

\* GETDEL: a state is used once.
Taken(t) == pending \ {t}

\* take_sign_in, and what the callback checks before it talks to anybody: the
\* provider returned a code, and the browser of a connect has its session.
TakeState(c) ==
    /\ pc[c] = "take"
    /\ \/ TripOf[c] \notin pending /\ Ends(c, "expired")
       \/ /\ TripOf[c] \in pending
          /\ \/ TripOf[c] \in SignIns /\ Goto(c, "fetch") /\ UNCHANGED result
             \/ /\ TripOf[c] \in Connects /\ token[c] = token[TripOf[c]]
                /\ Goto(c, "session") /\ UNCHANGED result
             \/ Ends(c, "failed")       \* no code, or another session
    /\ pending' = Taken(TripOf[c])
    /\ UNCHANGED <<postgres, local>>

\* fetch_account: the account the browser is signed in to at the provider.
Fetch(c) ==
    /\ pc[c] = "fetch"
    /\ \E a \in Accounts : account' = [account EXCEPT ![c] = a]
    /\ Goto(c, "identity")
    /\ UNCHANGED <<postgres, pending, token, user, plan, method, result>>

\* The SELECT of the account's identity.
FindIdentity(c) ==
    LET u == identity[account[c]] IN
    /\ pc[c] = "identity"
    /\ IF TripOf[c] \in Connects
       THEN /\ \/ u = None /\ Goto(c, "lock") /\ UNCHANGED result
               \/ u = user[c] /\ Ends(c, "ok")
               \/ u \notin {None, user[c]} /\ Ends(c, "taken")
            /\ plan' = [plan EXCEPT ![c] = "connect"]
            /\ UNCHANGED user
       ELSE /\ Goto(c, IF u = None THEN "by email" ELSE "user")
            /\ plan' = [plan EXCEPT ![c] = IF u = None THEN "join" ELSE "known"]
            /\ user' = [user EXCEPT ![c] = u]
            /\ UNCHANGED result
    /\ UNCHANGED <<postgres, pending, token, account, method>>

\* The SELECT of the identity's user and the beta list.  The user may be gone
\* by now: then the list is asked for the account's email, and the assertion
\* of _account_of fails.
FindUser(c) ==
    LET admitted == IF user[c] \in Users THEN email[user[c]] ELSE EmailOf[account[c]] IN
    /\ pc[c] = "user"
    /\ \/ admitted \notin Beta /\ Ends(c, "denied")
       \/ /\ admitted \in Beta /\ user[c] \in Users
          /\ Goto(c, "save") /\ UNCHANGED result
       \/ /\ admitted \in Beta /\ user[c] \notin Users
          /\ Ends(c, "assertion")
    /\ UNCHANGED <<postgres, pending, local>>

\* A first sign-in: the beta list, then the SELECT of the user by email.
FindByEmail(c) ==
    LET found == {u \in Users : email[u] = EmailOf[account[c]]} IN
    /\ pc[c] = "by email"
    /\ \/ /\ EmailOf[account[c]] \notin Beta
          /\ Ends(c, "denied")
          /\ UNCHANGED <<user, plan>>
       \/ /\ EmailOf[account[c]] \in Beta /\ found = {}
          /\ user' = [user EXCEPT ![c] = c]
          /\ plan' = [plan EXCEPT ![c] = "new"]
          /\ Goto(c, "save")
          /\ UNCHANGED result
       \/ /\ EmailOf[account[c]] \in Beta
          /\ \E u \in found : user' = [user EXCEPT ![c] = u]
          /\ Goto(c, "lock")
          /\ UNCHANGED <<plan, result>>
    /\ UNCHANGED <<postgres, pending, token, account, method>>

\* lock_user, of a callback and of disconnect.
LockUser(r) ==
    /\ pc[r] = "lock"
    /\ Writable(r, user[r])
    /\ rowlock' = Locked(r, user[r])
    /\ Goto(r, "providers")
    /\ UNCHANGED <<email, identity, session, age, pending, local, result>>

\* A second account of a provider does not join the user.
CheckProviders(c) ==
    /\ pc[c] = "providers" /\ c \in Calls
    /\ IF ProviderOf[account[c]] \in ProvidersOf(user[c])
       THEN Ends(c, "failed") /\ rowlock' = Freed(c)
       ELSE Goto(c, "save") /\ UNCHANGED <<rowlock, result>>
    /\ UNCHANGED <<email, identity, session, age, pending, local>>

\* Wrong variant of Insertable: no constraint of the database holds the rows.
Unconstrained(c) == TRUE

\* What the constraints of the tables let a call insert: the user of a new
\* row exists, an account and an email occur once.
Insertable(c) ==
    /\ plan[c] = "new" => \A u \in Users : email[u] # EmailOf[account[c]]
    /\ plan[c] # "new" => user[c] \in Users
    /\ plan[c] # "known" => identity[account[c]] = None

\* The rows of a sign-in: the user and the identity of a first one, and the
\* session; the user's expired sessions go.
SaveSignIn(c) ==
    /\ plan[c] \in {"known", "join", "new"}
    /\ email' = IF plan[c] = "new" THEN [email EXCEPT ![c] = EmailOf[account[c]]]
                                   ELSE email
    /\ identity' = IF plan[c] = "known" THEN identity
                   ELSE [identity EXCEPT ![account[c]] = user[c]]
    /\ session' = [s \in Calls |->
                     IF s = c THEN user[c]
                     ELSE IF session[s] = user[c] /\ age[s] = "expired" THEN None
                     ELSE session[s]]
    /\ age' = [age EXCEPT ![c] = "fresh"]

\* The identity a connect adds.
SaveConnect(c) ==
    /\ plan[c] = "connect"
    /\ identity' = [identity EXCEPT ![account[c]] = user[c]]
    /\ UNCHANGED <<email, session, age>>

\* The flush and the COMMIT.  An account that signed in before is updated when
\* its email or login changed, which fails when its identity is gone.  The
\* answer to the COMMIT may be lost ("failed", and the rows are there).
Save(c) ==
    /\ pc[c] = "save"
    /\ Writable(c, user[c])
    /\ \/ /\ Insertable(c)
          /\ SaveSignIn(c) \/ SaveConnect(c)
          /\ \E how \in {"ok", "failed"} : Ends(c, how)
       \/ /\ \/ ~Insertable(c)
             \/ plan[c] = "known" /\ identity[account[c]] = None
          /\ Ends(c, "failed")
          /\ UNCHANGED <<email, identity, session, age>>
    /\ rowlock' = Freed(c)
    /\ UNCHANGED <<pending, local>>

-----------------------------------------------------------------------------
(***************************************************************************)
(* Settings.                                                               *)
(***************************************************************************)

\* disconnect reads the user's methods; the last one stays.
CheckMethods(x) ==
    /\ pc[x] = "providers" /\ x \in Removals
    /\ \E p \in Providers :
          \/ /\ p \notin ProvidersOf(user[x])
             /\ Ends(x, "no such method") /\ rowlock' = Freed(x)
             /\ UNCHANGED method
          \/ /\ ProvidersOf(user[x]) = {p}
             /\ Ends(x, "last method") /\ rowlock' = Freed(x)
             /\ UNCHANGED method
          \/ /\ p \in ProvidersOf(user[x]) /\ ProvidersOf(user[x]) # {p}
             /\ Goto(x, "remove") /\ method' = [method EXCEPT ![x] = p]
             /\ UNCHANGED <<rowlock, result>>
    /\ UNCHANGED <<email, identity, session, age, pending, token, account, user, plan>>

\* delete_identities and the COMMIT.
Remove(x) ==
    /\ pc[x] = "remove"
    /\ identity' = [a \in Accounts |->
                      IF a \in MethodsOf(user[x]) /\ ProviderOf[a] = method[x]
                      THEN None ELSE identity[a]]
    /\ \E how \in {"ok", "failed"} : Ends(x, how)
    /\ rowlock' = Freed(x)
    /\ UNCHANGED <<email, session, age, pending, local>>

\* delete_sessions: those the DELETE sees.
SignOutEverywhere(x) ==
    /\ pc[x] = "sign out"
    /\ session' = [s \in Calls |-> IF session[s] = user[x] THEN None ELSE session[s]]
    /\ \E how \in {"ok", "failed"} : Ends(x, how)
    /\ UNCHANGED <<email, identity, age, rowlock, pending, local>>

\* ON DELETE CASCADE of identities and sessions.
Cascade(u) ==
    /\ identity' = [a \in Accounts |-> IF identity[a] = u THEN None ELSE identity[a]]
    /\ session' = [s \in Calls |-> IF session[s] = u THEN None ELSE session[s]]

\* delete_account (its hooks are in ModelUploads): waits for the user's row.
\* An account that is gone already is deleted once more, without effect.
DeleteAccount(x) ==
    /\ pc[x] = "delete"
    /\ Writable(x, user[x])
    /\ email' = [email EXCEPT ![user[x]] = None]
    /\ Cascade(user[x])
    /\ \E how \in {"ok", "failed"} : Ends(x, how)
    /\ UNCHANGED <<age, rowlock, pending, local>>

-----------------------------------------------------------------------------
(***************************************************************************)
(* The environment.                                                        *)
(***************************************************************************)

\* The session cookies that browsers got.
Cookies == {s \in Calls : pc[s] = "done" /\ result[s] = "ok" /\ plan[s] # "connect"}

\* A browser sends a request.  A callback brings the state of a trip that was
\* started, a request of Settings a session cookie.
Arrive(r) ==
    /\ pc[r] = "idle"
    /\ r \in Calls => pc[TripOf[r]] = "done"
    /\ Goto(r, IF r \in SignIns THEN "start" ELSE IF r \in Calls THEN "take" ELSE "session")
    /\ \E s \in Cookies \cup {None} :
          /\ token' = [token EXCEPT ![r] = s]
          /\ s = None => r \in SignIns \cup Calls
          /\ r \in SignIns => s = None
    /\ UNCHANGED <<postgres, pending, account, user, plan, method, result>>

\* sign_out of the browser with a session.
SignOut(s) ==
    /\ s \in Cookies /\ session[s] # None
    /\ session' = [session EXCEPT ![s] = None]
    /\ UNCHANGED <<email, identity, age, rowlock, pending, pc, local, result>>

\* A request fails: Postgres, Redis or the provider fails, the client goes
\* away, the process dies.  Postgres rolls back what it had not committed.
Fail(r) ==
    /\ pc[r] \notin {"idle", "done"}
    /\ Ends(r, IF pc[r] = "take" THEN "expired" ELSE "failed")
    /\ rowlock' = Freed(r)
    /\ pending' \in {pending,
                     IF pc[r] = "take" THEN Taken(TripOf[r]) ELSE
                     IF pc[r] = "start" THEN pending \cup {r} ELSE pending}
    /\ UNCHANGED <<email, identity, session, age, local>>

StateExpires ==
    /\ \E t \in pending : pending' = pending \ {t}
    /\ UNCHANGED <<postgres, pc, local, result>>

\* A day passes, then a month.
Tick(s) ==
    /\ session[s] # None /\ age[s] # "expired"
    /\ age' = [age EXCEPT ![s] = IF age[s] = "fresh" THEN "due" ELSE "expired"]
    /\ UNCHANGED <<email, identity, session, rowlock, pending, pc, local, result>>

-----------------------------------------------------------------------------
Step(r) ==
    \/ FindSession(r) \/ ExtendSession(r) \/ DropSession(r)
    \/ r \in Trips /\ Start(r)
    \/ r \in Calls /\ \/ TakeState(r) \/ Fetch(r) \/ FindIdentity(r) \/ FindUser(r)
                      \/ FindByEmail(r) \/ CheckProviders(r) \/ Save(r)
    \/ r \in Calls \cup Removals /\ LockUser(r)
    \/ CheckMethods(r) \/ Remove(r) \/ SignOutEverywhere(r) \/ DeleteAccount(r)

Next ==
    \/ \E r \in Requests : Arrive(r) \/ Step(r) \/ Fail(r)
    \/ \E s \in Calls : SignOut(s) \/ Tick(s)
    \/ StateExpires

Spec == Init /\ [][Next]_vars

\* The server schedules its requests; the provider answers or times out.
Fairness == \A r \in Requests : WF_vars(Step(r))

FairSpec == Spec /\ Fairness

-----------------------------------------------------------------------------
(***************************************************************************)
(* Properties.                                                             *)
(***************************************************************************)

\* A user signs in with at most one account of each provider, however the
\* callbacks of sign-ins and connects interleave.
OneMethodPerProvider ==
    \A a, b \in Accounts :
        a # b /\ identity[a] # None /\ identity[a] = identity[b]
        => ProviderOf[a] # ProviderOf[b]

\* Removals at the same time never leave a user without a way to sign in.
AlwaysASignInMethod == \A u \in Users : MethodsOf(u) # {}

\* One email, one user: first sign-ins at the same time make one user.
OneUserPerEmail == \A u, v \in Users : email[u] = email[v] => u = v

\* What a sign-in or a connect adds is that of a user who is there, also when
\* the account is deleted while the provider answers.
NothingOfTheDeleted ==
    /\ \A a \in Accounts : identity[a] # None => identity[a] \in Users
    /\ \A s \in Calls : session[s] # None => session[s] \in Users

\* The state of a round trip lets one callback pass, however often the browser
\* repeats it.
StatesWorkOnce ==
    \A c, d \in Calls :
        /\ TripOf[c] = TripOf[d] /\ c # d
        /\ {pc[c], pc[d]} \cap {"idle", "take"} = {}
        => "expired" \in {result[c], result[d]}

\* An account never moves from a user to another one: it is removed first.
AccountsStayWithTheirUser ==
    [][\A a \in Accounts :
         identity[a] # None => identity'[a] \in {identity[a], None}]_vars

\* A session that ended never comes back: a request that extends it races a
\* sign-out and does not revive it.
EndedSessionsStayEnded ==
    [][\A s \in Calls :
         session[s] = None /\ session'[s] # None => pc[s] = "save"]_vars

\* Everybody gets an answer: row locks are always given back.
EveryRequestEnds == \A r \in Requests : pc[r] # "idle" ~> pc[r] = "done"

\* Users come back to their account: it is the one of their email, there is a method
\* to sign in by, and a provider leads to one account of theirs (accounts/service.py,
\* finish_sign_in and disconnect).
UsersCanComeBack == OneUserPerEmail /\ AlwaysASignInMethod /\ OneMethodPerProvider
=============================================================================
