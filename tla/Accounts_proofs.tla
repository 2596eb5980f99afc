-------------------------- MODULE Accounts_proofs --------------------------
(***************************************************************************)
(* Proofs about Accounts, for any requests, accounts and emails.           *)
(*                                                                         *)
(* Types and Placed say what a request has at each place, Rows that every  *)
(* row leads to a user who is there, Locks that a request which changes    *)
(* the methods of a user holds the lock of the user's row, Methods that    *)
(* what it read of them stays true while it does, and Once that the state  *)
(* of a round trip which let a callback pass is gone.                      *)
(***************************************************************************)
EXTENDS Accounts, TLAPS

Holding == {"providers", "save", "remove"}

\* TypeOK without the places of the holders of row locks.
Types ==
    /\ email \in [Calls -> Emails \cup {None}]
    /\ identity \in [Accounts -> Calls \cup {None}]
    /\ session \in [Calls -> Calls \cup {None}]
    /\ age \in [Calls -> Ages]
    /\ rowlock \in [Calls -> Requests \cup {None}]
    /\ pending \subseteq Trips
    /\ pc \in [Requests -> Pcs]
    /\ token \in [Requests -> Calls \cup {None}]
    /\ account \in [Requests -> Accounts \cup {None}]
    /\ user \in [Requests -> Calls \cup {None}]
    /\ plan \in [Requests -> Plans]
    /\ method \in [Requests -> Providers \cup {None}]
    /\ result \in [Requests -> Results]

\* What a request is and has at its place.
At(r) ==
    /\ r \in Connects /\ pc[r] # "idle" => token[r] \in Calls
    /\ r \in Calls /\ pc[r] # "idle" => pc[TripOf[r]] = "done"
    /\ pc[r] \in {"session", "extend", "drop"} => token[r] \in Calls
    /\ pc[r] \in {"extend", "user", "lock", "providers", "save", "remove",
                   "sign out", "delete"} => user[r] \in Calls
    /\ pc[r] \in {"fetch", "identity", "user", "by email", "save"} => r \in Calls
    /\ pc[r] \in {"lock", "providers"} => r \in Calls \/ r \in Removals
    /\ pc[r] = "remove" => r \in Removals
    /\ pc[r] = "start" => r \in Trips
    /\ r \in Calls /\ pc[r] \in {"fetch", "identity"} /\ TripOf[r] \in Connects
       => user[r] \in Calls
    /\ r \in Calls /\ pc[r] \in {"identity", "user", "by email", "lock", "providers", "save"}
       => account[r] \in Accounts
    /\ pc[r] = "user" => plan[r] = "known"
    /\ pc[r] = "by email" => plan[r] = "join"
    /\ r \in Calls /\ pc[r] \in {"lock", "providers"} => plan[r] \in {"join", "connect"}
    /\ pc[r] = "save" => plan[r] \in {"known", "join", "new", "connect"}
    /\ pc[r] = "save" /\ plan[r] = "new" => user[r] = r

Placed == \A r \in Requests : At(r)

\* A step leaves what a request has to itself.
Same(q) ==
    /\ pc'[q] = pc[q] /\ token'[q] = token[q] /\ account'[q] = account[q]
    /\ user'[q] = user[q] /\ plan'[q] = plan[q] /\ method'[q] = method[q]

-----------------------------------------------------------------------------
LEMMA Kinds ==
    /\ SignIns \subseteq Requests /\ Connects \subseteq Requests /\ Calls \subseteq Requests
    /\ Removals \subseteq Requests /\ Trips \subseteq Requests
    /\ \A t \in Trips : t \notin Calls /\ t \notin Removals
    /\ \A r \in Calls : TripOf[r] \in Trips /\ r \notin Removals /\ r \notin Connects
                        /\ r \notin SignIns
    /\ \A r \in SignIns : r \notin Connects /\ r \notin Removals
    /\ \A r \in Connects : r \notin Removals
    /\ \A r \in Trips : r \in SignIns \/ r \in Connects
    /\ None \notin Requests /\ None \notin Accounts /\ None \notin Emails
    /\ \A a \in Accounts : ProviderOf[a] \in Providers /\ EmailOf[a] \in Emails
BY AccountsAssumption DEF Requests, Signed, Trips

LEMMA Parts ==
    /\ SignIns \subseteq Requests /\ Connects \subseteq Requests /\ Calls \subseteq Requests
    /\ Removals \subseteq Requests /\ Trips \subseteq Requests
BY Kinds

\* A request moves alone, and not once it is done.
LEMMA Moves ==
    ASSUME Types, NEW r \in Requests, Arrive(r) \/ Step(r) \/ Fail(r)
    PROVE  pc[r] # "done" /\ \A q \in Requests : q # r => Same(q)
<1> USE Parts DEF Goto, Ends, postgres, local, Types, Same
<1>1. CASE Arrive(r)
  BY <1>1 DEF Arrive
<1>2. CASE FindSession(r)
  BY <1>2 DEF FindSession, NotSignedIn
<1>3. CASE ExtendSession(r)
  BY <1>3 DEF ExtendSession, Extended
<1>4. CASE DropSession(r)
  BY <1>4 DEF DropSession, NotSignedIn
<1>5. CASE Start(r)
  BY <1>5 DEF Start
<1>6. CASE TakeState(r)
  BY <1>6 DEF TakeState
<1>7. CASE Fetch(r)
  BY <1>7 DEF Fetch
<1>8. CASE FindIdentity(r)
  BY <1>8 DEF FindIdentity
<1>9. CASE FindUser(r)
  BY <1>9 DEF FindUser
<1>10. CASE FindByEmail(r)
  BY <1>10 DEF FindByEmail
<1>11. CASE LockUser(r)
  BY <1>11 DEF LockUser
<1>12. CASE CheckProviders(r)
  BY <1>12 DEF CheckProviders
<1>13. CASE Save(r)
  BY <1>13 DEF Save
<1>14. CASE CheckMethods(r)
  BY <1>14 DEF CheckMethods
<1>15. CASE Remove(r)
  BY <1>15 DEF Remove
<1>16. CASE SignOutEverywhere(r)
  BY <1>16 DEF SignOutEverywhere
<1>17. CASE DeleteAccount(r)
  BY <1>17 DEF DeleteAccount
<1>18. CASE Fail(r)
  BY <1>18 DEF Fail
<1> QED
  BY <1>1, <1>2, <1>3, <1>4, <1>5, <1>6, <1>7, <1>8, <1>9, <1>10, <1>11, <1>12, <1>13, <1>14,
     <1>15, <1>16, <1>17, <1>18 DEF Step

-----------------------------------------------------------------------------
\* A request goes on, or ends with an answer.
Continues(r) ==
    \/ \E place \in Pcs : Goto(r, place) /\ UNCHANGED result
    \/ \E how \in Results : Ends(r, how)

LEMMA Places ==
    ASSUME Types, NEW r \in Requests, Continues(r)
    PROVE  pc' \in [Requests -> Pcs] /\ result' \in [Requests -> Results]
BY ZenonT(60) DEF Types, Continues, Goto, Ends, Pcs

\* Every step keeps the types.
LEMMA TypesStep == Types /\ Placed /\ [Next]_vars => Types'
<1> SUFFICES ASSUME Types, Placed, [Next]_vars PROVE Types'
  OBVIOUS
<1> USE Parts DEF postgres, local
<1>1. ASSUME NEW r \in Requests, Arrive(r) PROVE Types'
  <2>1. \E s \in Calls \cup {None} : token' = [token EXCEPT ![r] = s]
    BY <1>1 DEF Arrive, Cookies
  <2>2. Continues(r)
    BY <1>1 DEF Arrive, Continues, Pcs, Results
  <2> QED
    BY <1>1, <2>1, <2>2, Places DEF Arrive, Types
<1>2. ASSUME NEW r \in Requests, FindSession(r) PROVE Types'
  <2>1. AfterSession(r) \in Pcs
    BY <1>2 DEF AfterSession, Pcs
  <2>2. session[token[r]] \in Calls \cup {None}
    BY <1>2 DEF FindSession, Placed, At, Types
  <2>3. user' \in [Requests -> Calls \cup {None}]
    BY <1>2, <2>2 DEF FindSession, Types
  <2>4. Continues(r)
    BY <1>2, <2>1 DEF FindSession, NotSignedIn, Continues, Pcs, Results
  <2> QED
    BY <1>2, <2>1, <2>2, <2>3, <2>4, Places DEF FindSession, Types
<1>3. ASSUME NEW r \in Requests, ExtendSession(r) PROVE Types'
  <2>1. AfterSession(r) \in Pcs
    BY <1>3 DEF AfterSession, Pcs
  <2>2. age' \in [Calls -> Ages] /\ session' = session
    BY <1>3 DEF ExtendSession, Extended, Types, Ages
  <2>3. Continues(r)
    BY <1>3, <2>1 DEF ExtendSession, Extended, Continues, Pcs, Results
  <2> QED
    BY <1>3, <2>1, <2>2, <2>3, Places DEF ExtendSession, Types
<1>4. ASSUME NEW r \in Requests, DropSession(r) PROVE Types'
  <2>1. Continues(r)
    BY <1>4 DEF DropSession, NotSignedIn, Continues, Pcs, Results
  <2> QED
    BY <1>4, <2>1, Places DEF DropSession, Types
<1>5. ASSUME NEW r \in Trips, Start(r) PROVE Types'
  <2>1. Continues(r)
    BY <1>5 DEF Start, Continues, Pcs, Results
  <2> QED
    BY <1>5, <2>1, Places DEF Start, Types
<1>6. ASSUME NEW r \in Calls, TakeState(r) PROVE Types'
  <2>1. Continues(r)
    BY <1>6 DEF TakeState, Continues, Pcs, Results
  <2> QED
    BY <1>6, <2>1, Places DEF TakeState, Taken, Types
<1>7. ASSUME NEW r \in Calls, Fetch(r) PROVE Types'
  <2>1. Continues(r)
    BY <1>7 DEF Fetch, Continues, Pcs, Results
  <2> QED
    BY <1>7, <2>1, Places DEF Fetch, Types
<1>8. ASSUME NEW r \in Calls, FindIdentity(r) PROVE Types'
  <2>1. account[r] \in Accounts
    BY <1>8 DEF FindIdentity, Placed, At
  <2>2. identity[account[r]] \in Calls \cup {None}
    BY <1>8, <2>1 DEF Types
  <2>3. user' \in [Requests -> Calls \cup {None}] /\ plan' \in [Requests -> Plans]
    BY <1>8, <2>2 DEF FindIdentity, Types, Plans
  <2>4. Continues(r)
    BY <1>8 DEF FindIdentity, Continues, Pcs, Results
  <2> QED
    BY <1>8, <2>1, <2>2, <2>3, <2>4, Places DEF FindIdentity, Types
<1>9. ASSUME NEW r \in Calls, FindUser(r) PROVE Types'
  <2>1. Continues(r)
    BY <1>9 DEF FindUser, Continues, Pcs, Results
  <2> QED
    BY <1>9, <2>1, Places DEF FindUser, Types
<1>10. ASSUME NEW r \in Calls, FindByEmail(r) PROVE Types'
  <2>1. plan' \in [Requests -> Plans]
    BY <1>10 DEF FindByEmail, Types, Plans
  <2>2. \/ UNCHANGED user
        \/ \E u \in Calls : user' = [user EXCEPT ![r] = u]
    BY <1>10 DEF FindByEmail, Users
  <2>3. user' \in [Requests -> Calls \cup {None}]
    BY <2>2 DEF Types
  <2>4. Continues(r)
    BY <1>10 DEF FindByEmail, Continues, Pcs, Results
  <2> QED
    BY <1>10, <2>1, <2>3, <2>4, Places DEF FindByEmail, Types
<1>11. ASSUME NEW r \in Calls \cup Removals, LockUser(r) PROVE Types'
  <2>1. Continues(r)
    BY <1>11 DEF LockUser, Continues, Pcs, Results
  <2> QED
    BY <1>11, <2>1, Places DEF LockUser, Locked, Types
<1>12. ASSUME NEW r \in Calls, CheckProviders(r) PROVE Types'
  <2>1. rowlock' \in [Calls -> Requests \cup {None}]
    BY <1>12 DEF CheckProviders, Freed, Types
  <2>2. Continues(r)
    BY <1>12 DEF CheckProviders, Continues, Pcs, Results
  <2> QED
    BY <1>12, <2>1, <2>2, Places DEF CheckProviders, Types
<1>13. ASSUME NEW r \in Calls, Save(r) PROVE Types'
  <2>1. account[r] \in Accounts /\ user[r] \in Calls
    BY <1>13 DEF Save, Placed, At
  <2>2. EmailOf[account[r]] \in Emails
    BY <1>13, <2>1, Kinds
  <2>3. rowlock' \in [Calls -> Requests \cup {None}]
    BY <1>13 DEF Save, Freed, Types
  <2>4. email' \in [Calls -> Emails \cup {None}]
    BY <1>13, <2>2 DEF Save, SaveSignIn, SaveConnect, Types
  <2>5. identity' \in [Accounts -> Calls \cup {None}]
    BY <1>13, <2>1 DEF Save, SaveSignIn, SaveConnect, Types
  <2>6. session' \in [Calls -> Calls \cup {None}]
    BY <1>13, <2>1 DEF Save, SaveSignIn, SaveConnect, Types
  <2>7. age' \in [Calls -> Ages]
    BY <1>13 DEF Save, SaveSignIn, SaveConnect, Types, Ages
  <2>8. Continues(r)
    BY <1>13 DEF Save, Continues, Pcs, Results
  <2> QED
    BY <1>13, <2>1, <2>2, <2>3, <2>4, <2>5, <2>6, <2>7, <2>8, Places DEF Save, Types
<1>14. ASSUME NEW r \in Requests, CheckMethods(r) PROVE Types'
  <2>1. rowlock' \in [Calls -> Requests \cup {None}]
    BY <1>14 DEF CheckMethods, Freed, Types
  <2>2. method' \in [Requests -> Providers \cup {None}]
    BY <1>14 DEF CheckMethods, Types
  <2>3. Continues(r)
    BY <1>14 DEF CheckMethods, Continues, Pcs, Results
  <2> QED
    BY <1>14, <2>1, <2>2, <2>3, Places DEF CheckMethods, Types
<1>15. ASSUME NEW r \in Requests, Remove(r) PROVE Types'
  <2>1. Continues(r)
    BY <1>15 DEF Remove, Continues, Pcs, Results
  <2> QED
    BY <1>15, <2>1, Places DEF Remove, Freed, Types
<1>16. ASSUME NEW r \in Requests, SignOutEverywhere(r) PROVE Types'
  <2>1. Continues(r)
    BY <1>16 DEF SignOutEverywhere, Continues, Pcs, Results
  <2> QED
    BY <1>16, <2>1, Places DEF SignOutEverywhere, Types
<1>17. ASSUME NEW r \in Requests, DeleteAccount(r) PROVE Types'
  <2>1. Continues(r)
    BY <1>17 DEF DeleteAccount, Continues, Pcs, Results
  <2> QED
    BY <1>17, <2>1, Places DEF DeleteAccount, Cascade, Types
<1>18. ASSUME NEW r \in Requests, Fail(r) PROVE Types'
  <2>1. pc[r] = "start" => r \in Trips
    BY <1>18 DEF Fail, Placed, At
  <2>2. pending' \subseteq Trips
    BY <1>18, <2>1 DEF Fail, Taken, Types
  <2>3. Continues(r)
    BY <1>18 DEF Fail, Continues, Pcs, Results
  <2> QED
    BY <1>18, <2>1, <2>2, <2>3, Places DEF Fail, Freed, Types
<1>19. ASSUME NEW s \in Calls, SignOut(s) \/ Tick(s) PROVE Types'
  BY <1>19 DEF SignOut, Tick, Types, Ages
<1>20. CASE StateExpires
  BY <1>20 DEF StateExpires, Types
<1>21. CASE UNCHANGED vars
  BY <1>21 DEF vars, Types
<1> QED
  BY <1>1, <1>2, <1>3, <1>4, <1>5, <1>6, <1>7, <1>8, <1>9, <1>10, <1>11, <1>12, <1>13, <1>14,
     <1>15, <1>16, <1>17, <1>18, <1>19, <1>20, <1>21 DEF Next, Step

-----------------------------------------------------------------------------
\* What belongs to a place is there when a request gets to it.
LEMMA PlacedStep == Types /\ Placed /\ [Next]_vars => Placed'
<1> SUFFICES ASSUME Types, Placed, [Next]_vars, NEW q \in Requests PROVE At(q)'
  BY DEF Placed
<1>0. At(q)
  BY DEF Placed
<1>1. ASSUME NEW r \in Requests, Arrive(r) \/ Step(r) \/ Fail(r) PROVE At(q)'
  <2>1. pc[r] # "done" /\ \A x \in Requests : x # r => Same(x)
    BY <1>1, Moves
  <2>2. CASE q # r
    <3>1. Same(q)
      BY <2>1, <2>2
    <3>2. q \in Calls /\ pc[TripOf[q]] = "done" => pc'[TripOf[q]] = "done"
      BY <2>1, Kinds, Parts DEF Same
    <3> QED
      BY <1>0, <3>1, <3>2 DEF At, Same
  <2>3. CASE q = r
    <3>1. r \in Calls /\ pc[TripOf[r]] = "done" => pc'[TripOf[r]] = "done"
      BY <2>1, Kinds, Parts DEF Same
    <3>2. CASE pc'[r] = "done" /\ UNCHANGED token /\ pc[r] # "idle"
      BY <1>0, <2>3, <3>1, <3>2 DEF At
    <3>3. CASE Arrive(r)
      <4>1. \E s \in Calls \cup {None} : /\ token'[r] = s
                                         /\ s = None => r \in SignIns \cup Calls
        BY <3>3 DEF Arrive, Cookies, Types
      <4>2. pc'[r] = IF r \in SignIns THEN "start" ELSE IF r \in Calls THEN "take" ELSE "session"
        BY <3>3 DEF Arrive, Goto, Types
      <4>3. r \in Calls => pc'[TripOf[r]] = "done"
        BY <3>1, <3>3 DEF Arrive
      <4> QED
        BY <2>3, <4>1, <4>2, <4>3, Kinds DEF At, Trips
    <3> DEFINE Onward == /\ r \in Connects => pc'[r] = "start"
                         /\ r \in Calls => pc'[r] = "fetch"
                         /\ r \in Removals => pc'[r] = "lock"
                         /\ pc'[r] \in {"start", "fetch", "lock", "sign out", "delete"}
                         /\ pc'[r] = "start" => r \in Connects
                         /\ pc'[r] = "fetch" => r \in Calls
                         /\ pc'[r] = "lock" => r \in Removals
    <3>4. ASSUME Goto(r, AfterSession(r)) PROVE Onward
      <4>1. pc'[r] = AfterSession(r)
        BY <3>4 DEF Goto, Types
      <4> QED
        BY <4>1, Kinds DEF AfterSession
    <3>5. CASE FindSession(r)
      <4>1. token[r] \in Calls
        BY <3>5 DEF FindSession, Placed, At
      <4>2. CASE session[token[r]] = None
        BY <3>2, <3>5, <4>2, Parts DEF FindSession, NotSignedIn, Ends, Goto, Types, local
      <4>3. CASE session[token[r]] # None
        <5>1. user'[r] \in Calls /\ UNCHANGED token /\ pc[r] = "session"
          BY <3>5, <4>1, <4>3 DEF FindSession, Types
        <5>2. Onward \/ pc'[r] \in {"extend", "drop"}
          BY <3>4, <3>5, <4>3 DEF FindSession, Goto, Types
        <5> QED
          BY <1>0, <2>3, <3>1, <4>1, <5>1, <5>2, Kinds DEF At, Trips
      <4> QED
        BY <4>2, <4>3
    <3>6. CASE ExtendSession(r)
      <4>1. UNCHANGED <<token, user>> /\ pc[r] = "extend"
        BY <3>6 DEF ExtendSession, local
      <4>2. Onward \/ pc'[r] = "done"
        BY <3>4, <3>6 DEF ExtendSession, Extended, Ends, Goto, Types
      <4> QED
        BY <1>0, <2>3, <3>1, <3>2, <4>1, <4>2, Kinds DEF At, Trips
    <3>7. CASE r \in Calls /\ TakeState(r)
      <4>1. UNCHANGED <<token, user>> /\ pc[r] = "take"
        BY <3>7 DEF TakeState, local
      <4>2. \/ pc'[r] = "done"
            \/ TripOf[r] \in SignIns /\ pc'[r] = "fetch"
            \/ TripOf[r] \in Connects /\ pc'[r] = "session" /\ token[r] = token[TripOf[r]]
        BY <3>7, Parts DEF TakeState, Ends, Goto, Types
      <4>3. TripOf[r] \in Connects => token[TripOf[r]] \in Calls
        BY <1>0, <2>3, <3>7, <4>1, Parts DEF Placed, At
      <4> QED
        BY <1>0, <2>3, <3>1, <3>2, <3>7, <4>1, <4>2, <4>3, Kinds DEF At
    <3>8. CASE r \in Calls /\ Fetch(r)
      <4>1. /\ pc[r] = "fetch" /\ pc'[r] = "identity"
            /\ UNCHANGED <<token, user>> /\ account'[r] \in Accounts
        BY <3>8 DEF Fetch, Goto, Types
      <4> QED
        BY <1>0, <2>3, <3>1, <3>8, <4>1, Kinds DEF At
    <3>9. CASE r \in Calls /\ FindIdentity(r)
      <4>1. account[r] \in Accounts /\ identity[account[r]] \in Calls \cup {None}
        BY <1>0, <2>3, <3>9 DEF FindIdentity, At, Types
      <4>2. pc[r] = "identity" /\ UNCHANGED <<token, account>>
        BY <3>9 DEF FindIdentity
      <4>3. CASE TripOf[r] \in Connects
        <5>1. /\ pc'[r] = "lock" \/ pc'[r] = "done"
              /\ plan'[r] = "connect" /\ user'[r] = user[r]
          BY <3>9, <4>3 DEF FindIdentity, Ends, Goto, Types
        <5> QED
          BY <1>0, <2>3, <3>1, <3>2, <3>9, <4>1, <4>2, <4>3, <5>1, Kinds DEF At
      <4>4. CASE TripOf[r] \notin Connects
        <5>1. \/ /\ pc'[r] = "by email" /\ plan'[r] = "join"
              \/ /\ pc'[r] = "user" /\ plan'[r] = "known" /\ user'[r] \in Calls
          BY <3>9, <4>1, <4>4 DEF FindIdentity, Goto, Types
        <5> QED
          BY <1>0, <2>3, <3>1, <3>9, <4>1, <4>2, <4>4, <5>1, Kinds DEF At
      <4> QED
        BY <4>3, <4>4
    <3>10. CASE r \in Calls /\ FindUser(r)
      <4>1. /\ pc[r] = "user" /\ UNCHANGED <<token, user, account, plan>>
            /\ pc'[r] \in {"done", "save"}
        BY <3>10 DEF FindUser, Ends, Goto, Types, local
      <4> QED
        BY <1>0, <2>3, <3>1, <3>2, <3>10, <4>1, Kinds DEF At
    <3>11. CASE r \in Calls /\ FindByEmail(r)
      <4>1. pc[r] = "by email" /\ UNCHANGED <<token, account>>
        BY <3>11 DEF FindByEmail
      <4>2. \/ pc'[r] = "done"
            \/ pc'[r] = "save" /\ user'[r] = r /\ plan'[r] = "new"
            \/ pc'[r] = "lock" /\ user'[r] \in Calls /\ plan'[r] = plan[r]
        BY <3>11 DEF FindByEmail, Users, Ends, Goto, Types
      <4> QED
        BY <1>0, <2>3, <3>1, <3>2, <3>11, <4>1, <4>2, Kinds DEF At
    <3>12. CASE r \in Calls \cup Removals /\ LockUser(r)
      <4>1. /\ pc[r] = "lock" /\ pc'[r] = "providers"
            /\ UNCHANGED <<token, user, account, plan>>
        BY <3>12 DEF LockUser, Goto, Types, local
      <4> QED
        BY <1>0, <2>3, <3>1, <4>1 DEF At
    <3>13. CASE r \in Calls /\ CheckProviders(r)
      <4>1. /\ pc[r] = "providers" /\ pc'[r] \in {"done", "save"}
            /\ UNCHANGED <<token, user, account, plan>>
        BY <3>13 DEF CheckProviders, Ends, Goto, Types, local
      <4> QED
        BY <1>0, <2>3, <3>1, <3>2, <3>13, <4>1 DEF At
    <3>14. CASE CheckMethods(r)
      <4>1. /\ pc[r] = "providers" /\ pc'[r] \in {"done", "remove"} /\ r \in Removals
            /\ UNCHANGED <<token, user, account, plan>>
        BY <3>14 DEF CheckMethods, Ends, Goto, Types
      <4> QED
        BY <1>0, <2>3, <3>1, <3>2, <4>1, Kinds DEF At
    <3>15. CASE \/ DropSession(r) \/ Fail(r) \/ Remove(r) \/ SignOutEverywhere(r)
                \/ DeleteAccount(r)
                \/ r \in Trips /\ Start(r)
                \/ r \in Calls /\ Save(r)
      BY <3>2, <3>15 DEF DropSession, NotSignedIn, Fail, Remove, SignOutEverywhere,
         DeleteAccount, Start, Save, Ends, Goto, Types, local
    <3>16. CASE FindSession(r) \/ ExtendSession(r) \/ DropSession(r)
      BY <3>5, <3>6, <3>15, <3>16
    <3>17. CASE r \in Trips /\ Start(r)
      BY <3>15, <3>17
    <3>18. CASE /\ r \in Calls
                /\ \/ TakeState(r) \/ Fetch(r) \/ FindIdentity(r) \/ FindUser(r)
                   \/ FindByEmail(r) \/ CheckProviders(r) \/ Save(r)
      BY <3>7, <3>8, <3>9, <3>10, <3>11, <3>13, <3>15, <3>18
    <3>19. CASE CheckMethods(r) \/ Remove(r) \/ SignOutEverywhere(r) \/ DeleteAccount(r)
      BY <3>14, <3>15, <3>19
    <3>20. CASE Fail(r)
      BY <3>15, <3>20
    <3> QED
      BY <1>1, <3>3, <3>12, <3>16, <3>17, <3>18, <3>19, <3>20 DEF Step
  <2> QED
    BY <2>2, <2>3
<1>2. ASSUME NEW s \in Calls, SignOut(s) \/ Tick(s) PROVE At(q)'
  BY ZenonT(60), <1>0, <1>2 DEF SignOut, Tick, At, local
<1>3. CASE StateExpires
  BY <1>0, <1>3 DEF StateExpires, At, local
<1>4. CASE UNCHANGED vars
  BY <1>0, <1>4 DEF vars, At
<1> QED
  BY <1>1, <1>2, <1>3, <1>4 DEF Next

-----------------------------------------------------------------------------
(***************************************************************************)
(* The rows.                                                               *)
(***************************************************************************)

\* Every row leads to a user, made by a call that is over; what a request read
\* of users is one of those, or the user that a call is going to make.
Rows ==
    /\ \A u \in Calls : email[u] # None => pc[u] = "done"
    /\ \A a \in Accounts : identity[a] # None => email[identity[a]] # None
    /\ \A s \in Calls : session[s] # None => email[session[s]] # None
    /\ \A r \in Requests : user[r] \in Calls => user[r] = r \/ pc[user[r]] = "done"

\* A step leaves users and identities as they are; sessions may end.
RowsStay ==
    /\ UNCHANGED <<email, identity>>
    /\ \A s \in Calls : session'[s] \in {session[s], None}

\* A call inserts its rows.
Inserts(c) ==
    /\ Save(c) /\ Insertable(c)
    /\ SaveSignIn(c) \/ SaveConnect(c)

\* What a step does to the rows.
LEMMA Effects ==
    ASSUME Types, Placed, [Next]_vars
    PROVE  \/ RowsStay
           \/ \E c \in Calls : Inserts(c)
           \/ \E x \in Requests : Remove(x)
           \/ \E x \in Requests : DeleteAccount(x)
<1> USE Parts DEF postgres, local, RowsStay
<1>1. ASSUME NEW r \in Requests, Arrive(r) PROVE RowsStay
  BY <1>1 DEF Arrive
<1>2. ASSUME NEW r \in Requests, FindSession(r) PROVE RowsStay
  BY <1>2 DEF FindSession
<1>3. ASSUME NEW r \in Requests, ExtendSession(r) PROVE RowsStay
  BY <1>3 DEF ExtendSession, Extended
<1>4. ASSUME NEW r \in Requests, DropSession(r) PROVE RowsStay
  BY <1>4 DEF DropSession, Types
<1>5. ASSUME NEW r \in Requests, Start(r) \/ TakeState(r) PROVE RowsStay
  BY <1>5 DEF Start, TakeState
<1>6. ASSUME NEW r \in Requests, Fetch(r) \/ FindIdentity(r) \/ FindUser(r) \/ FindByEmail(r)
      PROVE  RowsStay
  BY <1>6 DEF Fetch, FindIdentity, FindUser, FindByEmail
<1>7. ASSUME NEW r \in Requests, LockUser(r) \/ CheckProviders(r) \/ CheckMethods(r)
      PROVE  RowsStay
  BY <1>7 DEF LockUser, CheckProviders, CheckMethods
<1>8. ASSUME NEW r \in Calls, Save(r) PROVE RowsStay \/ Inserts(r)
  BY <1>8 DEF Save, Inserts
<1>9. ASSUME NEW r \in Requests, SignOutEverywhere(r) PROVE RowsStay
  BY <1>9 DEF SignOutEverywhere, Types
<1>10. ASSUME NEW r \in Requests, Fail(r) PROVE RowsStay
  BY <1>10 DEF Fail
<1>11. ASSUME NEW s \in Calls, SignOut(s) \/ Tick(s) PROVE RowsStay
  BY <1>11 DEF SignOut, Tick, Types
<1>12. CASE StateExpires
  BY <1>12 DEF StateExpires
<1>13. CASE UNCHANGED vars
  BY <1>13 DEF vars
<1> QED
  BY <1>1, <1>2, <1>3, <1>4, <1>5, <1>6, <1>7, <1>8, <1>9, <1>10, <1>11, <1>12, <1>13
     DEF Next, Step

\* A request that is over stays over.
LEMMA DoneStays ==
    ASSUME Types, [Next]_vars, NEW q \in Requests, pc[q] = "done"
    PROVE  pc'[q] = "done"
<1>1. ASSUME NEW r \in Requests, Arrive(r) \/ Step(r) \/ Fail(r) PROVE pc'[q] = "done"
  BY <1>1, Moves DEF Same
<1>2. ASSUME NEW s \in Calls, SignOut(s) \/ Tick(s) PROVE pc'[q] = "done"
  BY <1>2 DEF SignOut, Tick
<1>3. CASE StateExpires \/ UNCHANGED vars
  BY <1>3 DEF StateExpires, vars
<1> QED
  BY <1>1, <1>2, <1>3 DEF Next

\* The users that requests read are those of rows, or their own.
LEMMA UsersRead ==
    ASSUME Types, Placed, Rows, [Next]_vars, NEW q \in Requests, user'[q] \in Calls
    PROVE  user'[q] = user[q] \/ user'[q] = q \/ pc[user'[q]] = "done"
<1> USE Parts
<1> DEFINE Goal == user'[q] = user[q] \/ user'[q] = q \/ pc[user'[q]] = "done"
<1>1. ASSUME NEW r \in Requests, FindSession(r) PROVE Goal
  <2>1. token[r] \in Calls
    BY <1>1 DEF FindSession, Placed, At
  <2>2. CASE session[token[r]] = None
    BY <1>1, <2>2 DEF FindSession
  <2>3. CASE session[token[r]] # None
    <3>1. session[token[r]] \in Calls /\ pc[session[token[r]]] = "done"
      BY <2>1, <2>3 DEF Types, Rows
    <3>2. user' = [user EXCEPT ![r] = session[token[r]]]
      BY <1>1, <2>3 DEF FindSession
    <3> QED
      BY <3>1, <3>2 DEF Types
  <2> QED
    BY <2>2, <2>3
<1>2. ASSUME NEW r \in Calls, FindIdentity(r) PROVE Goal
  <2>1. account[r] \in Accounts
    BY <1>2 DEF FindIdentity, Placed, At
  <2>2. user' = user \/ user' = [user EXCEPT ![r] = identity[account[r]]]
    BY <1>2 DEF FindIdentity
  <2>3. identity[account[r]] = None \/ pc[identity[account[r]]] = "done"
    BY <2>1 DEF Types, Rows
  <2> QED
    BY <2>2, <2>3, Kinds DEF Types
<1>3. ASSUME NEW r \in Calls, FindByEmail(r) PROVE Goal
  <2>1. \/ user' = user
        \/ user' = [user EXCEPT ![r] = r]
        \/ \E u \in Users : user' = [user EXCEPT ![r] = u]
    BY <1>3 DEF FindByEmail
  <2>2. \A u \in Users : pc[u] = "done"
    BY DEF Users, Rows
  <2> QED
    BY <2>1, <2>2 DEF Types
<1> USE DEF postgres, local
<1>4. ASSUME NEW r \in Requests,
             \/ Arrive(r) \/ ExtendSession(r) \/ DropSession(r) \/ Start(r) \/ TakeState(r)
             \/ Fetch(r) \/ FindUser(r) \/ LockUser(r) \/ CheckProviders(r)
      PROVE  Goal
  BY <1>4 DEF Arrive, ExtendSession, DropSession, Start, TakeState, Fetch, FindUser,
     LockUser, CheckProviders
<1>5. ASSUME NEW r \in Requests,
             \/ Save(r) \/ CheckMethods(r) \/ Remove(r) \/ SignOutEverywhere(r)
             \/ DeleteAccount(r) \/ Fail(r)
      PROVE  Goal
  BY <1>5 DEF Save, CheckMethods, Remove, SignOutEverywhere, DeleteAccount, Fail
<1>6. ASSUME NEW s \in Calls, SignOut(s) \/ Tick(s) PROVE Goal
  BY <1>6 DEF SignOut, Tick
<1>7. CASE StateExpires \/ UNCHANGED vars
  BY <1>7 DEF StateExpires, vars
<1> QED
  BY <1>1, <1>2, <1>3, <1>4, <1>5, <1>6, <1>7 DEF Next, Step

LEMMA RowsStep == Types /\ Placed /\ Rows /\ [Next]_vars => Rows'
<1> SUFFICES ASSUME Types, Placed, Rows, [Next]_vars PROVE Rows'
  OBVIOUS
<1> USE Parts
<1>1. \A q \in Requests : pc[q] = "done" => pc'[q] = "done"
  BY DoneStays
<1>2. ASSUME NEW r \in Requests, user'[r] \in Calls
      PROVE  user'[r] = r \/ pc'[user'[r]] = "done"
  <2>1. user'[r] = user[r] \/ user'[r] = r \/ pc[user'[r]] = "done"
    BY <1>2, UsersRead
  <2> QED
    BY <1>1, <1>2, <2>1 DEF Rows
<1>3. CASE RowsStay
  BY <1>1, <1>2, <1>3 DEF RowsStay, Rows
<1>4. ASSUME NEW c \in Calls, Inserts(c) PROVE Rows'
  <2>1. /\ account[c] \in Accounts /\ user[c] \in Calls /\ pc'[c] = "done"
        /\ plan[c] = "new" => user[c] = c
    BY <1>4 DEF Inserts, Save, Ends, Goto, Placed, At, Types
  <2>2. EmailOf[account[c]] # None
    BY <2>1, Kinds
  <2>3. email'[user[c]] # None /\ \A u \in Calls : email[u] # None => email'[u] # None
    BY <1>4, <2>1, <2>2 DEF Inserts, Insertable, Users, SaveSignIn, SaveConnect, Types
  <2>4. \A u \in Calls : email'[u] # None => email[u] # None \/ u = c
    BY <1>4, <2>1 DEF Inserts, SaveSignIn, SaveConnect, Types
  <2>5. \A a \in Accounts : identity'[a] \in {identity[a], user[c]}
    BY <1>4, <2>1 DEF Inserts, SaveSignIn, SaveConnect, Types
  <2>6. \A s \in Calls : session'[s] \in {session[s], user[c], None}
    BY <1>4, <2>1 DEF Inserts, SaveSignIn, SaveConnect, Types
  <2>7. \A u \in Calls : email'[u] # None => pc'[u] = "done"
    BY <1>1, <2>1, <2>4 DEF Rows
  <2>8. \A a \in Accounts : identity'[a] # None => email'[identity'[a]] # None
    BY <2>3, <2>5 DEF Rows, Types
  <2>9. \A s \in Calls : session'[s] # None => email'[session'[s]] # None
    BY <2>3, <2>6 DEF Rows, Types
  <2> QED
    BY <1>2, <2>7, <2>8, <2>9 DEF Rows
<1>5. ASSUME NEW x \in Requests, Remove(x) PROVE Rows'
  <2>1. UNCHANGED <<email, session>> /\ \A a \in Accounts : identity'[a] \in {identity[a], None}
    BY <1>5 DEF Remove
  <2> QED
    BY <1>1, <1>2, <2>1 DEF Rows
<1>6. ASSUME NEW x \in Requests, DeleteAccount(x) PROVE Rows'
  <2>1. user[x] \in Calls /\ email' = [email EXCEPT ![user[x]] = None]
    BY <1>6 DEF DeleteAccount, Placed, At
  <2>2. \A a \in Accounts : identity'[a] # None => identity'[a] = identity[a] /\ identity[a] # user[x]
    BY <1>6 DEF DeleteAccount, Cascade
  <2>3. \A s \in Calls : session'[s] # None => session'[s] = session[s] /\ session[s] # user[x]
    BY <1>6 DEF DeleteAccount, Cascade
  <2>4. \A u \in Calls : email'[u] # None => email[u] # None
    BY <2>1 DEF Types
  <2>5. \A a \in Accounts : identity'[a] # None => email'[identity'[a]] # None
    BY <2>1, <2>2 DEF Rows, Types
  <2>6. \A s \in Calls : session'[s] # None => email'[session'[s]] # None
    BY <2>1, <2>3 DEF Rows, Types
  <2> QED
    BY <1>1, <1>2, <2>4, <2>5, <2>6 DEF Rows
<1> QED
  BY <1>3, <1>4, <1>5, <1>6, Effects

-----------------------------------------------------------------------------
(***************************************************************************)
(* The row lock.                                                           *)
(***************************************************************************)

\* A request that is to add or remove methods of a user it read.
Changes(r) ==
    /\ pc[r] \in Holding
    /\ r \in Calls => plan[r] \in {"join", "connect"}

\* A row lock is that of a request that may change methods, and who changes
\* those of a user who is there has the lock of the user's row.
Locks ==
    /\ \A u \in Calls : rowlock[u] # None => pc[rowlock[u]] \in Holding
    /\ \A r \in Requests : Changes(r) /\ user[r] \in Users => rowlock[user[r]] = r

\* What a step of a request does with row locks.
Unlocks(r) == pc'[r] = "done" /\ rowlock' = Freed(r)

Locks1(r) ==
    /\ Writable(r, user[r]) /\ rowlock' = Locked(r, user[r])
    /\ pc[r] = "lock" /\ pc'[r] = "providers"
    /\ UNCHANGED <<email, local>>

Keeps(r) ==
    /\ pc[r] = "providers" /\ pc'[r] \in {"save", "remove"}
    /\ UNCHANGED <<email, rowlock, user, plan>>

\* A step of a request that has nothing to do with row locks.
Without(r) ==
    /\ UNCHANGED rowlock
    /\ pc[r] \notin Holding
    /\ \/ pc'[r] \notin Holding
       \/ pc'[r] = "save" /\ r \in Calls /\ plan'[r] \in {"known", "new"}

LEMMA LockMoves ==
    ASSUME Types, Placed, NEW r \in Requests, Arrive(r) \/ Step(r) \/ Fail(r)
    PROVE  Unlocks(r) \/ Locks1(r) \/ Keeps(r) \/ Without(r)
<1> USE Parts DEF Goto, Ends, Types, Holding, postgres, local
<1> DEFINE Goal == Unlocks(r) \/ Locks1(r) \/ Keeps(r) \/ Without(r)
<1>1. CASE Arrive(r)
  BY <1>1 DEF Arrive, Without
<1>2. CASE FindSession(r)
  BY <1>2 DEF FindSession, NotSignedIn, AfterSession, Without
<1>3. CASE ExtendSession(r)
  BY <1>3 DEF ExtendSession, Extended, AfterSession, Without
<1>4. CASE DropSession(r)
  BY <1>4 DEF DropSession, NotSignedIn, Without
<1>5. CASE Start(r) \/ TakeState(r) \/ Fetch(r)
  BY <1>5 DEF Start, TakeState, Fetch, Without
<1>6. CASE r \in Calls /\ FindIdentity(r)
  BY <1>6 DEF FindIdentity, Without
<1>7. CASE r \in Calls /\ FindUser(r)
  <2>1. plan[r] = "known"
    BY <1>7 DEF FindUser, Placed, At
  <2> QED
    BY <1>7, <2>1 DEF FindUser, Without
<1>8. CASE r \in Calls /\ FindByEmail(r)
  <2>1. \/ pc'[r] \in {"lock", "done"}
        \/ pc'[r] = "save" /\ plan'[r] = "new"
    BY <1>8 DEF FindByEmail
  <2> QED
    BY <1>8, <2>1 DEF FindByEmail, Without
<1>9. CASE LockUser(r)
  BY <1>9 DEF LockUser, Locks1
<1>10. CASE CheckProviders(r)
  BY <1>10 DEF CheckProviders, Unlocks, Keeps
<1>11. CASE Save(r)
  BY <1>11 DEF Save, Unlocks
<1>12. CASE CheckMethods(r)
  BY <1>12 DEF CheckMethods, Unlocks, Keeps
<1>13. CASE Remove(r)
  BY <1>13 DEF Remove, Unlocks
<1>14. CASE SignOutEverywhere(r)
  BY <1>14 DEF SignOutEverywhere, Without
<1>15. CASE DeleteAccount(r)
  BY <1>15 DEF DeleteAccount, Without
<1>16. CASE Fail(r)
  BY <1>16 DEF Fail, Unlocks
<1> QED
  BY <1>1, <1>2, <1>3, <1>4, <1>5, <1>6, <1>7, <1>8, <1>9, <1>10, <1>11, <1>12, <1>13, <1>14,
     <1>15, <1>16 DEF Step

\* The user of a request does not come to be while another request moves.
LEMMA NoNewUser ==
    ASSUME Types, Placed, Rows, [Next]_vars, NEW q \in Requests, Same(q), pc[q] # "done",
           user[q] \in Users'
    PROVE  user[q] \in Users
<1> USE Parts DEF Users
<1>1. CASE RowsStay
  BY <1>1 DEF RowsStay
<1>2. ASSUME NEW c \in Calls, Inserts(c) PROVE user[q] \in Users
  <2>1. pc[c] = "save" /\ pc'[c] = "done" /\ c # q
    BY <1>2 DEF Inserts, Save, Ends, Goto, Types, Same
  <2>2. user[q] # c
    BY <2>1 DEF Rows
  <2>3. email'[user[q]] = email[user[q]]
    BY <1>2, <2>2 DEF Inserts, SaveSignIn, SaveConnect, Types
  <2> QED
    BY <2>3
<1>3. ASSUME NEW x \in Requests, Remove(x) PROVE user[q] \in Users
  BY <1>3 DEF Remove
<1>4. ASSUME NEW x \in Requests, DeleteAccount(x) PROVE user[q] \in Users
  BY <1>4 DEF DeleteAccount, Types
<1> QED
  BY <1>1, <1>2, <1>3, <1>4, Effects

LEMMA LocksStep == Types /\ Placed /\ Rows /\ Locks /\ [Next]_vars => Locks'
<1> SUFFICES ASSUME Types, Placed, Rows, Locks, [Next]_vars PROVE Locks'
  OBVIOUS
<1> USE Parts
<1>1. ASSUME NEW r \in Requests, Arrive(r) \/ Step(r) \/ Fail(r) PROVE Locks'
  <2>1. \A x \in Requests : x # r => Same(x)
    BY <1>1, Moves
  <2>2. Unlocks(r) \/ Locks1(r) \/ Keeps(r) \/ Without(r)
    BY <1>1, LockMoves
  <2>3. ASSUME NEW u \in Calls, rowlock'[u] # None PROVE pc'[rowlock'[u]] \in Holding
    <3>1. rowlock[u] # None => rowlock[u] \in Requests /\ pc[rowlock[u]] \in Holding
      BY DEF Locks, Types
    <3>2. CASE Unlocks(r)
      <4>1. rowlock'[u] = rowlock[u] /\ rowlock[u] # r
        BY <2>3, <3>2 DEF Unlocks, Freed
      <4> QED
        BY <2>1, <2>3, <3>1, <4>1 DEF Same
    <3>3. CASE Locks1(r)
      <4>1. rowlock'[u] \in {rowlock[u], r} /\ pc[r] \notin Holding /\ pc'[r] \in Holding
        BY <3>3 DEF Locks1, Locked, Types, Holding
      <4> QED
        BY <2>1, <2>3, <3>1, <4>1 DEF Same
    <3>4. CASE Keeps(r)
      <4>1. rowlock'[u] = rowlock[u] /\ pc'[r] \in Holding
        BY <3>4 DEF Keeps, Holding
      <4> QED
        BY <2>1, <2>3, <3>1, <4>1 DEF Same
    <3>5. CASE Without(r)
      <4>1. rowlock'[u] = rowlock[u] /\ pc[r] \notin Holding
        BY <3>5 DEF Without
      <4> QED
        BY <2>1, <2>3, <3>1, <4>1 DEF Same
    <3> QED
      BY <2>2, <3>2, <3>3, <3>4, <3>5
  <2>4. ASSUME NEW q \in Requests, Changes(q)', user'[q] \in Users'
        PROVE  rowlock'[user'[q]] = q
    <3>1. user'[q] \in Calls
      BY <2>4 DEF Users
    <3>2. CASE q # r
      <4>1. Same(q) /\ Changes(q) /\ user[q] = user'[q] /\ pc[q] # "done"
        BY <2>1, <2>4, <3>2 DEF Same, Changes, Holding
      <4>2. rowlock[user[q]] = q
        BY <2>4, <4>1, NoNewUser DEF Locks
      <4>3. q # None
        BY Kinds
      <4>4. rowlock'[user[q]] = rowlock[user[q]]
        <5>1. CASE Unlocks(r)
          BY <3>1, <3>2, <4>1, <4>2, <5>1 DEF Unlocks, Freed
        <5>2. CASE Locks1(r)
          <6>1. user[r] # user[q]
            BY <3>2, <4>2, <4>3, <5>2 DEF Locks1, Writable
          <6> QED
            BY <5>2, <6>1 DEF Locks1, Locked, Types
        <5>3. CASE Keeps(r) \/ Without(r)
          BY <5>3 DEF Keeps, Without
        <5> QED
          BY <2>2, <5>1, <5>2, <5>3
      <4> QED
        BY <4>1, <4>2, <4>4
    <3>3. CASE q = r
      <4>1. CASE Unlocks(r)
        BY <2>4, <3>3, <4>1 DEF Unlocks, Changes, Holding
      <4>2. CASE Locks1(r)
        <5>1. user'[r] = user[r] /\ user[r] \in Users
          BY <2>4, <3>3, <4>2 DEF Locks1, local, Users
        <5> QED
          BY <3>3, <4>2, <5>1 DEF Locks1, Locked, Types, Users
      <4>3. CASE Keeps(r)
        <5>1. Changes(r) /\ user'[r] = user[r] /\ user[r] \in Users
          BY <2>4, <3>3, <4>3 DEF Keeps, Changes, Users, Holding
        <5> QED
          BY <3>3, <4>3, <5>1 DEF Keeps, Locks
      <4>4. CASE Without(r)
        BY <2>4, <3>3, <4>4 DEF Without, Changes
      <4> QED
        BY <2>2, <4>1, <4>2, <4>3, <4>4
    <3> QED
      BY <3>2, <3>3
  <2> QED
    BY <2>3, <2>4 DEF Locks
<1>2. ASSUME NEW s \in Calls, SignOut(s) \/ Tick(s) PROVE Locks'
  BY <1>2 DEF SignOut, Tick, Locks, Changes, Users, local
<1>3. CASE StateExpires \/ UNCHANGED vars
  BY <1>3 DEF StateExpires, vars, Locks, Changes, Users, local, postgres
<1> QED
  BY <1>1, <1>2, <1>3 DEF Next

-----------------------------------------------------------------------------
(***************************************************************************)
(* The methods of a user.                                                  *)
(***************************************************************************)

\* What a request read of the methods of a user it is to change.
Adds(c) ==
    pc[c] = "save" /\ plan[c] \in {"join", "connect"} /\ user[c] \in Users
    => \A a \in Accounts : identity[a] = user[c] => ProviderOf[a] # ProviderOf[account[c]]

Leaves(x) ==
    pc[x] = "remove" /\ user[x] \in Users
    => \E a \in Accounts : identity[a] = user[x] /\ ProviderOf[a] # method[x]

\* It stays true while the request has the lock, so that the methods of a user
\* are one per provider, and never none.
Methods ==
    /\ \A c \in Calls : Adds(c)
    /\ \A x \in Requests : Leaves(x)
    /\ OneMethodPerProvider
    /\ AlwaysASignInMethod

\* Who adds or removes methods of a user has the lock of the user's row, so
\* the methods of the user of another one that has it stay.
LEMMA OnlyTheHolder ==
    ASSUME Types, Placed, Rows, Locks, [Next]_vars, NEW q \in Requests, Same(q),
           Changes(q), user[q] \in Users, user[q] \in Users'
    PROVE  \A a \in Accounts : (identity'[a] = user[q]) <=> (identity[a] = user[q])
<1> USE Parts
<1> DEFINE Goal == \A a \in Accounts : (identity'[a] = user[q]) <=> (identity[a] = user[q])
<1>0. /\ rowlock[user[q]] = q /\ pc[q] # "done" /\ user[q] \in Calls /\ user[q] # None
      /\ pc[user[q]] = "done"
  BY Kinds DEF Locks, Changes, Holding, Users, Rows
<1>1. CASE RowsStay
  BY <1>1 DEF RowsStay
<1>2. ASSUME NEW c \in Calls, Inserts(c) PROVE Goal
  <2>0. pc[c] = "save" /\ pc'[c] = "done"
    BY <1>2 DEF Inserts, Save, Ends, Goto, Types
  <2>1. /\ c # q /\ user[c] \in Calls /\ account[c] \in Accounts
        /\ plan[c] = "new" => user[c] = c
    BY <2>0 DEF Same, Placed, At
  <2>2. CASE plan[c] = "known"
    BY <1>2, <2>2 DEF Inserts, SaveSignIn, SaveConnect
  <2>3. CASE plan[c] # "known"
    <3>1. user[c] # user[q]
      <4>1. CASE plan[c] = "new"
        BY <1>0, <2>0, <2>1, <4>1
      <4>2. CASE plan[c] # "new"
        <5>1. Changes(c) /\ user[c] \in Users
          BY <1>2, <2>0, <2>3, <4>2 DEF Inserts, Insertable, SaveSignIn, SaveConnect, Changes, Holding
        <5>2. rowlock[user[c]] = c
          BY <5>1 DEF Locks
        <5> QED
          BY <1>0, <2>1, <5>2
      <4> QED
        BY <4>1, <4>2
    <3>2. identity[account[c]] = None /\ identity' = [identity EXCEPT ![account[c]] = user[c]]
      BY <1>2, <2>3 DEF Inserts, Insertable, SaveSignIn, SaveConnect
    <3> QED
      BY <1>0, <2>1, <3>1, <3>2 DEF Types
  <2> QED
    BY <2>2, <2>3
<1>3. ASSUME NEW x \in Requests, Remove(x) PROVE Goal
  <2>1. x \in Removals /\ pc[x] = "remove"
    BY <1>3 DEF Remove, Placed, At
  <2>0. pc'[x] = "done" /\ x # q
    BY <1>3, <2>1 DEF Remove, Ends, Goto, Types, Same
  <2>2. Changes(x)
    BY <2>1, Kinds DEF Changes, Holding
  <2>3. user[x] # user[q]
    BY <1>0, <2>0, <2>2 DEF Locks
  <2> QED
    BY <1>0, <1>3, <2>3 DEF Remove, MethodsOf
<1>4. ASSUME NEW x \in Requests, DeleteAccount(x) PROVE Goal
  <2>1. user[x] # user[q]
    BY <1>4 DEF DeleteAccount, Users, Types
  <2> QED
    BY <1>0, <1>4, <2>1 DEF DeleteAccount, Cascade
<1> QED
  BY <1>1, <1>2, <1>3, <1>4, Effects

LEMMA WhoMoves ==
    ASSUME Types, [Next]_vars, NEW q \in Requests
    PROVE  Same(q) \/ Arrive(q) \/ Step(q) \/ Fail(q)
<1>1. ASSUME NEW r \in Requests, Arrive(r) \/ Step(r) \/ Fail(r)
      PROVE  Same(q) \/ Arrive(q) \/ Step(q) \/ Fail(q)
  BY <1>1, Moves
<1>2. ASSUME NEW s \in Calls, SignOut(s) \/ Tick(s) PROVE Same(q)
  BY <1>2 DEF SignOut, Tick, Same, local
<1>3. CASE StateExpires \/ UNCHANGED vars
  BY <1>3 DEF StateExpires, vars, Same, local
<1> QED
  BY <1>1, <1>2, <1>3 DEF Next

\* What a request read under the lock is true when it reads it, and stays true.
LEMMA ReadStays ==
    ASSUME Types, Placed, Rows, Locks, Methods, [Next]_vars, NEW q \in Requests
    PROVE  (q \in Calls => Adds(q)') /\ Leaves(q)'
<1> USE Parts
<1>1. CASE Same(q)
  <2>1. ASSUME Changes(q)', pc[q] # "done", user'[q] \in Users'
        PROVE  /\ user[q] = user'[q] /\ user[q] \in Users
               /\ \A a \in Accounts : (identity'[a] = user[q]) <=> (identity[a] = user[q])
    <3>1. Changes(q) /\ user[q] = user'[q]
      BY <1>1, <2>1 DEF Same, Changes
    <3>2. user[q] \in Users
      BY <1>1, <2>1, <3>1, NoNewUser
    <3> QED
      BY <1>1, <2>1, <3>1, <3>2, OnlyTheHolder
  <2>2. ASSUME q \in Calls PROVE Adds(q)'
    <3> SUFFICES ASSUME pc'[q] = "save", plan'[q] \in {"join", "connect"}, user'[q] \in Users'
                 PROVE  \A a \in Accounts : identity'[a] = user'[q]
                                            => ProviderOf[a] # ProviderOf[account'[q]]
      BY DEF Adds
    <3>1. Changes(q)' /\ pc[q] = "save" /\ plan[q] \in {"join", "connect"}
      BY <1>1, <2>2 DEF Changes, Holding, Same
    <3>2. account'[q] = account[q]
      BY <1>1 DEF Same
    <3> QED
      BY <2>1, <2>2, <3>1, <3>2 DEF Methods, Adds
  <2>3. Leaves(q)'
    <3> SUFFICES ASSUME pc'[q] = "remove", user'[q] \in Users'
                 PROVE  \E a \in Accounts : identity'[a] = user'[q] /\ ProviderOf[a] # method'[q]
      BY DEF Leaves
    <3>1. pc[q] = "remove" /\ q \in Removals /\ method'[q] = method[q]
      BY <1>1 DEF Same, Placed, At
    <3>2. Changes(q)'
      BY <3>1, Kinds DEF Changes, Holding
    <3> QED
      BY <2>1, <3>1, <3>2 DEF Methods, Leaves
  <2> QED
    BY <2>2, <2>3
<1>2. CASE Arrive(q) \/ Step(q) \/ Fail(q)
  <2>1. Unlocks(q) \/ Locks1(q) \/ Keeps(q) \/ Without(q)
    BY <1>2, LockMoves
  <2>2. ASSUME q \in Calls, pc'[q] = "save", plan'[q] \in {"join", "connect"}
        PROVE  CheckProviders(q)
    <3>1. pc[q] = "providers"
      BY <2>1, <2>2 DEF Unlocks, Locks1, Keeps, Without, Holding
    <3>2. ~Fail(q)
      BY <2>2 DEF Fail, Ends, Goto, Types
    <3>3. q \notin Removals
      BY <2>2, Kinds
    <3> QED
      BY <1>2, <3>1, <3>2, <3>3 DEF Step, Arrive, FindSession, ExtendSession, DropSession,
         Start, TakeState, Fetch, FindIdentity, FindUser, FindByEmail, LockUser, Save,
         CheckMethods, Remove, SignOutEverywhere, DeleteAccount
  <2>3. ASSUME pc'[q] = "remove" PROVE CheckMethods(q)
    <3>1. pc[q] = "providers"
      BY <2>1, <2>3 DEF Unlocks, Locks1, Keeps, Without, Holding
    <3> QED
      BY <1>2, <2>3, <3>1, Kinds DEF Step, Arrive, Fail, Ends, Goto, Types, FindSession,
         ExtendSession, DropSession, Start, TakeState, Fetch, FindIdentity, FindUser,
         FindByEmail, LockUser, CheckProviders, Save, Remove, SignOutEverywhere, DeleteAccount
  <2>4. q \in Calls => Adds(q)'
    <3> SUFFICES ASSUME q \in Calls, pc'[q] = "save", plan'[q] \in {"join", "connect"}
                 PROVE  \A a \in Accounts : identity'[a] = user'[q]
                                            => ProviderOf[a] # ProviderOf[account'[q]]
      BY DEF Adds
    <3>1. CheckProviders(q)
      BY <2>2
    <3>2. ProviderOf[account[q]] \notin ProvidersOf(user[q])
      BY <3>1 DEF CheckProviders, Ends, Goto, Types
    <3> QED
      BY <3>1, <3>2 DEF CheckProviders, ProvidersOf, MethodsOf, local
  <2>5. Leaves(q)'
    <3> SUFFICES ASSUME pc'[q] = "remove"
                 PROVE  \E a \in Accounts : identity'[a] = user'[q] /\ ProviderOf[a] # method'[q]
      BY DEF Leaves
    <3>1. CheckMethods(q)
      BY <2>3
    <3>2. UNCHANGED <<identity, user>>
      BY <3>1 DEF CheckMethods
    <3>3. PICK p \in Providers : /\ p \in ProvidersOf(user[q]) /\ ProvidersOf(user[q]) # {p}
                                 /\ method'[q] = p
      BY <3>1 DEF CheckMethods, Ends, Goto, Types
    <3>4. \E p2 \in ProvidersOf(user[q]) : p2 # p
      BY <3>3
    <3> QED
      BY <3>2, <3>3, <3>4 DEF ProvidersOf, MethodsOf
  <2> QED
    BY <2>4, <2>5
<1> QED
  BY <1>1, <1>2, WhoMoves

\* What a call inserts: an identity that was not there, of a user who then is.
LEMMA Inserted ==
    ASSUME Types, Placed, Rows, NEW c \in Calls, Inserts(c)
    PROVE  /\ user[c] \in Calls /\ account[c] \in Accounts /\ pc[c] = "save"
           /\ \/ plan[c] = "known" /\ identity' = identity
              \/ /\ plan[c] # "known" /\ identity[account[c]] = None
                 /\ identity' = [identity EXCEPT ![account[c]] = user[c]]
           /\ \/ plan[c] # "new" /\ email' = email /\ user[c] \in Users
              \/ /\ plan[c] = "new" /\ user[c] = c /\ email[c] = None
                 /\ email' = [email EXCEPT ![c] = EmailOf[account[c]]]
                 /\ \A u \in Users : email[u] # EmailOf[account[c]]
<1>1. pc[c] = "save"
  BY DEF Inserts, Save
<1>2. /\ user[c] \in Calls /\ account[c] \in Accounts
      /\ plan[c] = "new" => user[c] = c
  BY <1>1, Parts DEF Placed, At
<1>3. email[c] = None
  BY <1>1 DEF Rows
<1> QED
  BY <1>1, <1>2, <1>3 DEF Inserts, Insertable, SaveSignIn, SaveConnect

LEMMA MethodsStep == Types /\ Placed /\ Rows /\ Locks /\ Methods /\ [Next]_vars => Methods'
<1> SUFFICES ASSUME Types, Placed, Rows, Locks, Methods, [Next]_vars PROVE Methods'
  OBVIOUS
<1> USE Parts
<1>1. (\A c \in Calls : Adds(c)') /\ \A x \in Requests : Leaves(x)'
  BY ReadStays
<1>2. CASE RowsStay
  BY <1>1, <1>2 DEF RowsStay, Methods, OneMethodPerProvider, AlwaysASignInMethod, Users, MethodsOf
<1>3. ASSUME NEW c \in Calls, Inserts(c) PROVE Methods'
  <2>0. user[c] # None
    BY <1>3, Inserted, Kinds
  <2>1. OneMethodPerProvider'
    <3>1. CASE plan[c] = "known"
      BY <1>3, <3>1, Inserted DEF Methods, OneMethodPerProvider
    <3>2. CASE plan[c] # "known"
      <4>1. \A a \in Accounts : identity[a] = user[c] => ProviderOf[a] # ProviderOf[account[c]]
        <5>1. CASE plan[c] = "new"
          <6>1. email[user[c]] = None
            BY <1>3, <5>1, Inserted
          <6> QED
            BY <2>0, <6>1 DEF Rows
        <5>2. CASE plan[c] # "new"
          <6>1. plan[c] \in {"join", "connect"}
            BY <1>3, <3>2, <5>2 DEF Inserts, SaveSignIn, SaveConnect
          <6> QED
            BY <1>3, <5>2, <6>1, Inserted DEF Methods, Adds
        <5> QED
          BY <5>1, <5>2
      <4>2. identity' = [identity EXCEPT ![account[c]] = user[c]] /\ account[c] \in Accounts
        BY <1>3, <3>2, Inserted
      <4>3. /\ identity'[account[c]] = user[c]
            /\ \A a \in Accounts : a # account[c] => identity'[a] = identity[a]
        BY <4>2 DEF Types
      <4> QED
        BY <4>1, <4>3 DEF Methods, OneMethodPerProvider
    <3> QED
      BY <3>1, <3>2
  <2>2. AlwaysASignInMethod'
    <3> SUFFICES ASSUME NEW u \in Users' PROVE \E a \in Accounts : identity'[a] = u
      BY DEF AlwaysASignInMethod, MethodsOf
    <3>1. CASE u \in Users
      <4>1. PICK a \in Accounts : identity[a] = u
        BY <3>1 DEF Methods, AlwaysASignInMethod, MethodsOf
      <4>2. identity[a] # None
        BY <4>1, Kinds DEF Users
      <4> QED
        BY <1>3, <4>1, <4>2, Inserted DEF Types
    <3>2. CASE u \notin Users
      <4>1. u \in Calls /\ email'[u] # None /\ email[u] = None
        BY <3>2 DEF Users
      <4>2. plan[c] = "new" /\ user[c] = c /\ u = c
        BY <1>3, <4>1, Inserted DEF Types
      <4> QED
        BY <1>3, <4>2, Inserted DEF Types
    <3> QED
      BY <3>1, <3>2
  <2> QED
    BY <1>1, <2>1, <2>2 DEF Methods
<1>4. ASSUME NEW x \in Requests, Remove(x) PROVE Methods'
  <2>1. /\ email' = email
        /\ \A a \in Accounts : identity'[a] = IF identity[a] = user[x] /\ ProviderOf[a] = method[x]
                                              THEN None ELSE identity[a]
    BY <1>4 DEF Remove, MethodsOf
  <2>2. OneMethodPerProvider'
    BY <2>1 DEF Methods, OneMethodPerProvider
  <2>3. AlwaysASignInMethod'
    <3> SUFFICES ASSUME NEW u \in Users PROVE \E a \in Accounts : identity'[a] = u
      BY <2>1 DEF AlwaysASignInMethod, MethodsOf, Users
    <3>1. CASE u = user[x]
      <4>1. pc[x] = "remove"
        BY <1>4 DEF Remove
      <4>2. \E a \in Accounts : identity[a] = user[x] /\ ProviderOf[a] # method[x]
        BY <3>1, <4>1 DEF Methods, Leaves
      <4> QED
        BY <2>1, <3>1, <4>2
    <3>2. CASE u # user[x]
      BY <2>1, <3>2 DEF Methods, AlwaysASignInMethod, MethodsOf
    <3> QED
      BY <3>1, <3>2
  <2> QED
    BY <1>1, <2>2, <2>3 DEF Methods
<1>5. ASSUME NEW x \in Requests, DeleteAccount(x) PROVE Methods'
  <2>1. /\ user[x] \in Calls
        /\ email' = [email EXCEPT ![user[x]] = None]
        /\ \A a \in Accounts : identity'[a] = IF identity[a] = user[x] THEN None ELSE identity[a]
    BY <1>5 DEF DeleteAccount, Cascade, Placed, At
  <2>2. OneMethodPerProvider'
    BY <2>1 DEF Methods, OneMethodPerProvider
  <2>3. \A u \in Users' : u # user[x] /\ u \in Users
    BY <2>1 DEF Users, Types
  <2>4. AlwaysASignInMethod'
    BY <2>1, <2>3 DEF Methods, AlwaysASignInMethod, MethodsOf
  <2> QED
    BY <1>1, <2>2, <2>4 DEF Methods
<1> QED
  BY <1>2, <1>3, <1>4, <1>5, Effects

-----------------------------------------------------------------------------
(***************************************************************************)
(* The theorems.                                                           *)
(***************************************************************************)

Inv == Types /\ Placed /\ Rows /\ Locks /\ Methods

LEMMA InvInit == Init => Inv
<1> SUFFICES ASSUME Init PROVE Inv
  OBVIOUS
<1> USE Parts DEF Init
<1>1. Types
  BY DEF Types, Ages, Pcs, Plans, Results
<1>2. Placed
  BY DEF Placed, At
<1>3. Rows
  BY Kinds DEF Rows
<1>4. Locks
  BY DEF Locks, Changes, Holding
<1>5. Methods
  BY DEF Methods, Adds, Leaves, OneMethodPerProvider, AlwaysASignInMethod, Users
<1> QED
  BY <1>1, <1>2, <1>3, <1>4, <1>5 DEF Inv

LEMMA InvStep == Inv /\ [Next]_vars => Inv'
BY TypesStep, PlacedStep, RowsStep, LocksStep, MethodsStep DEF Inv

\* Every reachable state is one the invariant describes.
THEOREM Invariant == Spec => []Inv
BY InvInit, InvStep, PTL DEF Spec

\* Every variable has its type, and a row lock is that of a request that is
\* changing methods and is going to give it back.
THEOREM TypeCorrect == Spec => []TypeOK
<1>1. Inv => TypeOK
  BY Parts DEF Inv, Types, Locks, TypeOK, Changing, Holding
<1> QED
  BY <1>1, Invariant, PTL

\* Identities and sessions are those of users who are there, whatever was on
\* its way when an account was deleted.
THEOREM NothingIsLeft == Spec => []NothingOfTheDeleted
<1>1. Inv => NothingOfTheDeleted
  BY DEF Inv, Types, Rows, NothingOfTheDeleted, Users
<1> QED
  BY <1>1, Invariant, PTL

\* A user has at most one account of each provider.
THEOREM MethodsAreOnePerProvider == Spec => []OneMethodPerProvider
<1>1. Inv => OneMethodPerProvider
  BY DEF Inv, Methods
<1> QED
  BY <1>1, Invariant, PTL

\* A user who is there can sign in.
THEOREM UsersCanSignIn == Spec => []AlwaysASignInMethod
<1>1. Inv => AlwaysASignInMethod
  BY DEF Inv, Methods
<1> QED
  BY <1>1, Invariant, PTL

\* First sign-ins with one email make one user, however many there are.
THEOREM UsersHaveTheirEmail == Spec => []OneUserPerEmail
<1>1. Init => OneUserPerEmail
  BY DEF Init, OneUserPerEmail, Users
<1>2. Inv /\ OneUserPerEmail /\ [Next]_vars => OneUserPerEmail'
  <2> SUFFICES ASSUME Inv, OneUserPerEmail, [Next]_vars PROVE OneUserPerEmail'
    OBVIOUS
  <2> USE DEF Inv
  <2>1. CASE RowsStay
    BY <2>1 DEF RowsStay, OneUserPerEmail, Users
  <2>2. ASSUME NEW c \in Calls, Inserts(c) PROVE OneUserPerEmail'
    BY <2>2, Inserted DEF Types, OneUserPerEmail, Users
  <2>3. ASSUME NEW x \in Requests, Remove(x) PROVE OneUserPerEmail'
    BY <2>3 DEF Remove, OneUserPerEmail, Users
  <2>4. ASSUME NEW x \in Requests, DeleteAccount(x) PROVE OneUserPerEmail'
    <3>1. \A u \in Users' : u \in Users /\ email'[u] = email[u]
      BY <2>4 DEF DeleteAccount, Users, Types
    <3> QED
      BY <3>1 DEF OneUserPerEmail
  <2> QED
    BY <2>1, <2>2, <2>3, <2>4, Effects
<1> QED
  BY <1>1, <1>2, Invariant, PTL DEF Spec

\* An account goes from a user to another one only by being removed.
THEOREM AccountsStay == Spec => AccountsStayWithTheirUser
<1>1. Inv /\ [Next]_vars
      => [\A a \in Accounts : identity[a] # None => identity'[a] \in {identity[a], None}]_vars
  <2> SUFFICES ASSUME Inv, [Next]_vars, NEW a \in Accounts, identity[a] # None
               PROVE  identity'[a] \in {identity[a], None}
    OBVIOUS
  <2> USE DEF Inv
  <2>1. CASE RowsStay
    BY <2>1 DEF RowsStay
  <2>2. ASSUME NEW c \in Calls, Inserts(c) PROVE identity'[a] = identity[a]
    BY <2>2, Inserted DEF Types
  <2>3. ASSUME NEW x \in Requests, Remove(x) PROVE identity'[a] \in {identity[a], None}
    BY <2>3 DEF Remove
  <2>4. ASSUME NEW x \in Requests, DeleteAccount(x) PROVE identity'[a] \in {identity[a], None}
    BY <2>4 DEF DeleteAccount, Cascade
  <2> QED
    BY <2>1, <2>2, <2>3, <2>4, Effects
<1> QED
  BY <1>1, Invariant, PTL DEF Spec, AccountsStayWithTheirUser

\* Only the call that made a session puts it there: no extension revives it.
THEOREM SessionsEndForGood == Spec => EndedSessionsStayEnded
<1>1. Inv /\ [Next]_vars
      => [\A s \in Calls : session[s] = None /\ session'[s] # None => pc[s] = "save"]_vars
  <2> SUFFICES ASSUME Inv, [Next]_vars, NEW s \in Calls, session[s] = None, session'[s] # None
               PROVE  pc[s] = "save"
    OBVIOUS
  <2> USE DEF Inv
  <2>1. CASE RowsStay
    BY <2>1 DEF RowsStay
  <2>2. ASSUME NEW c \in Calls, Inserts(c) PROVE pc[s] = "save"
    <3>1. s = c
      BY <2>2 DEF Inserts, SaveSignIn, SaveConnect, Types
    <3> QED
      BY <2>2, <3>1, Inserted
  <2>3. ASSUME NEW x \in Requests, Remove(x) PROVE FALSE
    BY <2>3 DEF Remove
  <2>4. ASSUME NEW x \in Requests, DeleteAccount(x) PROVE FALSE
    BY <2>4 DEF DeleteAccount, Cascade
  <2> QED
    BY <2>1, <2>2, <2>3, <2>4, Effects
<1> QED
  BY <1>1, Invariant, PTL DEF Spec, EndedSessionsStayEnded

-----------------------------------------------------------------------------
(***************************************************************************)
(* The state of a round trip.                                              *)
(***************************************************************************)

\* The state of its trip let a call pass.
Passed(c) == pc[c] \notin {"idle", "take"} /\ result[c] # "expired"

\* Then the state is not in Redis any more, and it lets nobody else pass.
Once ==
    /\ \A r \in Requests : result[r] # "none" => pc[r] = "done"
    /\ \A c \in Calls : Passed(c) => TripOf[c] \notin pending
    /\ \A c, d \in Calls : c # d /\ TripOf[c] = TripOf[d] => ~(Passed(c) /\ Passed(d))

\* A request ends with an answer, or goes on without one.
Answers(r) == pc'[r] = "done" \/ result'[r] = result[r]

\* What a step does with pending states.
Puts(r) == pc[r] = "start" /\ pending' \subseteq pending \cup {r}

Uses(r) ==
    pc[r] = "take" /\ pending' \subseteq pending
    /\ (Passed(r)' => TripOf[r] \in pending /\ TripOf[r] \notin pending')

Apart(r) ==
    pending' = pending /\ (pc[r] \in {"idle", "take"} /\ r \in Calls => ~Passed(r)')

LEMMA StateMoves ==
    ASSUME Types, Placed, NEW r \in Requests, Arrive(r) \/ Step(r) \/ Fail(r)
    PROVE  /\ Answers(r) /\ \A q \in Requests : q # r => result'[q] = result[q]
           /\ Puts(r) \/ Uses(r) \/ Apart(r)
<1> USE Parts DEF Goto, Ends, Types, postgres, local, Answers
<1>1. CASE Arrive(r)
  <2>1. r \in Calls => pc'[r] = "take"
    BY <1>1, Kinds DEF Arrive
  <2> QED
    BY <1>1, <2>1 DEF Arrive, Apart, Passed
<1>2. CASE FindSession(r)
  BY <1>2 DEF FindSession, NotSignedIn, Apart
<1>3. CASE ExtendSession(r)
  BY <1>3 DEF ExtendSession, Extended, Apart
<1>4. CASE DropSession(r)
  BY <1>4 DEF DropSession, NotSignedIn, Apart
<1>5. CASE Start(r)
  BY <1>5 DEF Start, Puts
<1>6. CASE r \in Calls /\ TakeState(r)
  <2>1. Answers(r) /\ \A q \in Requests : q # r => result'[q] = result[q]
    BY <1>6 DEF TakeState
  <2>2. /\ pc[r] = "take" /\ pending' = pending \ {TripOf[r]}
        /\ TripOf[r] \notin pending => result'[r] = "expired"
    BY <1>6 DEF TakeState, Taken
  <2> QED
    BY <2>1, <2>2 DEF Uses, Passed
<1>7. CASE Fetch(r)
  BY <1>7 DEF Fetch, Apart
<1>8. CASE FindIdentity(r)
  BY <1>8 DEF FindIdentity, Apart
<1>9. CASE FindUser(r)
  BY <1>9 DEF FindUser, Apart
<1>10. CASE FindByEmail(r)
  BY <1>10 DEF FindByEmail, Apart
<1>11. CASE LockUser(r)
  BY <1>11 DEF LockUser, Apart
<1>12. CASE CheckProviders(r)
  BY <1>12 DEF CheckProviders, Apart
<1>13. CASE Save(r)
  BY <1>13 DEF Save, Apart
<1>14. CASE CheckMethods(r)
  BY <1>14 DEF CheckMethods, Apart
<1>15. CASE Remove(r)
  BY <1>15 DEF Remove, Apart
<1>16. CASE SignOutEverywhere(r)
  BY <1>16 DEF SignOutEverywhere, Apart
<1>17. CASE DeleteAccount(r)
  BY <1>17 DEF DeleteAccount, Apart
<1>18. CASE Fail(r)
  <2>1. Answers(r) /\ \A q \in Requests : q # r => result'[q] = result[q]
    BY <1>18 DEF Fail
  <2>2. CASE pc[r] = "take"
    <3>1. result'[r] = "expired" /\ pending' \subseteq pending
      BY <1>18, <2>2 DEF Fail, Taken
    <3> QED
      BY <2>1, <2>2, <3>1 DEF Uses, Passed
  <2>3. CASE pc[r] = "start"
    BY <1>18, <2>1, <2>3 DEF Fail, Puts
  <2>4. CASE pc[r] \notin {"take", "start"}
    BY <1>18, <2>1, <2>4 DEF Fail, Apart
  <2> QED
    BY <2>2, <2>3, <2>4
<1> QED
  BY <1>1, <1>2, <1>3, <1>4, <1>5, <1>6, <1>7, <1>8, <1>9, <1>10, <1>11, <1>12, <1>13, <1>14,
     <1>15, <1>16, <1>17, <1>18 DEF Step

LEMMA OnceStep == Types /\ Placed /\ Once /\ [Next]_vars => Once'
<1> SUFFICES ASSUME Types, Placed, Once, [Next]_vars PROVE Once'
  OBVIOUS
<1> USE Parts
<1>1. ASSUME NEW r \in Requests, Arrive(r) \/ Step(r) \/ Fail(r) PROVE Once'
  <2>1. pc[r] # "done" /\ \A q \in Requests : q # r => Same(q)
    BY <1>1, Moves
  <2>2. /\ Answers(r) /\ \A q \in Requests : q # r => result'[q] = result[q]
        /\ Puts(r) \/ Uses(r) \/ Apart(r)
    BY <1>1, StateMoves
  <2>3. \A q \in Requests : result'[q] # "none" => pc'[q] = "done"
    BY <2>1, <2>2 DEF Once, Same, Answers
  <2>4. \A c \in Calls : c # r => (Passed(c)' <=> Passed(c))
    BY <2>1, <2>2 DEF Same, Passed
  <2>5. result[r] = "none"
    BY <2>1 DEF Once
  <2>6. CASE Puts(r)
    <3>1. \A c \in Calls : Passed(c) => c # r /\ TripOf[c] # r
      BY <2>6, Kinds DEF Puts, Passed, Placed, At
    <3>2. r \notin Calls
      BY <2>6, Kinds DEF Puts, Placed, At
    <3> QED
      BY <2>3, <2>4, <2>6, <3>1, <3>2 DEF Once, Puts
  <2>7. CASE Uses(r)
    BY <2>3, <2>4, <2>7 DEF Once, Uses
  <2>8. CASE Apart(r)
    <3>1. r \in Calls /\ Passed(r)' => Passed(r)
      BY <2>5, <2>8 DEF Apart, Passed
    <3> QED
      BY <2>3, <2>4, <2>8, <3>1 DEF Once, Apart
  <2> QED
    BY <2>2, <2>6, <2>7, <2>8
<1>2. ASSUME NEW s \in Calls, SignOut(s) \/ Tick(s) PROVE Once'
  BY <1>2 DEF SignOut, Tick, Once, Passed
<1>3. CASE StateExpires \/ UNCHANGED vars
  BY <1>3 DEF StateExpires, vars, Once, Passed
<1> QED
  BY <1>1, <1>2, <1>3 DEF Next

\* A state of a round trip lets one callback pass, however often it comes.
THEOREM StatesAreUsedOnce == Spec => []StatesWorkOnce
<1>1. Init => Once
  BY Parts DEF Init, Once, Passed
<1>2. Once => StatesWorkOnce
  BY DEF Once, Passed, StatesWorkOnce
<1> QED
  BY <1>1, <1>2, Invariant, OnceStep, PTL DEF Spec, Inv

\* Whoever signed up can come back: the email leads to one user, who keeps a
\* method to sign in, of each provider at most one.
THEOREM UsersComeBack == Spec => []UsersCanComeBack
  BY UsersHaveTheirEmail, UsersCanSignIn, MethodsAreOnePerProvider, PTL DEF UsersCanComeBack
=============================================================================
