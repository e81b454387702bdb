------------------------- MODULE AccountSignInProofs -------------------------
(***************************************************************************)
(* Belongs, LegacyLinked and NeverDeadEnds for any number of sign-ins,     *)
(* browsers, GitHub accounts, old accounts and keys.                       *)
(***************************************************************************)
EXTENDS AccountSignIn, TLAPS

Early == {"idle", "github", "consented", "exchange", "byGithub", "link", "insertEmail", "insertFallback"}
Signed == {"session", "stamp", "done"}

(***************************************************************************)
(* What a step relies on is what the sign-in has established before its    *)
(* last await: who it acts for (Known), in which browser (Here), that its  *)
(* row is still to be made (Unmade), with which address (FromGithub), and  *)
(* why the next statement is tried (Claimed, Won).  The rows of users keep *)
(* what the inserts and the link gave them (LegacyAddressKept,             *)
(* FallbackOwned, OnePerPerson).                                           *)
(***************************************************************************)
Known(s) ==
  /\ pc[s] \notin {"idle", "github", "failed"} => person[s] \in People
  /\ account[s] # NoUser => person[s] \in People /\ pc[s] \in Signed \cup {"failed"}
  /\ pc[s] \in Signed => account[s] # NoUser
  /\ pc[s] \in {"link", "insertEmail"} => email[s] # NoEmail
  /\ s \in sessions => account[s] # NoUser

Here(s) ==
  pc[s] \in Statements \cup {"exchange"} => at[s] \in Browsers /\ began[s] = at[s]

Unmade(s) == pc[s] \in Early => users[s] = NoRow

\* Whoever makes a row has an address only if it is one that the callback takes.
FromGithub(s) ==
  pc[s] \in Statements \/ users[s] # NoRow =>
    email[s] = NoEmail \/ \E m \in Taken(person[s]) : email[s] = Normal[m]

OfAccount(s) == account[s] # NoUser => users[account[s]].github = person[s]

Claimed(s, u) ==
  email[s] = LegacyAddress[u] /\ (users[s] # NoRow \/ pc[s] \in {"insertEmail", "insertFallback"})
    => users[u].github # NoPerson

Won(s) == pc[s] = "raced" => OfPerson(person[s]) # {}

OnePerPerson ==
  \A u, v \in UserIds : users[u].github = users[v].github /\ users[u].github # NoPerson => u = v

LegacyAddressKept == \A u \in Legacy : users[u].email = LegacyAddress[u]

FallbackOwned == \A u \in UserIds, g \in People : users[u].email = Noreply(g) => users[u].github = g

InBrowser(b) ==
  /\ cookie[b] # Nothing => began[cookie[b]] = b /\ pc[cookie[b]] # "idle"
  /\ jar[b] # Nothing => began[jar[b]] = b /\ pc[jar[b]] # "idle" /\ account[jar[b]] # NoUser
  /\ request[b] # Nothing => account[request[b]] # NoUser

KeyOwned(k) == keys[k] # NoKey =>
  /\ keys[k].owner \in UserIds /\ keys[k].by \in People
  /\ users[keys[k].owner].github = keys[k].by

UsersInv ==
  /\ OnePerPerson
  /\ LegacyAddressKept
  /\ FallbackOwned
  /\ \A s \in SignIns : Unmade(s) /\ FromGithub(s) /\ OfAccount(s) /\ Won(s)
  /\ \A s \in SignIns, u \in Legacy : Claimed(s, u)
  /\ \A k \in Keys : KeyOwned(k)

IInv ==
  /\ TypeOK
  /\ \A s \in SignIns : Known(s) /\ Here(s)
  /\ \A b \in Browsers : InBrowser(b)
  /\ UsersInv
  /\ NeverDeadEnds

LEMMA InitIInv == Init => IInv
<1> SUFFICES ASSUME Init PROVE IInv
  OBVIOUS
<1>1. TypeOK
  BY SignInAssumption DEF Init, TypeOK, Pc, UserIds, Mail, NoRow, Addresses
<1>2. UsersInv
  <2>1. \A u \in UserIds : users[u].github = NoPerson
    BY DEF Init, NoRow
  <2>2. LegacyAddressKept
    BY DEF Init, LegacyAddressKept, UserIds
  <2>3. \A s \in SignIns : users[s] = NoRow
    BY SignInAssumption DEF Init, UserIds
  <2>4. FallbackOwned
    BY SignInAssumption DEF Init, FallbackOwned, NoRow
  <2>5. \A s \in SignIns, u \in Legacy : Claimed(s, u)
    BY <2>3 DEF Init, Claimed
  <2>6. \A s \in SignIns : pc[s] = "idle" /\ email[s] = NoEmail /\ account[s] = NoUser
    BY DEF Init
  <2>7. \A s \in SignIns : FromGithub(s)
    BY <2>6 DEF FromGithub
  <2>8. \A s \in SignIns : Unmade(s) /\ OfAccount(s) /\ Won(s)
    BY <2>3, <2>6 DEF Unmade, OfAccount, Won
  <2>9. OnePerPerson /\ \A k \in Keys : KeyOwned(k)
    BY <2>1 DEF Init, OnePerPerson, KeyOwned
  <2> QED BY <2>2, <2>4, <2>5, <2>7, <2>8, <2>9 DEF UsersInv
<1>3. NeverDeadEnds
  BY DEF Init, NeverDeadEnds
<1>4. \A s \in SignIns : Known(s) /\ Here(s)
  BY DEF Init, Known, Here, Statements, Signed
<1>5. \A b \in Browsers : InBrowser(b)
  BY DEF Init, InBrowser
<1> QED BY <1>1, <1>2, <1>3, <1>4, <1>5 DEF IInv
\* Every action leaves the types as they are.
LEMMA TypeStep == IInv /\ [Next]_vars => TypeOK'
<1> SUFFICES ASSUME IInv, [Next]_vars PROVE TypeOK'
  OBVIOUS
<1> USE DEF TypeOK, signInVars, keyVars
<1>0. TypeOK
  BY DEF IInv
<1>1. ASSUME NEW s \in SignIns, NEW b \in Browsers, Begin(s, b) PROVE TypeOK'
  BY <1>0, <1>1 DEF Begin, Goto, Pc
<1>2. ASSUME NEW s \in SignIns, NEW b \in Browsers, Callback(s, b) PROVE TypeOK'
  BY <1>0, <1>2 DEF Callback, Goto, Pc
<1>3. ASSUME NEW s \in SignIns, NEW b \in Browsers, Stray(s, b) PROVE TypeOK'
  BY <1>0, <1>3 DEF Stray, Clears
<1>4. ASSUME NEW s \in SignIns, NEW g \in People, Consent(s, g) PROVE TypeOK'
  BY <1>0, <1>4 DEF Consent, Goto, Pc
<1>5. ASSUME NEW s \in SignIns, Profile(s) PROVE TypeOK'
  <2>1. person[s] \in People
    BY <1>5 DEF IInv, Known, Profile
  <2>2. \A m \in Taken(person[s]) : Normalized(m) \in Addresses
    BY <2>1, SignInAssumption DEF Normalized, Addresses, Taken
  <2> QED BY <1>0, <1>5, <2>2 DEF Profile, Goto, Pc, Statements
<1>6. ASSUME NEW s \in SignIns, NoProfile(s) \/ QueryFails(s) PROVE TypeOK'
  BY <1>0, <1>6 DEF NoProfile, QueryFails, Fails, Clears, Goto, Pc
<1>7. ASSUME NEW s \in SignIns, NEW u \in UserIds, Found(s, u) PROVE
        /\ pc' \in [SignIns -> Pc]
        /\ account' \in [SignIns -> UserIds \cup {NoUser}]
        /\ cookie' \in [Browsers -> SignIns \cup {Nothing}]
  BY <1>0, <1>7 DEF Found, Fails, Clears, Goto, Pc, Statements
<1>8. ASSUME NEW s \in SignIns, ByGithub(s) \/ Raced(s) PROVE TypeOK'
  <2>1. CASE \E u \in OfPerson(person[s]) : Found(s, u)
    BY <1>0, <1>7, <1>8, <2>1 DEF ByGithub, Raced, OfPerson, NotUpsert
  <2>2. CASE OfPerson(person[s]) = {}
    BY <1>0, <1>8, <2>2 DEF ByGithub, Raced, AfterByGithub, Goto, Clears, Pc, Statements, NotUpsert
  <2> QED BY <1>8, <2>1, <2>2 DEF ByGithub, Raced
<1>9. ASSUME NEW s \in SignIns, Link(s) PROVE TypeOK'
  <2>1. person[s] \in People
    BY <1>9 DEF IInv, Known, Link
  <2>2. ASSUME NEW u \in Linkable(s), Found(s, u),
               users' = [users EXCEPT ![u] = [email |-> email[s], github |-> person[s]]]
        PROVE  TypeOK'
    <3>1. email[s] \in Mail
      BY <1>0, <1>9 DEF IInv, Known, Link, Mail
    <3>2. users' \in [UserIds -> {NoRow} \cup [email : Mail, github : People \cup {NoPerson}]]
      BY <1>0, <2>1, <2>2, <3>1
    <3>3. u \in UserIds
      BY <2>2 DEF Linkable
    <3> QED BY <1>0, <1>7, <1>9, <2>2, <3>2, <3>3 DEF Link, NotUpsert
  <2>3. CASE UNCHANGED users
    BY <1>0, <1>9, <2>3, <1>7 DEF Link, Linkable, Found, Fails, Clears, Goto, Pc, Statements, NotUpsert
  <2> QED BY <1>9, <2>2, <2>3 DEF Link
<1>10. ASSUME NEW s \in SignIns, NEW e \in Mail, person[s] \in People,
              NEW o \in {"insertFallback", "raced"}, Insert(s, e, o)
       PROVE  TypeOK'
  <2>1. s \in UserIds
    BY DEF UserIds
  <2>2. CASE ~Conflict(s, e)
    <3>1. users' \in [UserIds -> {NoRow} \cup [email : Mail, github : People \cup {NoPerson}]]
      BY <1>0, <1>10, <2>1, <2>2 DEF Insert
    <3> QED BY <1>0, <1>7, <1>10, <2>1, <2>2, <3>1 DEF Insert, NotUpsert
  <2>3. CASE Conflict(s, e)
    BY <1>0, <1>10, <2>3 DEF Insert, NotUpsert, Goto, Pc, Statements
  <2> QED BY <2>2, <2>3
<1>11. ASSUME NEW s \in SignIns, InsertEmail(s) PROVE TypeOK'
  <2>1. person[s] \in People /\ email[s] \in Mail
    BY <1>0, <1>11 DEF IInv, Known, InsertEmail, Mail
  <2> QED BY <1>10, <1>11, <2>1 DEF InsertEmail
<1>12. ASSUME NEW s \in SignIns, InsertFallback(s) PROVE TypeOK'
  <2>1. person[s] \in People /\ FallbackOf(person[s]) \in Mail
    BY <1>12 DEF IInv, Known, InsertFallback, Mail, FallbackOf
  <2> QED BY <1>10, <1>12, <2>1 DEF InsertFallback
<1>13. ASSUME NEW s \in SignIns, StoreSession(s) PROVE TypeOK'
  BY <1>0, <1>13 DEF StoreSession, Fails, Clears, Goto, Pc, Statements
<1>14. ASSUME NEW s \in SignIns, Stamp(s) PROVE TypeOK'
  BY <1>0, <1>14 DEF Stamp, Clears, Goto, Pc
<1>15. ASSUME NEW s \in SignIns, Expire(s) PROVE TypeOK'
  BY <1>0, <1>15 DEF Expire
<1>16. ASSUME NEW b \in Browsers, Ask(b) \/ Refuse(b) \/ LogOut(b) PROVE TypeOK'
  BY <1>0, <1>16 DEF Ask, Refuse, Served, LogOut
<1>17. ASSUME NEW b \in Browsers, NEW k \in Keys, CreateKey(b, k) PROVE TypeOK'
  <2>1. /\ request[b] \in SignIns
        /\ account[request[b]] \in UserIds
        /\ person[request[b]] \in People
    BY <1>0, <1>17 DEF IInv, InBrowser, Known, CreateKey
  <2> QED BY <1>0, <1>17, <2>1 DEF CreateKey, Served
<1>18. ASSUME NEW b \in Browsers, NEW k \in Keys, RevokeKey(b, k) PROVE TypeOK'
  <2>1. account[request[b]] \in UserIds
    BY <1>0, <1>18 DEF IInv, InBrowser, Known, RevokeKey
  <2>2. keys[k] \in [owner : UserIds, by : People, revoked : BOOLEAN]
    BY <1>0, <1>18, <2>1, SignInAssumption DEF RevokeKey, NoKey
  <2> QED BY <1>0, <1>18, <2>2 DEF RevokeKey, Served
<1>19. CASE UNCHANGED vars
  BY <1>0, <1>19 DEF vars
<1> QED
  BY <1>1, <1>2, <1>3, <1>4, <1>5, <1>6, <1>8, <1>9, <1>11, <1>12, <1>13, <1>14, <1>15,
     <1>16, <1>17, <1>18, <1>19
  DEF Next, SignIn, SignedIn
\* What the sign-ins know of themselves.
LEMMA KnownStep == IInv /\ [Next]_vars => \A t \in SignIns : Known(t)' /\ Here(t)'
<1> SUFFICES ASSUME IInv, [Next]_vars, NEW t \in SignIns PROVE Known(t)' /\ Here(t)'
  OBVIOUS
<1> USE DEF Known, Here, Signed, Statements, signInVars, keyVars
<1>0. TypeOK /\ (\A s \in SignIns : Known(s) /\ Here(s)) /\ (\A b \in Browsers : InBrowser(b))
  BY DEF IInv
<1> DEFINE Goal == Known(t)' /\ Here(t)'
<1>1. ASSUME NEW s \in SignIns, NEW b \in Browsers, Begin(s, b) PROVE Goal
  BY <1>0, <1>1 DEF Begin, Goto, TypeOK
<1>2. ASSUME NEW s \in SignIns, NEW b \in Browsers, Callback(s, b) PROVE Goal
  <2>1. began[s] = b
    BY <1>0, <1>2, SignInAssumption DEF Callback, StateMatches, InBrowser
  <2> QED BY <1>0, <1>2, <2>1 DEF Callback, Goto, TypeOK
<1>3. ASSUME NEW s \in SignIns, NEW b \in Browsers, Stray(s, b) PROVE Goal
  BY <1>0, <1>3 DEF Stray
<1>4. ASSUME NEW s \in SignIns, NEW g \in People, Consent(s, g) PROVE Goal
  BY <1>0, <1>4 DEF Consent, Goto, TypeOK
<1>5. ASSUME NEW s \in SignIns, Profile(s) PROVE Goal
  BY <1>0, <1>5 DEF Profile, Goto, TypeOK
<1>6. ASSUME NEW s \in SignIns, NoProfile(s) \/ QueryFails(s) PROVE Goal
  BY <1>0, <1>6 DEF NoProfile, QueryFails, Fails, Goto, TypeOK
<1>7. ASSUME NEW s \in SignIns, NEW u \in UserIds, Found(s, u), person[s] \in People,
             pc[s] \in Statements, UNCHANGED NotUpsert
      PROVE  Goal
  BY <1>0, <1>7, SignInAssumption DEF Found, Fails, Goto, TypeOK, NotUpsert
<1>8. ASSUME NEW s \in SignIns, ByGithub(s) \/ Raced(s) PROVE Goal
  <2>1. CASE \E u \in OfPerson(person[s]) : Found(s, u)
    BY <1>0, <1>7, <1>8, <2>1 DEF ByGithub, Raced, OfPerson
  <2>2. CASE OfPerson(person[s]) = {} /\ ByGithub(s)
    BY <1>0, <2>2 DEF ByGithub, AfterByGithub, Goto, TypeOK, NotUpsert
  <2>3. CASE OfPerson(person[s]) = {} /\ Raced(s)
    BY <1>0, <2>3 DEF Raced, Goto, TypeOK, NotUpsert
  <2> QED BY <1>8, <2>1, <2>2, <2>3 DEF ByGithub, Raced
<1>9. ASSUME NEW s \in SignIns, Link(s) PROVE Goal
  <2>1. CASE \E u \in Linkable(s) : Found(s, u)
    BY <1>0, <1>7, <1>9, <2>1 DEF Link, Linkable
  <2>2. CASE UNCHANGED account /\ (Fails(s, at[s]) \/ Goto(s, "insertEmail"))
    BY <1>0, <1>9, <2>2 DEF Link, Fails, Goto, TypeOK, NotUpsert
  <2> QED BY <1>9, <2>1, <2>2 DEF Link
<1>10. ASSUME NEW s \in SignIns, InsertEmail(s) \/ InsertFallback(s) PROVE Goal
  <2>1. s \in UserIds
    BY DEF UserIds
  <2>2. CASE Found(s, s)
    BY <1>0, <1>7, <1>10, <2>1, <2>2 DEF InsertEmail, InsertFallback, Insert
  <2>3. CASE UNCHANGED account /\ (Goto(s, "insertFallback") \/ Goto(s, "raced"))
    BY <1>0, <1>10, <2>3 DEF InsertEmail, InsertFallback, Insert, Goto, TypeOK, NotUpsert
  <2> QED BY <1>10, <2>2, <2>3 DEF InsertEmail, InsertFallback, Insert
<1>11. ASSUME NEW s \in SignIns, StoreSession(s) \/ Stamp(s) PROVE Goal
  BY <1>0, <1>11 DEF StoreSession, Stamp, Fails, Goto, TypeOK
<1>12. ASSUME NEW s \in SignIns, Expire(s) PROVE Goal
  BY <1>0, <1>12 DEF Expire
<1>13. ASSUME NEW b \in Browsers, Ask(b) \/ Refuse(b) \/ LogOut(b) PROVE Goal
  BY <1>0, <1>13 DEF Ask, Refuse, Served, LogOut
<1>14. ASSUME NEW b \in Browsers, NEW k \in Keys, CreateKey(b, k) \/ RevokeKey(b, k) PROVE Goal
  BY <1>0, <1>14 DEF CreateKey, RevokeKey, Served
<1>15. CASE UNCHANGED vars
  BY <1>0, <1>15 DEF vars
<1> QED
  BY <1>1, <1>2, <1>3, <1>4, <1>5, <1>6, <1>8, <1>9, <1>10, <1>11, <1>12, <1>13, <1>14, <1>15
  DEF Next, SignIn, SignedIn

\* What the browsers hold was begun in them.  A step that moves on a sign-in
\* which has begun, keeps its account and signs no one in, leaves that alone.
LEMMA BrowserStep == IInv /\ [Next]_vars => \A c \in Browsers : InBrowser(c)'
<1> SUFFICES ASSUME IInv, [Next]_vars, NEW c \in Browsers PROVE InBrowser(c)'
  OBVIOUS
<1> USE DEF InBrowser, signInVars, keyVars
<1>0. TypeOK /\ (\A s \in SignIns : Known(s) /\ Here(s)) /\ (\A b \in Browsers : InBrowser(b))
  BY DEF IInv
<1>1. ASSUME NEW s \in SignIns, NEW b \in Browsers, Begin(s, b) PROVE InBrowser(c)'
  BY <1>0, <1>1 DEF Begin, Goto, TypeOK, Known, Signed
<1>2. ASSUME NEW s \in SignIns, pc[s] # "idle", NEW o, o # "idle", Goto(s, o),
             UNCHANGED <<jar, request, began>>,
             UNCHANGED cookie \/ Clears(at[s]),
             UNCHANGED account \/ \E u \in UserIds : account' = [account EXCEPT ![s] = u]
      PROVE  InBrowser(c)'
  BY <1>0, <1>2, SignInAssumption DEF Goto, Clears, TypeOK
<1>3. ASSUME NEW s \in SignIns, NEW b \in Browsers, Callback(s, b) PROVE InBrowser(c)'
  BY <1>2, <1>3 DEF Callback
<1>4. ASSUME NEW s \in SignIns, NEW b \in Browsers, Stray(s, b) PROVE InBrowser(c)'
  BY <1>0, <1>4 DEF Stray, Clears, TypeOK
<1>5. ASSUME NEW s \in SignIns, NEW g \in People, Consent(s, g) PROVE InBrowser(c)'
  BY <1>2, <1>5 DEF Consent
<1>6. ASSUME NEW s \in SignIns, Profile(s) PROVE InBrowser(c)'
  BY <1>2, <1>6 DEF Profile
<1>7. ASSUME NEW s \in SignIns, NoProfile(s) \/ QueryFails(s) PROVE InBrowser(c)'
  BY <1>2, <1>7 DEF NoProfile, QueryFails, Fails, Statements
<1>8. ASSUME NEW s \in SignIns, pc[s] # "idle", NEW u \in UserIds, Found(s, u), UNCHANGED NotUpsert
      PROVE  InBrowser(c)'
  BY <1>2, <1>8 DEF Found, Fails, NotUpsert, keyVars
<1>9. ASSUME NEW s \in SignIns, ByGithub(s) \/ Raced(s) PROVE InBrowser(c)'
  <2>1. CASE \E u \in OfPerson(person[s]) : Found(s, u)
    BY <1>8, <1>9, <2>1 DEF ByGithub, Raced, OfPerson
  <2>2. CASE ByGithub(s) /\ Goto(s, AfterByGithub(s)) /\ UNCHANGED <<account, cookie>>
    BY <1>2, <2>2 DEF ByGithub, AfterByGithub, NotUpsert
  <2>3. CASE Raced(s) /\ Goto(s, "deadEnd") /\ Clears(at[s]) /\ UNCHANGED account
    BY <1>2, <2>3 DEF Raced, NotUpsert
  <2> QED BY <1>9, <2>1, <2>2, <2>3 DEF ByGithub, Raced
<1>10. ASSUME NEW s \in SignIns, Link(s) PROVE InBrowser(c)'
  <2>1. CASE \E u \in Linkable(s) : Found(s, u)
    BY <1>8, <1>10, <2>1 DEF Link, Linkable
  <2>2. CASE Fails(s, at[s]) /\ UNCHANGED account
    BY <1>2, <1>10, <2>2 DEF Link, Fails, NotUpsert
  <2>3. CASE Goto(s, "insertEmail") /\ UNCHANGED <<account, cookie>>
    BY <1>2, <1>10, <2>3 DEF Link, NotUpsert
  <2> QED BY <1>10, <2>1, <2>2, <2>3 DEF Link
<1>11. ASSUME NEW s \in SignIns, InsertEmail(s) \/ InsertFallback(s) PROVE InBrowser(c)'
  <2>1. CASE Found(s, s)
    BY <1>8, <1>11, <2>1 DEF InsertEmail, InsertFallback, Insert, UserIds
  <2>2. CASE UNCHANGED <<account, cookie>> /\ (Goto(s, "insertFallback") \/ Goto(s, "raced"))
    BY <1>2, <1>11, <2>2 DEF InsertEmail, InsertFallback, Insert, NotUpsert
  <2> QED BY <1>11, <2>1, <2>2 DEF InsertEmail, InsertFallback, Insert
<1>12. ASSUME NEW s \in SignIns, StoreSession(s) PROVE InBrowser(c)'
  BY <1>2, <1>12 DEF StoreSession, Fails
<1>13. ASSUME NEW s \in SignIns, Stamp(s) PROVE InBrowser(c)'
  <2>1. at[s] \in Browsers /\ began[s] = at[s] /\ account[s] # NoUser
    BY <1>0, <1>13 DEF Stamp, Here, Known, Signed, Statements
  <2> QED BY <1>0, <1>13, <2>1 DEF Stamp, Goto, Clears, TypeOK
<1>14. ASSUME NEW s \in SignIns, Expire(s) PROVE InBrowser(c)'
  BY <1>0, <1>14 DEF Expire
<1>15. ASSUME NEW b \in Browsers, Ask(b) PROVE InBrowser(c)'
  <2>1. account[jar[b]] # NoUser
    BY <1>0, <1>15 DEF Ask, Known, TypeOK
  <2> QED BY <1>0, <1>15, <2>1 DEF Ask, TypeOK
<1>16. ASSUME NEW b \in Browsers, Refuse(b) \/ LogOut(b) PROVE InBrowser(c)'
  BY <1>0, <1>16 DEF Refuse, Served, LogOut, TypeOK
<1>17. ASSUME NEW b \in Browsers, NEW k \in Keys, CreateKey(b, k) \/ RevokeKey(b, k) PROVE InBrowser(c)'
  BY <1>0, <1>17 DEF CreateKey, RevokeKey, Served, TypeOK
<1>18. CASE UNCHANGED vars
  BY <1>0, <1>18 DEF vars
<1> QED
  BY <1>1, <1>3, <1>4, <1>5, <1>6, <1>7, <1>9, <1>10, <1>11, <1>12, <1>13, <1>14, <1>15, <1>16,
     <1>17, <1>18
  DEF Next, SignIn, SignedIn
----------------------------------------------------------------------------
(* The rows of users.  Link and the inserts are the only statements that     *)
(* change one; either way row u, unowned so far, becomes the person's own.   *)

Takes(s, u, e) ==
  /\ u \in UserIds
  /\ person[s] \in People /\ OfPerson(person[s]) = {}
  /\ users[u].github = NoPerson
  /\ u \in Legacy => users[u].email = e
  /\ e \in Addresses \cup {Noreply(person[s])}
  /\ users' = [users EXCEPT ![u] = [email |-> e, github |-> person[s]]]

\* An owned row stays as it is.
Kept == \A v \in UserIds : users[v].github # NoPerson => users'[v] = users[v]

LEMMA RowsKept ==
  ASSUME IInv, NEW s \in SignIns, NEW u, NEW e, Takes(s, u, e)
  PROVE  Kept /\ OnePerPerson' /\ LegacyAddressKept' /\ FallbackOwned'
<1>0. users \in [UserIds -> {NoRow} \cup [email : Mail, github : People \cup {NoPerson}]]
  BY DEF IInv, TypeOK
<1>1. \A v \in UserIds : users'[v] = IF v = u THEN [email |-> e, github |-> person[s]] ELSE users[v]
  BY <1>0 DEF Takes
<1>2. Kept
  BY <1>1 DEF Takes, Kept
<1>3. OnePerPerson'
  BY <1>1 DEF Takes, OfPerson, IInv, UsersInv, OnePerPerson
<1>4. LegacyAddressKept'
  BY <1>1 DEF Takes, IInv, UsersInv, LegacyAddressKept, UserIds
<1>5. FallbackOwned'
  <2> SUFFICES ASSUME NEW v \in UserIds, NEW g \in People, users'[v].email = Noreply(g)
               PROVE  users'[v].github = g
    BY DEF FallbackOwned
  <2>1. CASE v = u
    <3>1. e = Noreply(g) /\ users'[v].github = person[s]
      BY <1>1, <2>1
    <3>2. Noreply(person[s]) = Noreply(g)
      BY <3>1, SignInAssumption DEF Takes
    <3>3. person[s] = g
      BY <3>2 DEF Noreply
    <3> QED BY <3>1, <3>3
  <2>2. CASE v # u
    BY <1>1, <2>2 DEF IInv, UsersInv, FallbackOwned
  <2> QED BY <2>1, <2>2
<1> QED BY <1>2, <1>3, <1>4, <1>5

LEMMA LinkTakes ==
  ASSUME IInv, NEW s \in SignIns, Link(s), users' # users
  PROVE  \E u \in UserIds : Takes(s, u, email[s]) /\ Found(s, u)
<1>1. email[s] \in Addresses /\ person[s] \in People
  BY DEF IInv, TypeOK, Known, Link
<1> QED BY <1>1 DEF Link, Linkable, Takes

LEMMA InsertTakes ==
  ASSUME IInv, NEW s \in SignIns, InsertEmail(s) \/ InsertFallback(s), users' # users
  PROVE  \E e \in Mail : Takes(s, s, e) /\ Found(s, s)
<1>1. /\ person[s] \in People
      /\ s \in UserIds /\ s \notin Legacy
      /\ users[s] = NoRow
  BY SignInAssumption
  DEF IInv, Known, UsersInv, Unmade, Early, InsertEmail, InsertFallback, UserIds
<1>2. users[s].github = NoPerson
  BY <1>1 DEF NoRow
<1>3. ASSUME NEW e \in Addresses \cup {Noreply(person[s])}, NEW o, Insert(s, e, o)
      PROVE  Takes(s, s, e) /\ Found(s, s)
  BY <1>1, <1>2, <1>3 DEF Insert, Takes, OfPerson, Conflict
<1>4. CASE InsertEmail(s)
  <2>1. email[s] \in Addresses
    BY <1>4 DEF IInv, TypeOK, Known, InsertEmail
  <2> QED BY <1>3, <1>4, <2>1 DEF InsertEmail, Mail
<1>5. CASE InsertFallback(s)
  BY <1>1, <1>3, <1>5 DEF InsertFallback, FallbackOf, Mail
<1> QED BY <1>4, <1>5

LEMMA RowsStep ==
  IInv /\ [Next]_vars => Kept /\ OnePerPerson' /\ LegacyAddressKept' /\ FallbackOwned'
<1> SUFFICES ASSUME IInv, [Next]_vars
             PROVE  Kept /\ OnePerPerson' /\ LegacyAddressKept' /\ FallbackOwned'
  OBVIOUS
<1>1. CASE UNCHANGED users
  BY <1>1 DEF Kept, IInv, UsersInv, OnePerPerson, LegacyAddressKept, FallbackOwned
<1>2. CASE users' # users
  <2>1. PICK s \in SignIns : Link(s) \/ InsertEmail(s) \/ InsertFallback(s)
    BY <1>2
    DEF Next, SignIn, SignedIn, Begin, Callback, Stray, Consent, Profile, NoProfile, ByGithub, Raced,
        StoreSession, Stamp, QueryFails, Expire, Ask, Refuse, LogOut, CreateKey, RevokeKey, Served, vars
  <2>2. \E u, e : Takes(s, u, e)
    BY <1>2, <2>1, LinkTakes, InsertTakes
  <2> QED BY <2>2, RowsKept
<1> QED BY <1>1, <1>2
----------------------------------------------------------------------------
(* The sign-ins against the rows *)

\* A step of s to o that tries no other statement and writes no row; only the
\* consent changes the person, and only the profile the address.
Quiet(s, o) ==
  /\ Goto(s, o) /\ o \notin {"insertEmail", "insertFallback", "raced"}
  /\ o \in Early => pc[s] \in Early
  /\ UNCHANGED <<users, account, keys>>
  /\ \A t \in SignIns : person'[t] = person[t] \/ (t = s /\ pc[s] = "github")
  /\ \A t \in SignIns : email'[t] = email[t] \/ (t = s /\ pc[s] = "exchange")
  /\ o \in Statements =>
       \/ pc[s] \in Statements
       \/ email'[s] = NoEmail \/ \E m \in Taken(person'[s]) : email'[s] = Normal[m]

\* Who is given an account is who owns its row, and the reason for the next
\* statement outlives the steps of others.
LEMMA UsersStep == IInv /\ [Next]_vars => UsersInv'
<1> SUFFICES ASSUME IInv, [Next]_vars PROVE UsersInv'
  OBVIOUS
<1> USE DEF signInVars, keyVars
<1> DEFINE Parts == /\ \A s \in SignIns : Unmade(s) /\ FromGithub(s) /\ OfAccount(s) /\ Won(s)
                    /\ \A s \in SignIns, u \in Legacy : Claimed(s, u)
                    /\ \A k \in Keys : KeyOwned(k)
<1> HIDE DEF Parts
<1>0. /\ TypeOK /\ TypeOK' /\ Parts
      /\ \A s \in SignIns : Known(s)
      /\ \A b \in Browsers : InBrowser(b)
      /\ \A u \in Legacy : users[u].email = LegacyAddress[u]
  BY TypeStep DEF IInv, UsersInv, LegacyAddressKept, Parts
<1>1. Kept /\ OnePerPerson' /\ LegacyAddressKept' /\ FallbackOwned'
  BY RowsStep
<1>2. ASSUME NEW s \in SignIns, NEW o, Quiet(s, o) PROVE Parts'
  <2>1. /\ \A t \in SignIns : t # s => pc'[t] = pc[t] /\ person'[t] = person[t] /\ email'[t] = email[t]
        /\ pc'[s] = o
    BY <1>0, <1>2 DEF Quiet, Goto, TypeOK
  <2>2. \A t \in SignIns : Unmade(t)'
    BY <1>0, <1>2, <2>1 DEF Quiet, Unmade, Parts
  <2>7. \A t \in SignIns : FromGithub(t)'
    <3>1. \A t \in SignIns : t # s => FromGithub(t)'
      BY <1>0, <1>2, <2>1 DEF Quiet, FromGithub, Parts
    <3>2. FromGithub(s)'
      <4> SUFFICES ASSUME o \in Statements \/ users[s] # NoRow
                   PROVE  email'[s] = NoEmail \/ \E m \in Taken(person'[s]) : email'[s] = Normal[m]
        BY <1>2, <2>1 DEF Quiet, FromGithub
      <4>1. CASE o \in Statements /\ pc[s] \notin Statements
        BY <1>2, <4>1 DEF Quiet
      <4>2. CASE pc[s] \in Statements \/ users[s] # NoRow
        <5>1. pc[s] \notin {"github", "exchange"}
          BY <1>0, <4>2 DEF Unmade, Early, Statements, Parts
        <5>2. person'[s] = person[s] /\ email'[s] = email[s]
          BY <1>2, <5>1 DEF Quiet
        <5> QED BY <1>0, <4>2, <5>2 DEF FromGithub, Parts
      <4> QED BY <4>1, <4>2
    <3> QED BY <3>1, <3>2
  <2>3. \A t \in SignIns : OfAccount(t)'
    BY <1>0, <1>2, <2>1 DEF Quiet, OfAccount, Known, Signed, Parts
  <2>4. \A t \in SignIns : Won(t)'
    BY <1>0, <1>2, <2>1 DEF Quiet, Won, OfPerson, Known, Parts
  <2>5. \A t \in SignIns, u \in Legacy : Claimed(t, u)'
    BY <1>0, <1>2, <2>1 DEF Quiet, Claimed, Unmade, Early, Parts
  <2>6. \A k \in Keys : KeyOwned(k)'
    BY <1>0, <1>2 DEF Quiet, KeyOwned, Parts
  <2> QED BY <2>2, <2>3, <2>4, <2>5, <2>6, <2>7 DEF Parts
\* A statement has found or made row u for the person.
<1>3. ASSUME NEW s \in SignIns, NEW u \in UserIds, Found(s, u), users'[u].github = person[s],
             pc[s] \in Statements, person[s] \in People, UNCHANGED NotUpsert,
             \A v \in UserIds : v # u => users'[v] = users[v],
             \/ users[u] # NoRow
             \/ u = s /\ pc[s] \in {"insertEmail", "insertFallback"}
      PROVE  Parts'
  <2>1. /\ UNCHANGED <<person, email, keys>>
        /\ \A t \in SignIns : t # s => pc'[t] = pc[t] /\ account'[t] = account[t]
        /\ pc'[s] \in {"session", "failed"}
        /\ account'[s] = account[s] \/ account'[s] = u
    BY <1>0, <1>3 DEF Found, Fails, Goto, TypeOK, NotUpsert
  <2>2. ASSUME NEW v \in UserIds, users[v].github # NoPerson PROVE users'[v] = users[v]
    BY <1>1, <2>2 DEF Kept
  <2>3. \A t \in SignIns : Unmade(t)'
    BY <1>0, <1>3, <2>1 DEF Unmade, Early, UserIds, Parts
  <2>8. \A t \in SignIns : FromGithub(t)'
    <3> SUFFICES ASSUME NEW t \in SignIns, pc'[t] \in Statements \/ users'[t] # NoRow
                 PROVE  pc[t] \in Statements \/ users[t] # NoRow
      BY <1>0, <2>1 DEF FromGithub, Parts
    <3> QED BY <1>3, <2>1 DEF UserIds
  <2>4. \A t \in SignIns : OfAccount(t)'
    <3> SUFFICES ASSUME NEW t \in SignIns, account'[t] # NoUser
                 PROVE  users'[account'[t]].github = person[t]
      BY <2>1 DEF OfAccount
    <3>1. CASE account'[t] = account[t]
      <4>1. account[t] \in UserIds /\ users[account[t]].github = person[t] /\ person[t] \in People
        BY <1>0, <3>1 DEF OfAccount, Known, TypeOK, Parts
      <4> QED BY <2>2, <3>1, <4>1, SignInAssumption
    <3>2. CASE t = s /\ account'[s] = u
      BY <1>3, <3>2
    <3> QED BY <2>1, <3>1, <3>2
  <2>5. \A t \in SignIns : Won(t)'
    <3> SUFFICES ASSUME NEW t \in SignIns, pc'[t] = "raced"
                 PROVE  \E v \in UserIds : users'[v].github = person[t]
      BY <2>1 DEF Won, OfPerson
    <3>1. pc[t] = "raced"
      BY <2>1
    <3>2. PICK v \in UserIds : users[v].github = person[t]
      BY <1>0, <3>1 DEF Won, OfPerson, Parts
    <3>3. person[t] \in People
      BY <1>0, <3>1 DEF Known
    <3> QED BY <2>2, <3>2, <3>3, SignInAssumption
  <2>6. \A t \in SignIns, v \in Legacy : Claimed(t, v)'
    <3> SUFFICES ASSUME NEW t \in SignIns, NEW v \in Legacy, email[t] = LegacyAddress[v],
                        users'[t] # NoRow \/ pc'[t] \in {"insertEmail", "insertFallback"}
                 PROVE  users'[v].github # NoPerson
      BY <2>1 DEF Claimed
    <3>1. users[t] # NoRow \/ pc[t] \in {"insertEmail", "insertFallback"}
      BY <1>3, <2>1 DEF UserIds
    <3>2. users[v].github # NoPerson
      BY <1>0, <3>1 DEF Claimed, Parts
    <3> QED BY <2>2, <3>2 DEF UserIds
  <2>7. \A k \in Keys : KeyOwned(k)'
    <3> SUFFICES ASSUME NEW k \in Keys, keys[k] # NoKey
                 PROVE  KeyOwned(k)'
      BY <2>1 DEF KeyOwned
    <3>1. keys[k].owner \in UserIds /\ keys[k].by \in People /\ users[keys[k].owner].github = keys[k].by
      BY <1>0 DEF KeyOwned, Parts
    <3>2. users'[keys[k].owner] = users[keys[k].owner]
      BY <2>2, <3>1, SignInAssumption
    <3> QED BY <2>1, <3>1, <3>2 DEF KeyOwned
  <2> QED BY <2>3, <2>4, <2>5, <2>6, <2>7, <2>8 DEF Parts
\* A statement has found nothing, and the next is tried for a reason.
<1>4. ASSUME NEW s \in SignIns, NEW o \in {"insertEmail", "insertFallback", "raced"}, Goto(s, o),
             pc[s] \in Early \cap Statements, UNCHANGED <<users, account, keys, person, email>>,
             o \in {"insertEmail", "insertFallback"} =>
               \A u \in Legacy : email[s] = LegacyAddress[u] => users[u].github # NoPerson,
             o = "raced" => OfPerson(person[s]) # {}
      PROVE  Parts'
  <2>1. pc'[s] = o /\ \A t \in SignIns : t # s => pc'[t] = pc[t]
    BY <1>0, <1>4 DEF Goto, TypeOK
  <2>2. \A t \in SignIns : Unmade(t)'
    BY <1>0, <1>4, <2>1 DEF Unmade, Parts
  <2>7. \A t \in SignIns : FromGithub(t)'
    BY <1>0, <1>4, <2>1 DEF FromGithub, Parts
  <2>3. \A t \in SignIns : OfAccount(t)'
    BY <1>0, <1>4 DEF OfAccount, Parts
  <2>4. \A t \in SignIns : Won(t)'
    BY <1>0, <1>4, <2>1 DEF Won, OfPerson, Parts
  <2>5. \A t \in SignIns, u \in Legacy : Claimed(t, u)'
    BY <1>0, <1>4, <2>1 DEF Claimed, Parts
  <2>6. \A k \in Keys : KeyOwned(k)'
    BY <1>0, <1>4 DEF KeyOwned, Parts
  <2> QED BY <2>2, <2>3, <2>4, <2>5, <2>6, <2>7 DEF Parts
\* Nothing of all this changes.
<1>5. ASSUME UNCHANGED <<pc, person, email, account, users, keys>> PROVE Parts'
  BY <1>0, <1>5 DEF Unmade, FromGithub, OfAccount, Won, OfPerson, Claimed, KeyOwned, Parts
<1>6. ASSUME NEW s \in SignIns, NEW b \in Browsers, Begin(s, b) \/ Callback(s, b) \/ Stray(s, b)
      PROVE  Parts'
  <2>1. ASSUME Begin(s, b) PROVE Quiet(s, "github")
    BY <1>0, <2>1 DEF Begin, Early, Quiet, Statements
  <2>2. ASSUME Callback(s, b) PROVE Quiet(s, "exchange")
    BY <1>0, <2>2 DEF Callback, Early, Quiet, Statements
  <2>3. CASE Stray(s, b)
    BY <1>5, <2>3 DEF Stray
  <2> QED BY <1>2, <1>6, <2>1, <2>2, <2>3
<1>7. ASSUME NEW s \in SignIns, NEW g \in People, Consent(s, g) PROVE Parts'
  <2>1. Quiet(s, "consented")
    BY <1>0, <1>7 DEF Consent, Early, Quiet, Statements, TypeOK
  <2> QED BY <1>2, <2>1
<1>8. ASSUME NEW s \in SignIns,
             Profile(s) \/ NoProfile(s) \/ QueryFails(s) \/ StoreSession(s) \/ Stamp(s)
      PROVE  Parts'
  <2>1. ASSUME Profile(s) PROVE Quiet(s, "byGithub")
    BY <1>0, <2>1 DEF Profile, Normalized, Early, Quiet, Statements, TypeOK
  <2>2. ASSUME NoProfile(s) \/ QueryFails(s) PROVE Quiet(s, "failed")
    BY <1>0, <2>2 DEF NoProfile, QueryFails, Fails, Early, Quiet, Statements
  <2>3. ASSUME StoreSession(s) \/ Stamp(s) PROVE \E o \in {"stamp", "failed", "done"} : Quiet(s, o)
    BY <1>0, <2>3 DEF StoreSession, Stamp, Fails, Early, Quiet, Statements
  <2> QED BY <1>2, <1>8, <2>1, <2>2, <2>3
<1>9. ASSUME NEW s \in SignIns, ByGithub(s) \/ Raced(s) PROVE Parts'
  <2>1. CASE \E u \in OfPerson(person[s]) : Found(s, u)
    <3>1. person[s] \in People /\ UNCHANGED <<NotUpsert, users>> /\ pc[s] \in Statements
      BY <1>0, <1>9 DEF Known, ByGithub, Raced, Statements
    <3>2. PICK u \in UserIds : Found(s, u) /\ users[u].github = person[s]
      BY <2>1 DEF OfPerson
    <3>3. users[u] # NoRow
      BY <3>1, <3>2, SignInAssumption DEF NoRow
    <3> QED BY <1>3, <3>1, <3>2, <3>3
  <2>2. CASE ByGithub(s) /\ Goto(s, AfterByGithub(s)) /\ UNCHANGED account
    <3>1. \A u \in Legacy : LegacyAddress[u] # NoEmail
      BY SignInAssumption DEF Addresses
    <3>2. CASE email[s] = NoEmail
      BY <1>4, <2>2, <3>1, <3>2 DEF ByGithub, AfterByGithub, NotUpsert, Early, Statements
    <3>3. CASE email[s] # NoEmail
      <4>1. Quiet(s, "link")
        BY <1>0, <2>2, <3>3 DEF ByGithub, AfterByGithub, NotUpsert, Early, Quiet, Statements
      <4> QED BY <1>2, <4>1
    <3> QED BY <3>2, <3>3
  <2>3. CASE Raced(s) /\ Goto(s, "deadEnd") /\ UNCHANGED account
    <3>1. Quiet(s, "deadEnd")
      BY <1>0, <2>3 DEF Raced, NotUpsert, Early, Quiet, Statements
    <3> QED BY <1>2, <3>1
  <2> QED BY <1>9, <2>1, <2>2, <2>3 DEF ByGithub, Raced
<1>10. ASSUME NEW s \in SignIns, Link(s) PROVE Parts'
  <2>1. CASE users' # users
    <3>1. PICK u \in UserIds : Takes(s, u, email[s]) /\ Found(s, u)
      BY <1>10, <2>1, LinkTakes
    <3>2. /\ users'[u].github = person[s]
          /\ \A v \in UserIds : v # u => users'[v] = users[v]
      BY <1>0, <3>1 DEF Takes, TypeOK
    <3>3. person[s] \in People /\ email[s] # NoEmail /\ UNCHANGED NotUpsert /\ pc[s] \in Statements
      BY <1>0, <1>10 DEF Known, Link, Statements
    <3>4. users[u] # NoRow
      <4>1. PICK w \in Linkable(s) : users' = [users EXCEPT ![w] = [email |-> email[s], github |-> person[s]]]
        BY <1>10, <2>1 DEF Link
      <4>2. w = u
        BY <1>0, <3>1, <3>2, <3>3, <4>1, SignInAssumption DEF Takes, Linkable, TypeOK, OfPerson
      <4> QED BY <3>3, <4>1, <4>2 DEF Linkable, NoRow
    <3> QED BY <1>3, <3>1, <3>2, <3>3, <3>4
  <2>2. CASE Fails(s, at[s]) /\ UNCHANGED <<users, account>>
    <3>1. Quiet(s, "failed")
      BY <1>0, <1>10, <2>2 DEF Link, Fails, NotUpsert, Early, Quiet, Statements
    <3> QED BY <1>2, <3>1
  <2>3. CASE Linkable(s) = {} /\ Goto(s, "insertEmail") /\ UNCHANGED <<users, account>>
    BY <1>0, <1>4, <1>10, <2>3 DEF Link, Linkable, NotUpsert, Early, Statements, UserIds
  <2>4. ASSUME NEW u \in Linkable(s), users' = [users EXCEPT ![u] = [email |-> email[s], github |-> person[s]]]
        PROVE  users' # users
    BY <1>0, <1>10, <2>4, SignInAssumption DEF Linkable, TypeOK, Known, Link
  <2> QED BY <1>10, <2>1, <2>2, <2>3, <2>4 DEF Link
<1>11. ASSUME NEW s \in SignIns, InsertEmail(s) \/ InsertFallback(s) PROVE Parts'
  <2>0. person[s] \in People /\ UNCHANGED NotUpsert /\ s \in UserIds
    BY <1>0, <1>11 DEF Known, InsertEmail, InsertFallback, Insert, UserIds
  <2>1. CASE users' # users
    <3>1. PICK e \in Mail : Takes(s, s, e) /\ Found(s, s)
      BY <1>11, <2>1, InsertTakes
    <3>2. /\ users'[s].github = person[s]
          /\ \A v \in UserIds : v # s => users'[v] = users[v]
      BY <1>0, <3>1 DEF Takes, TypeOK
    <3> QED BY <1>3, <1>11, <2>0, <3>1, <3>2 DEF InsertEmail, InsertFallback, Statements
  <2>2. CASE users' = users
    <3>1. users[s] = NoRow
      BY <1>0, <1>11 DEF Unmade, Early, InsertEmail, InsertFallback, Parts
    <3>2. ASSUME NEW e, NEW o, Insert(s, e, o)
          PROVE  Conflict(s, e) /\ Goto(s, o) /\ UNCHANGED account
      <4> SUFFICES ASSUME ~Conflict(s, e),
                          users' = [users EXCEPT ![s] = [email |-> e, github |-> person[s]]]
                   PROVE  FALSE
        BY <3>2 DEF Insert
      <4>1. users'[s].github = person[s]
        BY <1>0, <2>0 DEF TypeOK
      <4> QED BY <2>0, <2>2, <3>1, <4>1, SignInAssumption DEF NoRow
    <3>3. CASE InsertEmail(s)
      <4>1. Goto(s, "insertFallback") /\ UNCHANGED account
        BY <3>2, <3>3 DEF InsertEmail
      <4> QED BY <1>0, <1>4, <2>0, <2>2, <3>3, <4>1 DEF InsertEmail, Claimed, NotUpsert, Early, Statements, Parts
    <3>4. CASE InsertFallback(s)
      <4>1. Conflict(s, Noreply(person[s])) /\ Goto(s, "raced") /\ UNCHANGED account
        BY <3>2, <3>4 DEF InsertFallback, FallbackOf
      <4>2. OfPerson(person[s]) # {}
        BY <2>0, <4>1 DEF Conflict, OfPerson, IInv, UsersInv, FallbackOwned
      <4> QED BY <1>4, <2>0, <2>2, <3>4, <4>1, <4>2 DEF InsertFallback, NotUpsert, Early, Statements
    <3> QED BY <1>11, <3>3, <3>4
  <2> QED BY <2>1, <2>2
<1>12. ASSUME NEW s \in SignIns, Expire(s) PROVE Parts'
  BY <1>5, <1>12 DEF Expire
<1>13. ASSUME NEW b \in Browsers, Ask(b) \/ Refuse(b) \/ LogOut(b) PROVE Parts'
  BY <1>5, <1>13 DEF Ask, Refuse, Served, LogOut
<1>14. ASSUME NEW b \in Browsers, NEW k \in Keys, CreateKey(b, k) \/ RevokeKey(b, k) PROVE Parts'
  <2>1. UNCHANGED <<pc, person, email, account, users>>
    BY <1>14 DEF CreateKey, RevokeKey, Served
  <2>2. request[b] \in SignIns /\ account[request[b]] # NoUser
    BY <1>0, <1>14 DEF InBrowser, CreateKey, RevokeKey, TypeOK
  <2>3. /\ account[request[b]] \in UserIds /\ person[request[b]] \in People
        /\ users[account[request[b]]].github = person[request[b]]
    BY <1>0, <2>2 DEF TypeOK, OfAccount, Known, Parts
  <2>4. \A j \in Keys : KeyOwned(j)'
    <3>1. CASE CreateKey(b, k)
      BY <1>0, <2>1, <2>3, <3>1 DEF KeyOwned, CreateKey, TypeOK, Parts
    <3>2. CASE RevokeKey(b, k)
      <4>1. keys[k] # NoKey
        BY <2>3, <3>2, SignInAssumption DEF RevokeKey, NoKey
      <4>2. keys[k] \in [owner : UserIds, by : People, revoked : BOOLEAN]
        BY <1>0, <4>1 DEF TypeOK
      <4>3. /\ keys'[k].owner = keys[k].owner /\ keys'[k].by = keys[k].by
            /\ \A j \in Keys : j # k => keys'[j] = keys[j]
        BY <1>0, <3>2, <4>2 DEF RevokeKey, TypeOK
      <4> QED BY <1>0, <2>1, <4>1, <4>3 DEF KeyOwned, Parts
    <3> QED BY <1>14, <3>1, <3>2
  <2> QED BY <1>0, <2>1, <2>4 DEF Unmade, FromGithub, OfAccount, Won, OfPerson, Claimed, Parts
<1>15. ASSUME UNCHANGED vars PROVE Parts'
  BY <1>5, <1>15 DEF vars
<1>16. Parts'
  BY <1>6, <1>7, <1>8, <1>9, <1>10, <1>11, <1>12, <1>13, <1>14, <1>15 DEF Next, SignIn, SignedIn
<1> QED BY <1>1, <1>16 DEF UsersInv, Parts

LEMMA DeadEndStep == IInv /\ [Next]_vars => NeverDeadEnds'
<1> SUFFICES ASSUME IInv, [Next]_vars, NEW t \in SignIns, pc'[t] = "deadEnd" PROVE FALSE
  BY DEF NeverDeadEnds
<1>1. pc \in [SignIns -> Pc] /\ pc[t] # "deadEnd"
  BY DEF IInv, TypeOK, NeverDeadEnds
<1>2. PICK s \in SignIns : Raced(s) /\ Goto(s, "deadEnd") /\ OfPerson(person[s]) = {}
  BY <1>1
  DEF Next, SignIn, SignedIn, Begin, Callback, Stray, Consent, Profile, NoProfile, ByGithub, Raced,
      Link, InsertEmail, InsertFallback, Insert, Found, Fails, AfterByGithub, Goto,
      StoreSession, Stamp, QueryFails, Expire, Ask, Refuse, LogOut, CreateKey, RevokeKey, Served,
      vars, signInVars
<1> QED BY <1>2 DEF IInv, UsersInv, Won, Raced

----------------------------------------------------------------------------
(* The theorems *)

\* The inductive invariant of sign-in: what each of them relies on across its awaits.
THEOREM Invariance == Spec => []IInv
<1>1. IInv /\ [Next]_vars => IInv'
  BY TypeStep, KnownStep, BrowserStep, UsersStep, DeadEndStep DEF IInv
<1> QED BY InitIInv, <1>1, PTL DEF Spec

\* The state of sign-in is type correct, and no row lacks its normalised
\* address, in every reachable state.
THEOREM TypeCorrect == Spec => []TypeOK
<1>1. IInv => TypeOK
  BY DEF IInv
<1> QED BY Invariance, <1>1, PTL

\* Accounts, keys and browsers belong to the GitHub account that consented.
THEOREM AccountsBelong == Spec => []Belongs
<1>1. IInv => Belongs
  BY DEF IInv, UsersInv, OnePerPerson, OfAccount, KeyOwned, InBrowser, Belongs
<1> QED BY Invariance, <1>1, PTL

\* No new account is made beside an unclaimed old one whose address the GitHub account
\* has verified, unless the callback got no address or took another verified one.
THEOREM OldAccountsLinked == Spec => []LegacyLinked
<1>1. IInv => LegacyLinked
  <2> SUFFICES ASSUME IInv, NEW s \in SignIns, NEW u \in Legacy, users[s] # NoRow,
                      email[s] # NoEmail,
                      ~ \E m \in Taken(person[s]) : email[s] = Normal[m] /\ Normal[m] # LegacyAddress[u]
               PROVE  users[u].github # NoPerson
    BY DEF LegacyLinked
  <2>1. PICK m \in Taken(person[s]) : email[s] = Normal[m]
    BY DEF IInv, UsersInv, FromGithub
  <2>2. email[s] = LegacyAddress[u]
    BY <2>1
  <2> QED BY <2>2 DEF IInv, UsersInv, Claimed
<1> QED BY Invariance, <1>1, PTL

\* The upsert's last error is unreachable.
THEOREM NoDeadEnd == Spec => []NeverDeadEnds
<1>1. IInv => NeverDeadEnds
  BY DEF IInv
<1> QED BY Invariance, <1>1, PTL
=============================================================================
