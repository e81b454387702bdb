---------------------------- MODULE AccountSignIn ----------------------------
(***************************************************************************)
(* apps/api, auth.ts and api-keys.ts: signing in with GitHub.  Each query  *)
(* of a callback is one step; callbacks of several browsers interleave,    *)
(* and any query may throw.  The unique indexes of `users` are part of the *)
(* statements.  A sign-in s also names the session token and the users row *)
(* it may create: each is made at most once by it.                         *)
(***************************************************************************)
CONSTANTS
  SignIns,    \* uses of /auth/github
  Browsers,
  People,     \* GitHub accounts, by their numeric id
  Legacy,     \* accounts of the old email sign-in
  Keys,       \* API keys, each minted at most once
  Spellings,  \* e-mail addresses as GitHub spells them; the normal form is one
  Normal,     \* trim and toLowerCase
  LegacyAddress, \* the normalised address of each legacy account
  Verified,   \* the addresses each GitHub account has verified
  Primary,    \* the primary address of each GitHub account, verified or not
  NoPerson, NoEmail, NoUser, Nothing

Addresses == {Normal[m] : m \in Spellings}
UserIds == Legacy \cup SignIns
Noreply(g) == <<g, "users.noreply.github.com">>

ASSUME SignInAssumption ==
  /\ Normal \in [Spellings -> Spellings]
  /\ \A m \in Spellings : Normal[Normal[m]] = Normal[m]
  /\ LegacyAddress \in [Legacy -> Addresses]
  /\ \A u, v \in Legacy : LegacyAddress[u] = LegacyAddress[v] => u = v
  /\ Verified \in [People -> SUBSET Spellings]
  /\ Primary \in [People -> Spellings]
  /\ Legacy \cap SignIns = {}
  /\ NoPerson \notin People /\ NoUser \notin UserIds /\ Nothing \notin SignIns \cup Browsers
  /\ \A g \in People : Noreply(g) \notin Addresses
  /\ NoEmail \notin Spellings
  /\ \A g \in People : NoEmail # Noreply(g)

VARIABLES
  pc,        \* where each sign-in is
  at,        \* the browser whose callback is being handled
  person,    \* the GitHub account that gave its consent
  email,     \* normalizedEmail
  account,   \* the user id upsertGithubUser returned
  users,     \* the users table
  sessions,  \* the tokens the sessions table holds and has not let expire
  cookie,    \* each browser's state cookie
  jar,       \* each browser's session cookie
  request,   \* the session by which a request of each browser about keys was let in
  keys,      \* the api_keys table
  began      \* history: the browser each sign-in began in

signInVars == <<pc, at, person, email, account, began>>
keyVars == <<request, keys>>
vars == <<signInVars, users, sessions, cookie, jar, keyVars>>

NoRow == [email |-> NoEmail, github |-> NoPerson]
NoKey == [owner |-> NoUser, by |-> NoPerson, revoked |-> FALSE]

Statements == {"byGithub", "link", "insertEmail", "insertFallback", "raced", "session", "stamp"}
Pc == {"idle", "github", "consented", "exchange", "done", "failed", "deadEnd"} \cup Statements

Goto(s, state) == pc' = [pc EXCEPT ![s] = state]

----------------------------------------------------------------------------
(* The browser, GitHub and the callback up to the profile *)

\* GET /auth/github: the state goes into the cookie and to GitHub.
Begin(s, b) ==
  /\ pc[s] = "idle"
  /\ cookie' = [cookie EXCEPT ![b] = s]
  /\ began' = [began EXCEPT ![s] = b]
  /\ Goto(s, "github")
  /\ UNCHANGED <<at, person, email, account, users, sessions, jar, keyVars>>

Consent(s, g) ==
  /\ pc[s] = "github"
  /\ person' = [person EXCEPT ![s] = g]
  /\ Goto(s, "consented")
  /\ UNCHANGED <<began, at, email, account, users, sessions, cookie, jar, keyVars>>

\* Mutant: any browser's callback will do.
StateMatches_Any(s, b) == TRUE

\* checkOauthState
StateMatches(s, b) == cookie[b] = s

\* The answer to a callback clears the browser's state cookie, whichever
\* sign-in has put it there by then.
Clears(b) == cookie' = [cookie EXCEPT ![b] = Nothing]

Fails(s, b) == Goto(s, "failed") /\ Clears(b)

Callback(s, b) ==
  /\ pc[s] = "consented"
  /\ StateMatches(s, b)
  /\ at' = [at EXCEPT ![s] = b]
  /\ Goto(s, "exchange")
  /\ UNCHANGED <<began, person, email, account, users, sessions, cookie, jar, keyVars>>

\* GitHub's redirect reaches a browser that holds another state, or none; the
\* right one may still get it.
Stray(s, b) ==
  /\ pc[s] = "consented"
  /\ ~StateMatches(s, b)
  /\ Clears(b)
  /\ UNCHANGED <<signInVars, users, sessions, jar, keyVars>>

\* Mutant: the address is taken as GitHub spells it.
Normalized_AsIs(m) == m

Normalized(m) == Normal[m]

\* The one address the callback takes: the primary one when it is verified, or else
\* whichever verified one /user/emails lists first.
Taken(g) == IF Primary[g] \in Verified[g] THEN {Primary[g]} ELSE Verified[g]

\* It is normalised by the upsert; there is none when the account has verified none,
\* and when the request for them fails, which is taken for an empty list.
Profile(s) ==
  /\ pc[s] = "exchange"
  /\ \E e \in {Normalized(m) : m \in Taken(person[s])} \cup {NoEmail} :
       email' = [email EXCEPT ![s] = e]
  /\ Goto(s, "byGithub")
  /\ UNCHANGED <<began, at, person, account, users, sessions, cookie, jar, keyVars>>

NoProfile(s) ==
  /\ pc[s] = "exchange"
  /\ Fails(s, at[s])
  /\ UNCHANGED <<began, at, person, email, account, users, sessions, jar, keyVars>>

----------------------------------------------------------------------------
(* upsertGithubUser *)

OfPerson(g) == {u \in UserIds : users[u].github = g}

NotUpsert == <<began, at, person, email, sessions, jar, keyVars>>

\* The account is u: on to createSession, unless the statement's answer is lost.
Found(s, u) ==
  \/ account' = [account EXCEPT ![s] = u] /\ Goto(s, "session") /\ UNCHANGED cookie
  \/ Fails(s, at[s]) /\ UNCHANGED account

\* Mutant: the address is inserted without looking for the old account.
AfterByGithub_NoLink(s) == IF email[s] = NoEmail THEN "insertFallback" ELSE "insertEmail"

AfterByGithub(s) == IF email[s] = NoEmail THEN "insertFallback" ELSE "link"

ByGithub(s) ==
  /\ pc[s] = "byGithub"
  /\ \/ \E u \in OfPerson(person[s]) : Found(s, u)
     \/ /\ OfPerson(person[s]) = {}
        /\ Goto(s, AfterByGithub(s))
        /\ UNCHANGED <<account, cookie>>
  /\ UNCHANGED <<NotUpsert, users>>

\* Mutant: whoever holds the address is linked.
Linkable_Taken(s) == {u \in UserIds : users[u].email = email[s]}

Linkable(s) == {u \in UserIds : users[u].email = email[s] /\ users[u].github = NoPerson}

\* github_id is unique: linking throws when the person has got a row meanwhile.
Link(s) ==
  /\ pc[s] = "link"
  /\ \/ \E u \in Linkable(s) :
          \/ /\ OfPerson(person[s]) = {}
             /\ users' = [users EXCEPT ![u] = [email |-> email[s], github |-> person[s]]]
             /\ Found(s, u)
          \/ OfPerson(person[s]) # {} /\ Fails(s, at[s]) /\ UNCHANGED <<users, account>>
     \/ Linkable(s) = {} /\ Goto(s, "insertEmail") /\ UNCHANGED <<users, account, cookie>>
  /\ UNCHANGED NotUpsert

\* Mutant: the name GitHub gives an account without an address is one for all.
FallbackOf_OneForAll(g) == Noreply("anyone")

FallbackOf(g) == Noreply(g)

Conflict(s, e) ==
  \E u \in UserIds : users[u].github = person[s] \/ users[u].email = e

\* INSERT ... ON CONFLICT DO NOTHING, with both unique indexes.
Insert(s, e, otherwise) ==
  /\ \/ /\ ~Conflict(s, e)
        /\ users' = [users EXCEPT ![s] = [email |-> e, github |-> person[s]]]
        /\ Found(s, s)
     \/ Conflict(s, e) /\ Goto(s, otherwise) /\ UNCHANGED <<users, account, cookie>>
  /\ UNCHANGED NotUpsert

InsertEmail(s) == pc[s] = "insertEmail" /\ Insert(s, email[s], "insertFallback")
InsertFallback(s) == pc[s] = "insertFallback" /\ Insert(s, FallbackOf(person[s]), "raced")

\* Another sign-in of the same GitHub account must have made the row.
Raced(s) ==
  /\ pc[s] = "raced"
  /\ \/ \E u \in OfPerson(person[s]) : Found(s, u)
     \/ OfPerson(person[s]) = {} /\ Goto(s, "deadEnd") /\ Clears(at[s]) /\ UNCHANGED account
  /\ UNCHANGED <<NotUpsert, users>>

----------------------------------------------------------------------------
(* createSession, the answer, and the sessions table *)

StoreSession(s) ==
  /\ pc[s] = "session"
  /\ sessions' = sessions \cup {s}
  /\ \/ Goto(s, "stamp") /\ UNCHANGED cookie
     \/ Fails(s, at[s])
  /\ UNCHANGED <<began, at, person, email, account, users, jar, keyVars>>

\* last_sign_in_at, then the answer with the session cookie.
Stamp(s) ==
  /\ pc[s] = "stamp"
  /\ jar' = [jar EXCEPT ![at[s]] = s]
  /\ Goto(s, "done") /\ Clears(at[s])
  /\ UNCHANGED <<began, at, person, email, account, users, sessions, keyVars>>

\* A statement throws before it has had any effect.
QueryFails(s) ==
  /\ pc[s] \in Statements
  /\ Fails(s, at[s])
  /\ UNCHANGED <<began, at, person, email, account, users, sessions, jar, keyVars>>

\* destroySession; the cookie is cleared with the answer.
LogOut(b) ==
  /\ jar[b] # Nothing
  /\ sessions' = sessions \ {jar[b]}
  /\ jar' = [jar EXCEPT ![b] = Nothing]
  /\ UNCHANGED <<signInVars, users, cookie, keyVars>>

\* SESSION_TTL_MS is over; whether the row has been pruned makes no difference.
Expire(s) ==
  /\ s \in sessions
  /\ sessions' = sessions \ {s}
  /\ UNCHANGED <<signInVars, users, cookie, jar, keyVars>>

----------------------------------------------------------------------------
(* API keys: the session is resolved, then the key is written *)

\* requireSession
Ask(b) ==
  /\ request[b] = Nothing
  /\ jar[b] \in sessions
  /\ request' = [request EXCEPT ![b] = jar[b]]
  /\ UNCHANGED <<signInVars, users, sessions, cookie, jar, keys>>

Served(b) ==
  /\ request' = [request EXCEPT ![b] = Nothing]
  /\ UNCHANGED <<signInVars, users, sessions, cookie, jar>>

CreateKey(b, k) ==
  /\ request[b] # Nothing
  /\ keys[k] = NoKey
  /\ LET s == request[b] IN
       keys' = [keys EXCEPT ![k] = [owner |-> account[s], by |-> person[s], revoked |-> FALSE]]
  /\ Served(b)

\* Only a key of the account that asks.
RevokeKey(b, k) ==
  /\ request[b] # Nothing
  /\ keys[k].owner = account[request[b]]
  /\ keys' = [keys EXCEPT ![k].revoked = TRUE]
  /\ Served(b)

\* No such key, a bad name, or a query that throws.
Refuse(b) == request[b] # Nothing /\ Served(b) /\ UNCHANGED keys

----------------------------------------------------------------------------
Init ==
  /\ pc = [s \in SignIns |-> "idle"]
  /\ began = [s \in SignIns |-> Nothing]
  /\ at = [s \in SignIns |-> Nothing]
  /\ person = [s \in SignIns |-> NoPerson]
  /\ email = [s \in SignIns |-> NoEmail]
  /\ account = [s \in SignIns |-> NoUser]
  /\ users = [u \in UserIds |->
       IF u \in Legacy THEN [email |-> LegacyAddress[u], github |-> NoPerson] ELSE NoRow]
  /\ sessions = {}
  /\ cookie = [b \in Browsers |-> Nothing]
  /\ jar = [b \in Browsers |-> Nothing]
  /\ request = [b \in Browsers |-> Nothing]
  /\ keys = [k \in Keys |-> NoKey]

SignIn(s) ==
  \/ \E b \in Browsers : Begin(s, b) \/ Callback(s, b) \/ Stray(s, b)
  \/ \E g \in People : Consent(s, g)
  \/ Profile(s) \/ NoProfile(s)
  \/ ByGithub(s) \/ Link(s) \/ InsertEmail(s) \/ InsertFallback(s) \/ Raced(s)
  \/ StoreSession(s) \/ Stamp(s)
  \/ QueryFails(s)

SignedIn(b) ==
  \/ Ask(b) \/ Refuse(b)
  \/ \E k \in Keys : CreateKey(b, k) \/ RevokeKey(b, k)
  \/ LogOut(b)

Next ==
  \/ \E s \in SignIns : SignIn(s) \/ Expire(s)
  \/ \E b \in Browsers : SignedIn(b)

Spec == Init /\ [][Next]_vars

----------------------------------------------------------------------------
(* Properties *)

Mail == Addresses \cup {Noreply(g) : g \in People}

\* The state of sign-in, the tables and the cookies has its type; no row of
\* `users` lacks an address (NOT NULL) or has one that is not normalised.
TypeOK ==
  /\ pc \in [SignIns -> Pc]
  /\ began \in [SignIns -> Browsers \cup {Nothing}]
  /\ at \in [SignIns -> Browsers \cup {Nothing}]
  /\ person \in [SignIns -> People \cup {NoPerson}]
  /\ email \in [SignIns -> Addresses \cup {NoEmail}]
  /\ account \in [SignIns -> UserIds \cup {NoUser}]
  /\ users \in [UserIds -> {NoRow} \cup [email : Mail, github : People \cup {NoPerson}]]
  /\ sessions \subseteq SignIns
  /\ cookie \in [Browsers -> SignIns \cup {Nothing}]
  /\ jar \in [Browsers -> SignIns \cup {Nothing}]
  /\ request \in [Browsers -> SignIns \cup {Nothing}]
  /\ keys \in [Keys -> {NoKey} \cup [owner : UserIds, by : People, revoked : BOOLEAN]]

\* However sign-ins interleave, an account a sign-in has been given is that of
\* the GitHub account which consented, for ever after, and the only one of it;
\* so is an API key's owner; and a browser is signed in only by what it began.
Belongs ==
  /\ \A s \in SignIns : account[s] # NoUser => users[account[s]].github = person[s]
  /\ \A u, v \in UserIds : users[u].github = users[v].github /\ users[u].github # NoPerson => u = v
  /\ \A k \in Keys : keys[k] # NoKey => users[keys[k].owner].github = keys[k].by
  /\ \A b \in Browsers : jar[b] # Nothing => began[jar[b]] = b

\* A sign-in whose GitHub account has verified an old account's address, however
\* spelt, never makes an account of its own while the old one is unclaimed, but in two
\* cases: /user/emails failed, or the one address the callback took is another of the
\* verified ones.  auth.ts:135-138 and cloud-runtime.md:91-93 promise linking in both
\* as well; the code makes a second account there, and github_id is never moved after.
LegacyLinked ==
  \A s \in SignIns, u \in Legacy :
    /\ users[s] # NoRow
    /\ LegacyAddress[u] \in {Normal[m] : m \in Verified[person[s]]}
    => \/ users[u].github # NoPerson
       \/ email[s] = NoEmail
       \/ \E m \in Taken(person[s]) : email[s] = Normal[m] /\ Normal[m] # LegacyAddress[u]

\* "Could not create an account for this GitHub user." is never the answer:
\* who loses both inserts finds the row the winner has made.
NeverDeadEnds == \A s \in SignIns : pc[s] # "deadEnd"
=============================================================================
