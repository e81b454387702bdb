----------------------------- MODULE SessionGate -----------------------------
(***************************************************************************)
(* The gate in front of every VS Code session: proxy.ts's                  *)
(* authorizeSessionRequest, and resolveAccount of account-auth.ts with its *)
(* positive-answer cache, interleaved at every await.  The account API     *)
(* answers /auth/whoami from its own sign-in table, which sign-ins,        *)
(* sign-outs and the prune change while answers are on their way.          *)
(***************************************************************************)
EXTENDS Integers, FiniteSets

CONSTANTS
  Visits,       \* requests that reach the proxy (HTTP, websocket, End session)
  Tokens,       \* session cookies: one per sign-in, never issued twice
  Accounts,
  Sessions,     \* VS Code sessions
  AccountOf,    \* the account each token is issued to
  OwnerOf,      \* sessions.user_id, or Nobody
  TokenOf,      \* the cookie each visit carries
  TargetOf,     \* the session host each visit is for
  Nobody,       \* no account: user_id of a session started before sign-in was
                \* required, and what a whoami that was refused names
  CacheTTL,     \* CACHE_TTL_MS
  MaxEntries,   \* CACHE_MAX_ENTRIES
  MaxLatency,   \* longest time from a whoami being answered to its use
  MaxTime       \* bound on the clock

ASSUME GateAssumption ==
  /\ TokenOf \in [Visits -> Tokens]
  /\ TargetOf \in [Visits -> Sessions]
  /\ AccountOf \in [Tokens -> Accounts]
  /\ OwnerOf \in [Sessions -> Accounts \cup {Nobody}]
  /\ Nobody \notin Accounts
  /\ CacheTTL \in Nat
  /\ MaxLatency \in Nat
  /\ MaxTime \in Nat
  /\ MaxEntries \in Nat \ {0}

VARIABLES
  now,
  issued,     \* the tokens handed out so far
  signedIn,   \* apps/api: the tokens with a live sessions row
  lastIn,     \* history: the last time each token was signed in
  running,    \* the VS Code sessions that are not stopped and not expired
  cache,      \* token -> [account, expires], for the entries of the map
  pc,         \* where each visit is
  answer      \* the whoami answer on its way back to each visit: whom it names, and
              \* when it was given

apiVars == <<issued, signedIn, lastIn>>
vars == <<now, apiVars, running, cache, pc, answer>>

\* "asking": the fetch is on its way to the account API; "answered": the answer
\* is on its way back.  The others are authorizeSessionRequest's results.
Pc == {"idle", "resolving", "asking", "answered", "notASession", "signIn", "forbidden", "ok"}

Entry == [account : Accounts, expires : Nat]

Alive(t) == cache[t].expires > now
Fresh(t) == t \in DOMAIN cache /\ Alive(t)

----------------------------------------------------------------------------
(* The account API (apps/api auth.ts) and the broker's sessions, as the    *)
(* gate depends on them.                                                   *)

\* The GitHub callback hands out a token.
SignIn(t) ==
  /\ t \notin issued
  /\ issued' = issued \cup {t}
  /\ signedIn' = signedIn \cup {t}
  /\ lastIn' = [lastIn EXCEPT ![t] = now]
  /\ UNCHANGED <<now, running, cache, pc, answer>>

\* destroySession, or the row's expiry.
SignOut(t) ==
  /\ t \in signedIn
  /\ signedIn' = signedIn \ {t}
  /\ UNCHANGED <<now, issued, lastIn, running, cache, pc, answer>>

SessionEnds(s) ==
  /\ s \in running
  /\ running' = running \ {s}
  /\ UNCHANGED <<now, apiVars, cache, pc, answer>>

\* An answer is used no later than MaxLatency after it was given.
Tick ==
  /\ now < MaxTime
  /\ \A v \in Visits : pc[v] = "answered" => now < answer[v].at + MaxLatency
  /\ now' = now + 1
  /\ lastIn' = [t \in Tokens |-> IF t \in signedIn THEN now + 1 ELSE lastIn[t]]
  /\ UNCHANGED <<issued, signedIn, running, cache, pc, answer>>

----------------------------------------------------------------------------
(* authorizeSessionRequest *)

Goto(v, state) == pc' = [pc EXCEPT ![v] = state]

\* lookupActiveSession comes first; a visit carries a cookie it was given.
LookupSession(v) ==
  /\ pc[v] = "idle" /\ TokenOf[v] \in issued
  /\ Goto(v, IF TargetOf[v] \in running THEN "resolving" ELSE "notASession")
  /\ UNCHANGED <<now, apiVars, running, cache, answer>>

\* Whether the account an answer names is the one that started the session.
Verdict(v, account) == IF OwnerOf[TargetOf[v]] = account THEN "ok" ELSE "forbidden"

\* Mutant: an entry is good for as long as it is in the map.
CacheHit_Forever(v) ==
  /\ pc[v] = "resolving"
  /\ TokenOf[v] \in DOMAIN cache
  /\ Goto(v, Verdict(v, cache[TokenOf[v]].account))
  /\ UNCHANGED <<now, apiVars, running, cache, answer>>

\* Mutant: any answer that has not expired is used, whatever token it was for.
CacheHit_AnyEntry(v) ==
  /\ pc[v] = "resolving"
  /\ \E t \in Tokens : Fresh(t) /\ Goto(v, Verdict(v, cache[t].account))
  /\ UNCHANGED <<now, apiVars, running, cache, answer>>

\* A cached answer that has not expired is used as it is.
CacheHit(v) ==
  /\ pc[v] = "resolving"
  /\ Fresh(TokenOf[v])
  /\ Goto(v, Verdict(v, cache[TokenOf[v]].account))
  /\ UNCHANGED <<now, apiVars, running, cache, answer>>

\* No usable entry: the account API is asked.
CacheMiss(v) ==
  /\ pc[v] = "resolving"
  /\ ~Fresh(TokenOf[v])
  /\ Goto(v, "asking")
  /\ UNCHANGED <<now, apiVars, running, cache, answer>>

\* GET /auth/whoami: resolveSession finds the token's row, or the API is in
\* trouble and answers with an error status.
WhoamiAnswers(v) ==
  /\ pc[v] = "asking"
  /\ \E account \in {AccountOf[TokenOf[v]], Nobody} :
       /\ account # Nobody => TokenOf[v] \in signedIn
       /\ answer' = [answer EXCEPT ![v] = [account |-> account, at |-> now]]
  /\ Goto(v, "answered")
  /\ UNCHANGED <<now, apiVars, running, cache>>

\* fetch or json() throws, or the body lacks a field: nobody is signed in, and
\* the cache is left alone.
WhoamiFails(v) ==
  /\ pc[v] \in {"asking", "answered"}
  /\ Goto(v, "signIn")
  /\ UNCHANGED <<now, apiVars, running, cache, answer>>

\* Mutant: a full map is looked at only once it has outgrown the limit.
Evicted_OffByOne ==
  LET unexpired == {t \in DOMAIN cache : Alive(t)}
  IN  IF Cardinality(DOMAIN cache) <= MaxEntries THEN DOMAIN cache
      ELSE IF Cardinality(unexpired) < MaxEntries THEN unexpired ELSE {}

\* The entries kept when an answer is about to be stored: all of them while
\* there is room, else the unexpired ones, else none.
Evicted ==
  LET unexpired == {t \in DOMAIN cache : Alive(t)}
  IN  IF Cardinality(DOMAIN cache) < MaxEntries THEN DOMAIN cache
      ELSE IF Cardinality(unexpired) < MaxEntries THEN unexpired ELSE {}

\* A positive answer is good for CacheTTL from now, not from when it was given.
ReceiveAccount(v) ==
  /\ pc[v] = "answered" /\ answer[v].account # Nobody
  /\ cache' = [t \in Evicted \cup {TokenOf[v]} |->
                 IF t = TokenOf[v] THEN [account |-> answer[v].account, expires |-> now + CacheTTL]
                 ELSE cache[t]]
  /\ Goto(v, Verdict(v, answer[v].account))
  /\ UNCHANGED <<now, apiVars, running, answer>>

\* Any other status: the entry is dropped and the visitor sent to sign in.
ReceiveRefusal(v) ==
  /\ pc[v] = "answered" /\ answer[v].account = Nobody
  /\ cache' = [t \in DOMAIN cache \ {TokenOf[v]} |-> cache[t]]
  /\ Goto(v, "signIn")
  /\ UNCHANGED <<now, apiVars, running, answer>>

----------------------------------------------------------------------------
Init ==
  /\ now = 0
  /\ issued = {}
  /\ signedIn = {}
  /\ lastIn = [t \in Tokens |-> 0]
  /\ running = Sessions
  /\ cache = [t \in {} |-> 0]
  /\ pc = [v \in Visits |-> "idle"]
  /\ answer = [v \in Visits |-> [account |-> Nobody, at |-> 0]]

Authorize(v) ==
  \/ LookupSession(v) \/ CacheHit(v) \/ CacheMiss(v) \/ WhoamiAnswers(v)
  \/ WhoamiFails(v) \/ ReceiveAccount(v) \/ ReceiveRefusal(v)

Next ==
  \/ \E v \in Visits : Authorize(v)
  \/ \E t \in Tokens : SignIn(t) \/ SignOut(t)
  \/ \E s \in Sessions : SessionEnds(s)
  \/ Tick

Spec == Init /\ [][Next]_vars

----------------------------------------------------------------------------
TypeOK ==
  /\ now \in Nat
  /\ issued \subseteq Tokens
  /\ signedIn \subseteq issued
  /\ lastIn \in [Tokens -> Nat]
  /\ running \subseteq Sessions
  /\ DOMAIN cache \subseteq Tokens
  /\ cache \in [DOMAIN cache -> Entry]
  /\ pc \in [Visits -> Pc]
  /\ answer \in [Visits -> [account : Accounts \cup {Nobody}, at : Nat]]

\* "A sign-out takes up to this long to reach an already-open VS Code tab": a
\* visit is let through only while its token is signed in or was within the
\* last CacheTTL plus the time a whoami answer took to come back.  A sign-out
\* between the answer and its arrival is why the latency counts.
SignOutReaches ==
  [][\A v \in Visits : pc[v] # "ok" /\ pc'[v] = "ok" =>
       now <= lastIn[TokenOf[v]] + CacheTTL + MaxLatency]_vars

\* Whatever answers arrive in whatever order, are stored, evicted, overtaken or
\* used by another visit's request, the account a visit passes under is that of its
\* own token, and owns the session: an answer given to one cookie never opens a
\* session to another.
OwnersOnly ==
  \A v \in Visits : pc[v] = "ok" =>
    /\ OwnerOf[TargetOf[v]] = AccountOf[TokenOf[v]]
    /\ TokenOf[v] \in issued

\* The map never outgrows its limit.
CacheBounded == Cardinality(DOMAIN cache) <= MaxEntries
=============================================================================
