-------------------------- MODULE SessionGateProofs --------------------------
(***************************************************************************)
(* SignOutReaches, OwnersOnly and CacheBounded for any number of visits,   *)
(* tokens and sessions, any TTL, any latency and any cache size.           *)
(***************************************************************************)
EXTENDS SessionGate, FiniteSetTheorems, TLAPS

(***************************************************************************)
(* The inductive invariant follows a positive answer from the sign-in      *)
(* table to the verdict: when it is given the token is signed in           *)
(* (HistoryInv), while it travels it ages by at most MaxLatency            *)
(* (AnswerInv), and once stored it lives CacheTTL more (CacheInv).  On the *)
(* way it keeps naming the account of the token it was asked for.          *)
(***************************************************************************)
HistoryInv(t) ==
  /\ lastIn[t] <= now
  /\ t \in signedIn => lastIn[t] = now

AnswerInv(v) ==
  /\ pc[v] # "idle" => TokenOf[v] \in issued
  /\ pc[v] = "answered" =>
       /\ now <= answer[v].at + MaxLatency
       /\ answer[v].account # Nobody =>
            answer[v].at <= lastIn[TokenOf[v]] /\ answer[v].account = AccountOf[TokenOf[v]]

CacheInv(t) ==
  t \in DOMAIN cache =>
    /\ cache[t].expires <= lastIn[t] + CacheTTL + MaxLatency
    /\ cache[t].account = AccountOf[t]

IInv ==
  /\ TypeOK
  /\ \A t \in Tokens : HistoryInv(t)
  /\ \A v \in Visits : AnswerInv(v)
  /\ \A t \in Tokens : CacheInv(t)
  /\ OwnersOnly

LEMMA InitIInv == Init => IInv
  BY GateAssumption
  DEF Init, IInv, TypeOK, Pc, HistoryInv, AnswerInv, CacheInv, OwnersOnly

LEMMA EntryTypes ==
  ASSUME IInv, NEW t \in DOMAIN cache
  PROVE  t \in Tokens /\ cache[t].expires \in Nat
  BY DEF IInv, TypeOK, Entry

\* What a verdict on the account of an issued token lets through.
LEMMA VerdictSound ==
  ASSUME IInv, NEW v \in Visits, pc[v] # "idle", NEW account, account = AccountOf[TokenOf[v]],
         Goto(v, Verdict(v, account)), UNCHANGED issued
  PROVE  /\ pc' \in [Visits -> Pc]
         /\ OwnersOnly'
         /\ \A w \in Visits : pc'[w] = "answered" => pc[w] = "answered"
         /\ \A w \in Visits : pc'[w] # "idle" => TokenOf[w] \in issued'
<1>1. pc' = [pc EXCEPT ![v] = Verdict(v, account)]
  BY DEF Goto
<1>2. Verdict(v, account) \in {"ok", "forbidden"}
  BY DEF Verdict
<1>3. TokenOf[v] \in issued
  BY DEF IInv, AnswerInv
<1>4. pc \in [Visits -> Pc]
  BY DEF IInv, TypeOK
<1>5. ASSUME NEW w \in Visits, pc'[w] = "ok"
      PROVE  OwnerOf[TargetOf[w]] = AccountOf[TokenOf[w]] /\ TokenOf[w] \in issued'
  <2>1. CASE w = v
    BY <1>1, <1>3, <1>4, <1>5, <2>1 DEF Verdict
  <2>2. CASE w # v
    BY <1>1, <1>4, <1>5, <2>2 DEF IInv, OwnersOnly
  <2> QED BY <2>1, <2>2
<1>6. OwnersOnly'
  BY <1>5 DEF OwnersOnly
<1> QED BY <1>1, <1>2, <1>3, <1>4, <1>6 DEF Pc, IInv, AnswerInv

\* The steps of a visit keep the invariant.
LEMMA VisitIInv ==
  ASSUME IInv, NEW v \in Visits, Authorize(v)
  PROVE  IInv'
<1> USE GateAssumption
<1>1. CASE LookupSession(v)
  BY <1>1 DEF LookupSession, Goto, apiVars, IInv, TypeOK, Pc, HistoryInv, AnswerInv, CacheInv, OwnersOnly
<1>2. CASE CacheMiss(v)
  BY <1>2 DEF CacheMiss, Goto, apiVars, IInv, TypeOK, Pc, HistoryInv, AnswerInv, CacheInv, OwnersOnly
<1>3. CASE WhoamiFails(v)
  BY <1>3 DEF WhoamiFails, Goto, apiVars, IInv, TypeOK, Pc, HistoryInv, AnswerInv, CacheInv, OwnersOnly
<1>4. CASE ReceiveRefusal(v)
  BY <1>4 DEF ReceiveRefusal, Goto, apiVars, IInv, TypeOK, Pc, HistoryInv, AnswerInv, CacheInv, OwnersOnly
<1>5. CASE CacheHit(v)
  <2> DEFINE account == cache[TokenOf[v]].account
  <2>1. pc[v] # "idle" /\ Goto(v, Verdict(v, account)) /\ UNCHANGED <<now, apiVars, running, cache, answer>>
    BY <1>5 DEF CacheHit
  <2>2. account = AccountOf[TokenOf[v]]
    BY <1>5 DEF CacheHit, Fresh, IInv, CacheInv
  <2> HIDE DEF account
  <2> QED BY <2>2, <2>1, VerdictSound DEF apiVars, IInv, TypeOK, HistoryInv, AnswerInv, CacheInv
<1>6. CASE WhoamiAnswers(v)
  <2>1. PICK account \in {AccountOf[TokenOf[v]], Nobody} :
          /\ account # Nobody => TokenOf[v] \in signedIn
          /\ answer' = [answer EXCEPT ![v] = [account |-> account, at |-> now]]
    BY <1>6 DEF WhoamiAnswers
  <2>2. UNCHANGED <<now, apiVars, running, cache>> /\ pc' = [pc EXCEPT ![v] = "answered"] /\ pc[v] # "idle"
    BY <1>6 DEF WhoamiAnswers, Goto
  <2>3. TypeOK'
    BY <2>1, <2>2 DEF apiVars, IInv, TypeOK, Pc
  <2>4. (\A t \in Tokens : HistoryInv(t)') /\ (\A t \in Tokens : CacheInv(t)') /\ OwnersOnly'
    BY <2>2 DEF apiVars, IInv, TypeOK, Pc, HistoryInv, CacheInv, OwnersOnly
  <2>5. ASSUME NEW w \in Visits PROVE AnswerInv(w)'
    <3>1. CASE w = v
      BY <2>1, <2>2, <3>1 DEF apiVars, IInv, TypeOK, Pc, HistoryInv, AnswerInv
    <3>2. CASE w # v
      BY <2>1, <2>2, <3>2 DEF apiVars, IInv, TypeOK, AnswerInv
    <3> QED BY <3>1, <3>2
  <2> QED BY <2>3, <2>4, <2>5 DEF IInv
<1>7. CASE ReceiveAccount(v)
  <2> DEFINE tok == TokenOf[v]
  <2> DEFINE account == answer[v].account
  <2>1. /\ pc[v] = "answered" /\ account # Nobody
        /\ Goto(v, Verdict(v, account))
        /\ UNCHANGED <<now, apiVars, running, answer>>
        /\ cache' = [t \in Evicted \cup {tok} |->
                       IF t = tok THEN [account |-> account, expires |-> now + CacheTTL] ELSE cache[t]]
    BY <1>7 DEF ReceiveAccount
  <2>2. Evicted \subseteq DOMAIN cache
    BY DEF Evicted
  <2>3. now <= lastIn[tok] + MaxLatency /\ account = AccountOf[tok] /\ account \in Accounts
    BY <2>1 DEF IInv, TypeOK, AnswerInv
  <2>4. ASSUME NEW t \in Tokens PROVE CacheInv(t)'
    BY <2>1, <2>2, <2>3 DEF apiVars, IInv, TypeOK, CacheInv
  <2>5. DOMAIN cache' \subseteq Tokens /\ cache' \in [DOMAIN cache' -> Entry]
    BY <2>1, <2>2, <2>3 DEF IInv, TypeOK, Entry
  <2>6. /\ pc' \in [Visits -> Pc]
        /\ OwnersOnly'
        /\ \A w \in Visits : pc'[w] = "answered" => pc[w] = "answered"
        /\ \A w \in Visits : pc'[w] # "idle" => TokenOf[w] \in issued'
    BY <2>1, <2>3, VerdictSound DEF apiVars
  <2>7. TypeOK'
    BY <2>1, <2>5, <2>6 DEF apiVars, IInv, TypeOK
  <2>8. (\A t \in Tokens : HistoryInv(t)') /\ (\A w \in Visits : AnswerInv(w)')
    BY <2>1, <2>6 DEF apiVars, IInv, HistoryInv, AnswerInv
  <2> QED BY <2>4, <2>6, <2>7, <2>8 DEF IInv
<1> QED BY <1>1, <1>2, <1>3, <1>4, <1>5, <1>6, <1>7 DEF Authorize

\* So do sign-ins, sign-outs, ending sessions and the clock.
LEMMA WorldIInv ==
  ASSUME IInv,
         \/ \E t \in Tokens : SignIn(t) \/ SignOut(t)
         \/ \E s \in Sessions : SessionEnds(s)
         \/ Tick \/ UNCHANGED vars
  PROVE  IInv'
<1> USE GateAssumption
<1>1. ASSUME NEW t \in Tokens, SignIn(t) PROVE IInv'
  <2>0. \A u \in Tokens : lastIn[u] <= lastIn'[u] /\ lastIn[u] \in Nat /\ lastIn'[u] \in Nat /\ HistoryInv(u)'
    BY <1>1 DEF SignIn, IInv, TypeOK, HistoryInv
  <2>1. (\A u \in Tokens : HistoryInv(u)') /\ (\A u \in Tokens : CacheInv(u)')
    BY <1>1, <2>0, EntryTypes DEF SignIn, IInv, CacheInv
  <2>2. \A v \in Visits : AnswerInv(v)'
    BY <1>1 DEF SignIn, IInv, TypeOK, HistoryInv, AnswerInv
  <2>3. TypeOK' /\ OwnersOnly'
    BY <1>1 DEF SignIn, IInv, TypeOK, OwnersOnly
  <2> QED BY <2>1, <2>2, <2>3 DEF IInv
<1>2. ASSUME NEW t \in Tokens, SignOut(t) PROVE IInv'
  BY <1>2 DEF SignOut, IInv, TypeOK, HistoryInv, AnswerInv, CacheInv, OwnersOnly
<1>3. ASSUME NEW s \in Sessions, SessionEnds(s) PROVE IInv'
  BY <1>3 DEF SessionEnds, apiVars, IInv, TypeOK, HistoryInv, AnswerInv, CacheInv, OwnersOnly
<1>4. CASE Tick
  <2>1. \A t \in Tokens : lastIn[t] <= lastIn'[t] /\ lastIn[t] \in Nat /\ lastIn'[t] \in Nat /\ HistoryInv(t)'
    BY <1>4 DEF Tick, IInv, TypeOK, HistoryInv
  <2>2. TypeOK' /\ OwnersOnly'
    BY <1>4 DEF Tick, IInv, TypeOK, OwnersOnly
  <2>3. \A t \in Tokens : CacheInv(t)'
    BY <1>4, <2>1, EntryTypes DEF Tick, IInv, CacheInv
  <2>4. \A v \in Visits : AnswerInv(v)'
    BY <1>4, <2>1, <2>2 DEF Tick, IInv, TypeOK, AnswerInv
  <2> QED BY <2>1, <2>2, <2>3, <2>4 DEF IInv
<1>5. CASE UNCHANGED vars
  BY <1>5 DEF vars, apiVars, IInv, TypeOK, HistoryInv, AnswerInv, CacheInv, OwnersOnly
<1> QED BY <1>1, <1>2, <1>3, <1>4, <1>5

LEMMA Invariance == Spec => []IInv
<1>1. IInv /\ [Next]_vars => IInv'
  BY VisitIInv, WorldIInv DEF Next
<1> QED BY <1>1, InitIInv, PTL DEF Spec

\* A visit is let through to a session only on a token issued to its owner: every
\* answer and every entry of the map names the account of the token it is under,
\* through every order of answers, refusals and evictions.
THEOREM OwnersOnlyAlways == Spec => []OwnersOnly
  BY Invariance, PTL DEF IInv

\* A sign-out closes the gate after at most CacheTTL plus the time a whoami
\* answer may be on its way.
THEOREM SignOutBound == Spec => SignOutReaches
<1> DEFINE Step == \A v \in Visits : pc[v] # "ok" /\ pc'[v] = "ok" =>
                     now <= lastIn[TokenOf[v]] + CacheTTL + MaxLatency
<1>1. IInv /\ [Next]_vars => [Step]_vars
  <2> SUFFICES ASSUME IInv, Next, NEW v \in Visits, pc[v] # "ok", pc'[v] = "ok"
               PROVE  now <= lastIn[TokenOf[v]] + CacheTTL + MaxLatency
    OBVIOUS
  <2> USE GateAssumption
  <2>1. PICK w \in Visits : Authorize(w)
    BY DEF Next, SignIn, SignOut, SessionEnds, Tick
  <2>types. pc \in [Visits -> Pc]
    BY DEF IInv, TypeOK
  <2>mover. w = v
    <3>1. PICK state : pc' = [pc EXCEPT ![w] = state]
      BY <2>1, Zenon DEF Authorize, LookupSession, CacheHit, CacheMiss, WhoamiAnswers, WhoamiFails,
                         ReceiveAccount, ReceiveRefusal, Goto
    <3> QED BY <3>1, <2>types
  <2>2. CacheHit(v) \/ ReceiveAccount(v)
    <3>1. ASSUME LookupSession(v) PROVE FALSE
      BY <3>1, <2>types DEF LookupSession, Goto
    <3>2. ASSUME CacheMiss(v) PROVE FALSE
      BY <3>2, <2>types DEF CacheMiss, Goto
    <3>3. ASSUME WhoamiAnswers(v) PROVE FALSE
      BY <3>3, <2>types DEF WhoamiAnswers, Goto
    <3>4. ASSUME WhoamiFails(v) PROVE FALSE
      BY <3>4, <2>types DEF WhoamiFails, Goto
    <3>5. ASSUME ReceiveRefusal(v) PROVE FALSE
      BY <3>5, <2>types DEF ReceiveRefusal, Goto
    <3> QED BY <2>1, <2>mover, <3>1, <3>2, <3>3, <3>4, <3>5 DEF Authorize
  <2>3. CASE CacheHit(v)
    <3>1. TokenOf[v] \in DOMAIN cache /\ now < cache[TokenOf[v]].expires /\ CacheInv(TokenOf[v])
      BY <2>3, EntryTypes DEF CacheHit, Fresh, Alive, IInv, TypeOK
    <3>2. now \in Nat /\ lastIn[TokenOf[v]] \in Nat
      BY DEF IInv, TypeOK
    <3> QED BY <3>1, <3>2, EntryTypes DEF CacheInv
  <2>4. CASE ReceiveAccount(v)
    BY <2>4 DEF ReceiveAccount, IInv, TypeOK, AnswerInv
  <2> QED BY <2>2, <2>3, <2>4
<1> HIDE DEF Step
<1>2. Spec => [][Step]_vars
  BY <1>1, Invariance, PTL DEF Spec
<1> QED BY <1>2 DEF SignOutReaches, Step

----------------------------------------------------------------------------
\* Storing an answer: what is kept leaves room for it, whether the map had
\* room, was swept of what has expired, or was cleared.
LEMMA StoredFits ==
  ASSUME IsFiniteSet(DOMAIN cache), CacheBounded, NEW t
  PROVE  /\ IsFiniteSet(Evicted \cup {t})
         /\ Cardinality(Evicted \cup {t}) <= MaxEntries
<1> DEFINE unexpired == {u \in DOMAIN cache : Alive(u)}
<1>1. IsFiniteSet(unexpired)
  BY FS_Subset
<1>2. IsFiniteSet({}) /\ Cardinality({}) = 0
  BY FS_EmptySet
<1>3. IsFiniteSet(Evicted) /\ Cardinality(Evicted) < MaxEntries
  BY <1>1, <1>2, GateAssumption DEF Evicted
<1>4. IsFiniteSet(Evicted \cup {t}) /\ Cardinality(Evicted \cup {t}) <= Cardinality(Evicted) + 1
  <2>1. Cardinality(Evicted) \in Nat
    BY <1>3, FS_CardinalityType
  <2>2. IsFiniteSet(Evicted \cup {t})
    BY <1>3, FS_AddElement
  <2>3. Cardinality(Evicted \cup {t}) \in {Cardinality(Evicted), Cardinality(Evicted) + 1}
    BY <1>3, FS_AddElement, Zenon
  <2> QED BY <2>1, <2>2, <2>3
<1> QED BY <1>3, <1>4, FS_CardinalityType, GateAssumption

\* The size of the map is kept by every step; only an answer that is stored
\* adds an entry.
LEMMA CacheStep ==
  ASSUME IsFiniteSet(DOMAIN cache), CacheBounded, [Next]_vars
  PROVE  IsFiniteSet(DOMAIN cache)' /\ CacheBounded'
<1>1. CASE UNCHANGED cache
  BY <1>1 DEF CacheBounded
<1>2. ASSUME NEW v \in Visits, ReceiveAccount(v)
      PROVE  IsFiniteSet(DOMAIN cache)' /\ CacheBounded'
  <2>1. DOMAIN cache' = Evicted \cup {TokenOf[v]}
    BY <1>2 DEF ReceiveAccount
  <2> QED BY <2>1, StoredFits DEF CacheBounded
<1>3. ASSUME NEW v \in Visits, ReceiveRefusal(v)
      PROVE  IsFiniteSet(DOMAIN cache)' /\ CacheBounded'
  <2>1. DOMAIN cache' \subseteq DOMAIN cache
    BY <1>3 DEF ReceiveRefusal
  <2>2. IsFiniteSet(DOMAIN cache') /\ Cardinality(DOMAIN cache') <= Cardinality(DOMAIN cache)
    BY <2>1, FS_Subset
  <2> QED BY <2>2, FS_Subset, FS_CardinalityType, GateAssumption DEF CacheBounded
<1>4. \/ UNCHANGED cache
      \/ \E v \in Visits : ReceiveAccount(v) \/ ReceiveRefusal(v)
  BY DEF Next, vars, Authorize, LookupSession, CacheHit, CacheMiss, WhoamiAnswers, WhoamiFails,
         SignIn, SignOut, SessionEnds, Tick
<1> QED BY <1>1, <1>2, <1>3, <1>4

\* The map of answers never outgrows CACHE_MAX_ENTRIES, for any number of
\* tokens: whatever order answers come back in, storing one makes room first.
THEOREM CacheAlwaysBounded == Spec => []CacheBounded
<1>1. Init => IsFiniteSet(DOMAIN cache) /\ CacheBounded
  <2> SUFFICES ASSUME Init PROVE IsFiniteSet(DOMAIN cache) /\ CacheBounded
    OBVIOUS
  <2>1. DOMAIN cache = {}
    BY DEF Init
  <2> QED BY <2>1, FS_EmptySet, GateAssumption DEF CacheBounded
<1>2. IsFiniteSet(DOMAIN cache) /\ CacheBounded /\ [Next]_vars
        => (IsFiniteSet(DOMAIN cache) /\ CacheBounded)'
  BY CacheStep
<1> QED BY <1>1, <1>2, PTL DEF Spec
=============================================================================
