-------------------------- MODULE ExecutionApiProofs --------------------------
(***************************************************************************)
(* Proofs about ExecutionApi, for any numbers of overlapping requests, any *)
(* caps and any window: how far overlapping requests can pass a cap, and   *)
(* that the limiter's bound holds in every window.                         *)
(***************************************************************************)
EXTENDS ExecutionApi, FiniteSetTheorems, TLAPS

\* The requests that may still write a row without looking at the cap again.
PastDay == {r \in ApiRequests :
  pc[r] \in {"worker", "log"} \/ (pc[r] = "counting" /\ daily[r] \in 0..(DailyCap - 1))}
PastMonth == {r \in ApiRequests :
  pc[r] \in {"worker", "log"} \/ (pc[r] = "counting" /\ monthly[r] \in 0..(MonthlyCap - 1))}

RowsToday == ApiRowsSince(DayStart(now))
RowsThisMonth == ApiRowsSince(MonthStart(now))

\* Rows of the day plus rows still to come stay below the cap plus the number
\* of requests: a request joins PastDay only on a count below the cap, and a
\* row is written only by a request that leaves it.
DayInv == Cardinality(RowsToday) + Cardinality(PastDay) < DailyCap + Cardinality(ApiRequests)
MonthInv == Cardinality(RowsThisMonth) + Cardinality(PastMonth) < MonthlyCap + Cardinality(ApiRequests)

\* The limiter still remembers every call it let through in the last window.
Remembered ==
  /\ \A a \in admitted : a.at <= now
  /\ {a \in admitted : now - a.at < Window} \subseteq hits

\* Only a request that is counting holds counts.
Forgotten ==
  \A r \in ApiRequests : pc[r] # "counting" => daily[r] = NotRead /\ monthly[r] = NotRead

Finite == IsFiniteSet(rows) /\ IsFiniteSet(hits) /\ IsFiniteSet(admitted)

IInv == TypeOK /\ Finite /\ Forgotten /\ DayInv /\ MonthInv /\ Remembered /\ RateBound

----------------------------------------------------------------------------
\* A day, and a month, never starts earlier for a later clock.
LEMMA StartMonotone ==
  ASSUME NEW D \in Nat \ {0}, NEW t \in Nat
  PROVE  t - (t % D) <= (t + 1) - ((t + 1) % D)
<1>1. t % D \in 0..(D - 1) /\ (t + 1) % D \in 0..(D - 1)
  OBVIOUS
<1>2. t = D * (t \div D) + (t % D) /\ t + 1 = D * ((t + 1) \div D) + ((t + 1) % D)
  OBVIOUS
<1>3. t \div D \in Nat /\ (t + 1) \div D \in Nat
  OBVIOUS
<1>4. t \div D <= (t + 1) \div D
  OBVIOUS
<1>5. D * (t \div D) <= D * ((t + 1) \div D)
  BY <1>3, <1>4
<1> QED BY <1>1, <1>2, <1>3, <1>5

\* What a step may do to the rows counted (R) and the requests past the cap (P)
\* without passing it by more than there are requests.
Allowed(R, P, R2, P2, Cap) ==
  \/ R2 \subseteq R /\ P2 \subseteq P
  \/ R2 \subseteq R /\ Cardinality(R) < Cap
  \/ \E r \in P : \E x : R2 \subseteq R \cup {x} /\ P2 \subseteq P \ {r}

LEMMA Overrun ==
  ASSUME NEW Cap \in Nat, NEW R, NEW R2, NEW P, NEW P2,
         IsFiniteSet(R), P \subseteq ApiRequests, P2 \subseteq ApiRequests,
         Cardinality(R) + Cardinality(P) < Cap + Cardinality(ApiRequests),
         Allowed(R, P, R2, P2, Cap)
  PROVE  Cardinality(R2) + Cardinality(P2) < Cap + Cardinality(ApiRequests)
<1>1. IsFiniteSet(ApiRequests) /\ IsFiniteSet(P) /\ IsFiniteSet(P2)
  BY FS_Subset, ExecutionAssumption DEF ExecutionAssumption
<1>2. /\ Cardinality(R) \in Nat /\ Cardinality(P) \in Nat /\ Cardinality(ApiRequests) \in Nat
      /\ Cardinality(P2) \in Nat /\ Cardinality(P2) <= Cardinality(ApiRequests)
  <2>1. Cardinality(R) \in Nat
    BY FS_CardinalityType
  <2>2. Cardinality(P) \in Nat
    BY <1>1, FS_CardinalityType
  <2>3. Cardinality(ApiRequests) \in Nat
    BY <1>1, FS_CardinalityType
  <2>4. Cardinality(P2) \in Nat
    BY <1>1, FS_CardinalityType
  <2>5. Cardinality(P2) <= Cardinality(ApiRequests)
    BY <1>1, FS_Subset
  <2> QED BY <2>1, <2>2, <2>3, <2>4, <2>5
<1>3. CASE R2 \subseteq R /\ P2 \subseteq P
  <2>1. /\ Cardinality(R2) \in Nat /\ Cardinality(R2) <= Cardinality(R)
        /\ Cardinality(P2) <= Cardinality(P)
    <3>1. IsFiniteSet(R2) /\ Cardinality(R2) <= Cardinality(R)
      BY <1>3, FS_Subset
    <3>2. Cardinality(P2) <= Cardinality(P)
      BY <1>1, <1>3, FS_Subset
    <3> QED BY <3>1, <3>2, FS_CardinalityType
  <2> QED BY <1>2, <2>1
<1>4. CASE R2 \subseteq R /\ Cardinality(R) < Cap
  <2>1. Cardinality(R2) \in Nat /\ Cardinality(R2) <= Cardinality(R)
    BY <1>4, FS_Subset, FS_CardinalityType
  <2> QED BY <1>2, <1>4, <2>1
<1>5. CASE \E r \in P : \E x : R2 \subseteq R \cup {x} /\ P2 \subseteq P \ {r}
  <2>0. PICK r \in P : \E x : R2 \subseteq R \cup {x} /\ P2 \subseteq P \ {r}
    BY <1>5
  <2>1. PICK x : R2 \subseteq R \cup {x} /\ P2 \subseteq P \ {r}
    BY <2>0
  <2>2. IsFiniteSet(R \cup {x}) /\ Cardinality(R \cup {x}) <= Cardinality(R) + 1
    <3>1. /\ IsFiniteSet(R \cup {x})
          /\ \/ Cardinality(R \cup {x}) = Cardinality(R)
             \/ Cardinality(R \cup {x}) = Cardinality(R) + 1
      BY FS_AddElement
    <3>2. Cardinality(R) \in Nat
      BY <1>2
    <3> QED BY <3>1, <3>2
  <2>3. Cardinality(R2) \in Nat /\ Cardinality(R2) <= Cardinality(R) + 1
    BY <1>2, <2>1, <2>2, FS_Subset, FS_CardinalityType
  <2>4. IsFiniteSet(P \ {r}) /\ Cardinality(P \ {r}) = Cardinality(P) - 1
    BY <1>1, FS_RemoveElement
  <2>5. Cardinality(P2) <= Cardinality(P) - 1
    BY <2>1, <2>4, FS_Subset
  <2> QED BY <1>2, <2>3, <2>5
<1> QED BY <1>3, <1>4, <1>5 DEF Allowed

----------------------------------------------------------------------------
LEMMA TypeInit == Init => TypeOK
  BY ExecutionAssumption DEF Init, TypeOK, Pc, NotRead, ExecutionAssumption

LEMMA CardNat == ASSUME NEW S, IsFiniteSet(S) PROVE Cardinality(S) \in Nat
  BY FS_CardinalityType

LEMMA RecentFinite ==
  ASSUME NEW S, IsFiniteSet(S)
  PROVE  Recent(S) \subseteq S /\ IsFiniteSet(Recent(S))
  BY FS_Subset DEF Recent

LEMMA RowsFinite ==
  ASSUME IsFiniteSet(rows), NEW t
  PROVE  ApiRowsSince(t) \subseteq rows /\ IsFiniteSet(ApiRowsSince(t))
  BY FS_Subset DEF ApiRowsSince

\* The step of a hit: one new element, of the right type.
LEMMA CallLimiterFacts ==
  ASSUME TypeOK, Finite, NEW r \in Requests, CallLimiter(r)
  PROVE  \E hit \in [id : Nat, at : Nat] :
           /\ hit.at = now
           /\ hits' = Recent(hits) \cup {hit}
           /\ \/ admitted' = admitted
              \/ admitted' = admitted \cup {hit} /\ Cardinality(hits') <= RateLimit
           /\ pc' \in [Requests -> Pc]
           /\ \E state \in {"limited", "worker"} : pc' = [pc EXCEPT ![r] = state]
<1> DEFINE calls == Cardinality({h \in hits : h.at = now})
           hit == [id |-> calls, at |-> now]
<1>1. calls \in Nat
  <2>1. IsFiniteSet({h \in hits : h.at = now})
    BY FS_Subset DEF Finite
  <2> QED BY <2>1, CardNat
<1>2. hit \in [id : Nat, at : Nat] /\ hit.at = now
  BY <1>1 DEF TypeOK
<1>3. hits' = Recent(hits) \cup {hit}
  BY DEF CallLimiter
<1>4. IsFiniteSet(hits')
  BY <1>3, RecentFinite, FS_AddElement DEF Finite
<1>5. Cardinality(hits') \in Nat /\ RateLimit \in Nat
  BY <1>4, CardNat, ExecutionAssumption DEF ExecutionAssumption
<1>6. \/ admitted' = admitted
      \/ admitted' = admitted \cup {hit} /\ Cardinality(hits') <= RateLimit
  <2> DEFINE recent == Recent(hits) \cup {hit}
  <2>1. \/ UNCHANGED admitted
        \/ ~Limited(recent) /\ admitted' = admitted \cup {hit}
    BY DEF CallLimiter
  <2>2. ~Limited(recent) => Cardinality(recent) <= RateLimit
    <3> HIDE DEF recent
    <3> QED BY <1>3, <1>5 DEF Limited, recent
  <2> QED BY <1>3, <2>1, <2>2
<1>7. \E state \in {"limited", "worker"} : pc' = [pc EXCEPT ![r] = state]
  BY DEF CallLimiter, Goto
<1>8. pc' \in [Requests -> Pc]
  BY <1>7 DEF TypeOK, Pc
<1> QED BY <1>2, <1>3, <1>6, <1>7, <1>8

----------------------------------------------------------------------------
LEMMA TypeStep == TypeOK /\ Finite /\ [Next]_vars => TypeOK' /\ Finite'
<1> SUFFICES ASSUME TypeOK, Finite, [Next]_vars PROVE TypeOK' /\ Finite'
  OBVIOUS
<1> USE ExecutionAssumption DEF ExecutionAssumption
<1>1. ASSUME NEW r \in Requests, Arrive(r) PROVE TypeOK' /\ Finite'
  BY <1>1 DEF Arrive, Goto, TypeOK, Finite, Pc, limiterVars
<1>2. ASSUME NEW r \in Requests, ResolveKey(r) PROVE TypeOK' /\ Finite'
  BY <1>2 DEF ResolveKey, Goto, TypeOK, Finite, Pc, apiVars, limiterVars
<1>3. ASSUME NEW r \in Requests, CountDay(r) PROVE TypeOK' /\ Finite'
  <2>1. Cardinality(ApiRowsSince(DayStart(now))) \in Nat
    BY RowsFinite, CardNat DEF Finite
  <2> QED BY <1>3, <2>1 DEF CountDay, TypeOK, Finite, limiterVars
<1>4. ASSUME NEW r \in Requests, CountMonth(r) PROVE TypeOK' /\ Finite'
  <2>1. Cardinality(ApiRowsSince(MonthStart(now))) \in Nat
    BY RowsFinite, CardNat DEF Finite
  <2> QED BY <1>4, <2>1 DEF CountMonth, TypeOK, Finite, limiterVars
<1>5. ASSUME NEW r \in Requests, Admit(r) PROVE TypeOK' /\ Finite'
  BY <1>5 DEF Admit, ForgetCounts, Goto, TypeOK, Finite, Pc, limiterVars
<1>6. ASSUME NEW r \in Requests, QueryFails(r) PROVE TypeOK' /\ Finite'
  BY <1>6 DEF QueryFails, ForgetCounts, Goto, TypeOK, Finite, Pc, limiterVars
<1>7. ASSUME NEW r \in Requests, ResolveSession(r) PROVE TypeOK' /\ Finite'
  <2>1. CASE CallLimiter(r)
    <3>1. PICK hit \in [id : Nat, at : Nat] :
            /\ hits' = Recent(hits) \cup {hit}
            /\ admitted' = admitted \/ admitted' = admitted \cup {hit}
            /\ pc' \in [Requests -> Pc]
      BY <2>1, CallLimiterFacts
    <3>2. IsFiniteSet(Recent(hits)) /\ Recent(hits) \subseteq [id : Nat, at : Nat]
      BY RecentFinite DEF Finite, TypeOK
    <3>3. IsFiniteSet(hits') /\ hits' \subseteq [id : Nat, at : Nat]
      BY <3>1, <3>2, FS_AddElement
    <3>4. IsFiniteSet(admitted') /\ admitted' \subseteq [id : Nat, at : Nat]
      BY <3>1, FS_AddElement DEF Finite, TypeOK
    <3> QED BY <1>7, <3>1, <3>3, <3>4 DEF ResolveSession, TypeOK, Finite, apiVars
  <2>2. CASE Goto(r, "idle") /\ UNCHANGED limiterVars
    BY <1>7, <2>2 DEF ResolveSession, Goto, TypeOK, Finite, Pc, apiVars, limiterVars
  <2> QED BY <1>7, <2>1, <2>2 DEF ResolveSession
<1>8. ASSUME NEW r \in Requests, WorkerUnreachable(r) \/ WorkerEnds(r) \/ StreamBreaks(r)
      PROVE  TypeOK' /\ Finite'
  BY <1>8 DEF WorkerUnreachable, WorkerEnds, StreamBreaks, Goto, TypeOK, Finite, Pc, apiVars, limiterVars
<1>9. ASSUME NEW r \in Requests, LogExecution(r) PROVE TypeOK' /\ Finite'
  <2>1. ASSUME NEW source \in {"api", "ide"}, Insert(source)
        PROVE  rows' \subseteq [id : Nat, source : {"api", "ide"}, at : Nat] /\ IsFiniteSet(rows')
    <3>1. Cardinality(SameRows(source)) \in Nat
      <4>1. IsFiniteSet(SameRows(source))
        BY FS_Subset DEF SameRows, Finite
      <4> QED BY <4>1, CardNat
    <3> DEFINE row == [id |-> Cardinality(SameRows(source)), source |-> source, at |-> now]
    <3>2. row \in [id : Nat, source : {"api", "ide"}, at : Nat]
      BY <3>1 DEF TypeOK
    <3>3. rows' = rows \cup {row}
      BY <2>1 DEF Insert
    <3> HIDE DEF row
    <3>4. IsFiniteSet(rows')
      BY <3>3, FS_AddElement DEF Finite
    <3> QED BY <3>2, <3>3, <3>4 DEF TypeOK
  <2>2. rows' \subseteq [id : Nat, source : {"api", "ide"}, at : Nat] /\ IsFiniteSet(rows')
    BY <1>9, <2>1 DEF LogExecution, TypeOK, Finite
  <2> QED BY <1>9, <2>2 DEF LogExecution, Goto, TypeOK, Finite, Pc, apiVars, limiterVars
<1>10. ASSUME Prune PROVE TypeOK' /\ Finite'
  BY <1>10, RecentFinite DEF Prune, TypeOK, Finite, apiVars
<1>11. ASSUME Tick PROVE TypeOK' /\ Finite'
  BY <1>11 DEF Tick, TypeOK, Finite, apiVars, limiterVars
<1>12. ASSUME Restart PROVE TypeOK' /\ Finite'
  BY <1>12, FS_EmptySet DEF Restart, TypeOK, Finite, Pc, NotRead
<1>13. ASSUME UNCHANGED vars PROVE TypeOK' /\ Finite'
  BY <1>13 DEF vars, TypeOK, Finite, apiVars, limiterVars
<1> QED BY <1>1, <1>2, <1>3, <1>4, <1>5, <1>6, <1>7, <1>8, <1>9, <1>10, <1>11, <1>12, <1>13
        DEF Next, Handle

----------------------------------------------------------------------------
\* The limiter: what it still remembers holds every call of the last window.
LEMMA RateStep == IInv /\ [Next]_vars => (Remembered /\ RateBound)'
<1> SUFFICES ASSUME IInv, [Next]_vars PROVE Remembered' /\ RateBound'
  OBVIOUS
<1> USE ExecutionAssumption DEF ExecutionAssumption
<1>1. now \in Nat /\ Finite /\ Remembered /\ RateBound
  BY DEF IInv, TypeOK
<1>2. ASSUME now' = now, hits' = hits, admitted' = admitted PROVE Remembered' /\ RateBound'
  <2>1. Remembered'
    BY <1>1, <1>2 DEF Remembered
  <2>2. RateBound'
    BY <1>1, <1>2 DEF RateBound
  <2> QED BY <2>1, <2>2
<1>3. ASSUME NEW r \in Requests, CallLimiter(r), now' = now PROVE Remembered' /\ RateBound'
  <2>1. PICK hit \in [id : Nat, at : Nat] :
          /\ hit.at = now
          /\ hits' = Recent(hits) \cup {hit}
          /\ \/ admitted' = admitted
             \/ (admitted' = admitted \cup {hit} /\ Cardinality(hits') <= RateLimit)
    BY <1>3, CallLimiterFacts DEF IInv
  <2>2. Remembered'
    BY <1>1, <1>3, <2>1 DEF Remembered, Recent
  <2>3. ASSUME admitted' = admitted PROVE RateBound'
    BY <1>1, <1>3, <2>3 DEF RateBound
  <2>4. ASSUME admitted' = admitted \cup {hit}, Cardinality(hits') <= RateLimit PROVE RateBound'
    <3> SUFFICES ASSUME NEW t \in 0..now
                 PROVE  Cardinality({a \in admitted' : a.at <= t /\ t - a.at < Window}) <= RateLimit
      BY <1>3 DEF RateBound
    <3>1. CASE t < now
      <4>1. {a \in admitted' : a.at <= t /\ t - a.at < Window}
              = {a \in admitted : a.at <= t /\ t - a.at < Window}
        BY <2>1, <2>4, <3>1, <1>1
      <4> QED BY <1>1, <4>1 DEF RateBound
    <3>2. CASE t = now
      <4> DEFINE W == {a \in admitted' : a.at <= t /\ t - a.at < Window}
      <4>1. W \subseteq hits'
        BY <1>3, <2>2, <3>2 DEF Remembered
      <4>2. IsFiniteSet(hits')
        BY <2>1, <1>1, RecentFinite, FS_AddElement DEF Finite
      <4> HIDE DEF W
      <4>3. Cardinality(W) <= Cardinality(hits') /\ IsFiniteSet(W)
        BY <4>1, <4>2, FS_Subset
      <4>4. Cardinality(W) \in Nat /\ Cardinality(hits') \in Nat
        BY <4>2, <4>3, CardNat
      <4>5. Cardinality(W) <= RateLimit
        BY <2>4, <4>3, <4>4
      <4> QED BY <4>5 DEF W
    <3> QED BY <3>1, <3>2, <1>1
  <2> QED BY <2>1, <2>2, <2>3, <2>4
<1>4. ASSUME NEW r \in Requests, ResolveSession(r) PROVE Remembered' /\ RateBound'
  BY <1>2, <1>3, <1>4 DEF ResolveSession, limiterVars
<1>5. ASSUME Prune PROVE Remembered' /\ RateBound'
  <2>1. Remembered'
    BY <1>1, <1>5 DEF Prune, Remembered, Recent
  <2>2. RateBound'
    BY <1>1, <1>5 DEF Prune, RateBound
  <2> QED BY <2>1, <2>2
<1>6. ASSUME Tick PROVE Remembered' /\ RateBound'
  <2>1. now' = now + 1 /\ hits' = hits /\ admitted' = admitted
    BY <1>6 DEF Tick, limiterVars
  <2>2. Remembered'
    <3>1. \A a \in admitted : a.at \in Nat
      BY DEF IInv, TypeOK
    <3> QED BY <1>1, <2>1, <3>1 DEF Remembered
  <2>3. ASSUME NEW t \in 0..now'
        PROVE  Cardinality({a \in admitted : a.at <= t /\ t - a.at < Window}) <= RateLimit
    <3>1. CASE t \in 0..now
      BY <1>1, <3>1 DEF RateBound
    <3>2. CASE t = now + 1
      <4> DEFINE W == {a \in admitted : a.at <= t /\ t - a.at < Window}
                 V == {a \in admitted : a.at <= now /\ now - a.at < Window}
      <4>1. W \subseteq V
        <5>1. \A a \in admitted : a.at \in Nat /\ a.at <= now
          BY <1>1 DEF IInv, TypeOK, Remembered
        <5> QED BY <1>1, <3>2, <5>1
      <4>2. V \subseteq admitted /\ Cardinality(V) <= RateLimit
        BY <1>1 DEF RateBound
      <4> HIDE DEF W, V
      <4>3. IsFiniteSet(V)
        BY <1>1, <4>2, FS_Subset DEF Finite
      <4>4. Cardinality(W) <= Cardinality(V) /\ IsFiniteSet(W)
        BY <4>1, <4>3, FS_Subset
      <4>5. Cardinality(W) \in Nat /\ Cardinality(V) \in Nat
        BY <4>3, <4>4, CardNat
      <4>6. Cardinality(W) <= RateLimit
        BY <4>2, <4>4, <4>5
      <4> QED BY <4>6 DEF W
    <3> QED BY <1>1, <2>1, <3>1, <3>2
  <2> QED BY <2>1, <2>2, <2>3 DEF RateBound
<1>7. ASSUME Restart PROVE Remembered' /\ RateBound'
  <2>1. admitted' = {} /\ now' = now
    BY <1>7 DEF Restart
  <2>2. ASSUME NEW t \in 0..now
        PROVE  Cardinality({a \in admitted' : a.at <= t /\ t - a.at < Window}) <= RateLimit
    <3>1. {a \in admitted' : a.at <= t /\ t - a.at < Window} = {}
      BY <2>1
    <3> QED BY <3>1, FS_EmptySet
  <2> QED BY <2>1, <2>2 DEF Remembered, RateBound
<1>8. ASSUME NEW r \in Requests, Handle(r), ~ResolveSession(r) PROVE UNCHANGED <<now, hits, admitted>>
  BY <1>8 DEF Handle, Arrive, ResolveKey, CountDay, CountMonth, Admit, QueryFails,
     WorkerUnreachable, WorkerEnds, StreamBreaks, LogExecution, limiterVars
<1>9. CASE UNCHANGED vars
  BY <1>2, <1>9 DEF vars, limiterVars
<1> QED BY <1>2, <1>4, <1>5, <1>6, <1>7, <1>8, <1>9 DEF Next

\* How a step changes the day's rows and the requests past the day's cap.
LEMMA DayStep == IInv /\ [Next]_vars => DayInv'
<1> SUFFICES ASSUME IInv, [Next]_vars PROVE DayInv'
  OBVIOUS
<1> USE ExecutionAssumption DEF ExecutionAssumption
<1>0. /\ TypeOK /\ Finite /\ Forgotten /\ DayInv /\ TypeOK' /\ now \in Nat
      /\ pc \in [Requests -> Pc] /\ daily \in [ApiRequests -> Nat \cup {NotRead}]
      /\ ApiRequests \subseteq Requests
  BY TypeStep DEF IInv, TypeOK, Requests
<1> DEFINE OK == Allowed(RowsToday, PastDay, RowsToday', PastDay', DailyCap)
<1>1. ASSUME rows' = rows, now' = now PROVE RowsToday' = RowsToday
  BY <1>1 DEF RowsToday, ApiRowsSince, DayStart
<1>2. ASSUME rows' = rows, now' = now, PastDay' \subseteq PastDay PROVE OK
  BY <1>1, <1>2 DEF Allowed
<1>3. ASSUME NEW r \in Requests, Arrive(r) PROVE OK
  <2>1. PastDay' \subseteq PastDay
    BY <1>0, <1>3 DEF Arrive, Goto, PastDay
  <2> QED BY <1>2, <1>3, <2>1 DEF Arrive
<1>4. ASSUME NEW r \in Requests, ResolveKey(r) PROVE OK
  <2>1. PastDay' \subseteq PastDay
    BY <1>0, <1>4 DEF ResolveKey, Goto, PastDay, Forgotten, NotRead, apiVars
  <2> QED BY <1>2, <1>4, <2>1 DEF ResolveKey
<1>5. ASSUME NEW r \in Requests, CountDay(r) PROVE OK
  <2>1. RowsToday' = RowsToday
    BY <1>1, <1>5 DEF CountDay
  <2>2. daily' = [daily EXCEPT ![r] = Cardinality(RowsToday)] /\ pc' = pc
    BY <1>5 DEF CountDay, RowsToday
  <2>3. CASE Cardinality(RowsToday) < DailyCap
    BY <2>1, <2>3 DEF Allowed
  <2>4. CASE ~(Cardinality(RowsToday) < DailyCap)
    <3>1. Cardinality(RowsToday) \notin 0..(DailyCap - 1)
      BY <2>4
    <3>2. PastDay' \subseteq PastDay
      BY <1>0, <2>2, <3>1 DEF PastDay
    <3> QED BY <2>1, <3>2 DEF Allowed
  <2> QED BY <2>3, <2>4
<1>6. ASSUME NEW r \in Requests, CountMonth(r) PROVE OK
  <2>1. PastDay' \subseteq PastDay
    BY <1>0, <1>6 DEF CountMonth, PastDay
  <2> QED BY <1>2, <1>6, <2>1 DEF CountMonth
<1>7. ASSUME NEW r \in Requests, Admit(r) PROVE OK
  <2>1. PastDay' \subseteq PastDay
    <3> SUFFICES ASSUME NEW q \in PastDay' PROVE q \in PastDay
      OBVIOUS
    <3>1. CASE q = r
      <4>1. ~OverCap(r)
        BY <1>0, <1>7, <3>1 DEF Admit, Goto, PastDay
      <4>2. daily[r] \in 0..(DailyCap - 1) /\ r \in ApiRequests /\ pc[r] = "counting"
        BY <1>0, <1>7, <4>1 DEF Admit, OverCap, NotRead
      <4> QED BY <3>1, <4>2 DEF PastDay
    <3>2. CASE q # r
      BY <1>0, <1>7, <3>2 DEF Admit, ForgetCounts, Goto, PastDay
    <3> QED BY <3>1, <3>2
  <2> QED BY <1>2, <1>7, <2>1 DEF Admit
<1>8. ASSUME NEW r \in Requests, QueryFails(r) PROVE OK
  <2>1. PastDay' \subseteq PastDay
    BY <1>0, <1>8 DEF QueryFails, ForgetCounts, Goto, PastDay
  <2> QED BY <1>2, <1>8, <2>1 DEF QueryFails
<1>9. ASSUME NEW r \in Requests, ResolveSession(r) PROVE OK
  <2>1. r \notin ApiRequests /\ daily' = daily /\ rows' = rows /\ now' = now
    BY <1>9 DEF ResolveSession, apiVars
  <2>2. \E state \in Pc : pc' = [pc EXCEPT ![r] = state]
    BY <1>9 DEF ResolveSession, CallLimiter, Goto, Pc
  <2>3. PastDay' \subseteq PastDay
    BY <1>0, <2>1, <2>2 DEF PastDay
  <2> QED BY <1>2, <2>1, <2>3
<1>10. ASSUME NEW r \in Requests, WorkerUnreachable(r) \/ WorkerEnds(r) \/ StreamBreaks(r) PROVE OK
  <2>1. PastDay' \subseteq PastDay
    BY <1>0, <1>10 DEF WorkerUnreachable, WorkerEnds, StreamBreaks, Goto, PastDay, apiVars
  <2> QED BY <1>2, <1>10, <2>1 DEF WorkerUnreachable, WorkerEnds, StreamBreaks
<1>11. ASSUME NEW r \in Requests, LogExecution(r) PROVE OK
  <2>1. now' = now /\ daily' = daily /\ pc[r] = "log" /\ pc' = [pc EXCEPT ![r] = "idle"]
    BY <1>11 DEF LogExecution, Goto, apiVars
  <2>2. CASE rows' = rows
    <3>1. PastDay' \subseteq PastDay
      BY <1>0, <2>1 DEF PastDay
    <3> QED BY <1>2, <2>1, <2>2, <3>1
  <2>3. CASE r \in ApiRequests /\ Insert("api")
    <3>1. PICK row : rows' = rows \cup {row}
      BY <2>3 DEF Insert
    <3>2. RowsToday' \subseteq RowsToday \cup {row}
      BY <2>1, <3>1 DEF RowsToday, ApiRowsSince, DayStart
    <3>3. r \in PastDay /\ PastDay' \subseteq PastDay \ {r}
      BY <1>0, <2>1, <2>3 DEF PastDay
    <3> QED BY <3>2, <3>3 DEF Allowed
  <2>4. CASE r \notin ApiRequests /\ Insert("ide")
    <3> DEFINE row == [id |-> Cardinality(SameRows("ide")), source |-> "ide", at |-> now]
    <3>1. rows' = rows \cup {row} /\ row.source = "ide"
      BY <2>4 DEF Insert
    <3> HIDE DEF row
    <3>2. RowsToday' \subseteq RowsToday
      BY <2>1, <3>1 DEF RowsToday, ApiRowsSince, DayStart
    <3>3. PastDay' \subseteq PastDay
      BY <1>0, <2>1, <2>4 DEF PastDay
    <3> QED BY <3>2, <3>3 DEF Allowed
  <2> QED BY <1>11, <2>2, <2>3, <2>4 DEF LogExecution
<1>12. ASSUME Tick PROVE OK
  <2>1. now' = now + 1 /\ rows' = rows /\ pc' = pc /\ daily' = daily
    BY <1>12 DEF Tick, apiVars
  <2>2. DayStart(now) <= DayStart(now + 1) /\ DayStart(now) \in Int /\ DayStart(now + 1) \in Int
    <3>1. now - (now % DayLength) <= (now + 1) - ((now + 1) % DayLength)
      BY <1>0, StartMonotone
    <3>2. now % DayLength \in Int /\ (now + 1) % DayLength \in Int
      BY <1>0
    <3> QED BY <1>0, <3>1, <3>2 DEF DayStart
  <2>3. \A x \in rows : x.at \in Nat
    BY <1>0 DEF TypeOK
  <2>4. RowsToday' = ApiRowsSince(DayStart(now + 1))
    BY <2>1 DEF RowsToday, ApiRowsSince, DayStart
  <2>5. RowsToday' \subseteq RowsToday
    BY <2>2, <2>3, <2>4 DEF RowsToday, ApiRowsSince
  <2>6. PastDay' \subseteq PastDay
    BY <2>1 DEF PastDay
  <2> QED BY <2>5, <2>6 DEF Allowed
<1>13. ASSUME Restart PROVE OK
  <2>1. PastDay' \subseteq PastDay
    BY <1>0, <1>13 DEF Restart, PastDay, NotRead
  <2> QED BY <1>2, <1>13, <2>1 DEF Restart
<1>14. ASSUME Prune \/ UNCHANGED vars PROVE OK
  <2>1. PastDay' \subseteq PastDay
    BY <1>14 DEF Prune, PastDay, vars, apiVars
  <2> QED BY <1>2, <1>14, <2>1 DEF Prune, vars
<1>15. OK
  BY <1>3, <1>4, <1>5, <1>6, <1>7, <1>8, <1>9, <1>10, <1>11, <1>12, <1>13, <1>14 DEF Next, Handle
<1>16. IsFiniteSet(RowsToday) /\ PastDay \subseteq ApiRequests /\ PastDay' \subseteq ApiRequests
  BY <1>0, RowsFinite DEF RowsToday, PastDay, Finite
<1> HIDE DEF OK
<1>17. Cardinality(RowsToday') + Cardinality(PastDay') < DailyCap + Cardinality(ApiRequests)
  <2>1. DailyCap \in Nat
    OBVIOUS
  <2>2. Cardinality(RowsToday) + Cardinality(PastDay) < DailyCap + Cardinality(ApiRequests)
    BY <1>0 DEF DayInv
  <2> QED BY <1>15, <1>16, <2>1, <2>2, Overrun DEF OK
<1> QED BY <1>17 DEF DayInv

\* The same for the month.
LEMMA MonthStep == IInv /\ [Next]_vars => MonthInv'
<1> SUFFICES ASSUME IInv, [Next]_vars PROVE MonthInv'
  OBVIOUS
<1> USE ExecutionAssumption DEF ExecutionAssumption
<1>0. /\ TypeOK /\ Finite /\ Forgotten /\ MonthInv /\ TypeOK' /\ now \in Nat
      /\ pc \in [Requests -> Pc] /\ monthly \in [ApiRequests -> Nat \cup {NotRead}]
      /\ ApiRequests \subseteq Requests
  BY TypeStep DEF IInv, TypeOK, Requests
<1> DEFINE OK == Allowed(RowsThisMonth, PastMonth, RowsThisMonth', PastMonth', MonthlyCap)
<1>1. ASSUME rows' = rows, now' = now PROVE RowsThisMonth' = RowsThisMonth
  BY <1>1 DEF RowsThisMonth, ApiRowsSince, MonthStart
<1>2. ASSUME rows' = rows, now' = now, PastMonth' \subseteq PastMonth PROVE OK
  BY <1>1, <1>2 DEF Allowed
<1>3. ASSUME NEW r \in Requests, Arrive(r) PROVE OK
  <2>1. PastMonth' \subseteq PastMonth
    BY <1>0, <1>3 DEF Arrive, Goto, PastMonth
  <2> QED BY <1>2, <1>3, <2>1 DEF Arrive
<1>4. ASSUME NEW r \in Requests, ResolveKey(r) PROVE OK
  <2>1. PastMonth' \subseteq PastMonth
    BY <1>0, <1>4 DEF ResolveKey, Goto, PastMonth, Forgotten, NotRead, apiVars
  <2> QED BY <1>2, <1>4, <2>1 DEF ResolveKey
<1>5. ASSUME NEW r \in Requests, CountMonth(r) PROVE OK
  <2>1. RowsThisMonth' = RowsThisMonth
    BY <1>1, <1>5 DEF CountMonth
  <2>2. monthly' = [monthly EXCEPT ![r] = Cardinality(RowsThisMonth)] /\ pc' = pc
    BY <1>5 DEF CountMonth, RowsThisMonth
  <2>3. CASE Cardinality(RowsThisMonth) < MonthlyCap
    BY <2>1, <2>3 DEF Allowed
  <2>4. CASE ~(Cardinality(RowsThisMonth) < MonthlyCap)
    <3>1. Cardinality(RowsThisMonth) \notin 0..(MonthlyCap - 1)
      BY <2>4
    <3>2. PastMonth' \subseteq PastMonth
      BY <1>0, <2>2, <3>1 DEF PastMonth
    <3> QED BY <2>1, <3>2 DEF Allowed
  <2> QED BY <2>3, <2>4
<1>6. ASSUME NEW r \in Requests, CountDay(r) PROVE OK
  <2>1. PastMonth' \subseteq PastMonth
    BY <1>0, <1>6 DEF CountDay, PastMonth
  <2> QED BY <1>2, <1>6, <2>1 DEF CountDay
<1>7. ASSUME NEW r \in Requests, Admit(r) PROVE OK
  <2>1. PastMonth' \subseteq PastMonth
    <3> SUFFICES ASSUME NEW q \in PastMonth' PROVE q \in PastMonth
      OBVIOUS
    <3>1. CASE q = r
      <4>1. ~OverCap(r)
        BY <1>0, <1>7, <3>1 DEF Admit, Goto, PastMonth
      <4>2. monthly[r] \in 0..(MonthlyCap - 1) /\ r \in ApiRequests /\ pc[r] = "counting"
        BY <1>0, <1>7, <4>1 DEF Admit, OverCap, NotRead
      <4> QED BY <3>1, <4>2 DEF PastMonth
    <3>2. CASE q # r
      BY <1>0, <1>7, <3>2 DEF Admit, ForgetCounts, Goto, PastMonth
    <3> QED BY <3>1, <3>2
  <2> QED BY <1>2, <1>7, <2>1 DEF Admit
<1>8. ASSUME NEW r \in Requests, QueryFails(r) PROVE OK
  <2>1. PastMonth' \subseteq PastMonth
    BY <1>0, <1>8 DEF QueryFails, ForgetCounts, Goto, PastMonth
  <2> QED BY <1>2, <1>8, <2>1 DEF QueryFails
<1>9. ASSUME NEW r \in Requests, ResolveSession(r) PROVE OK
  <2>1. r \notin ApiRequests /\ monthly' = monthly /\ rows' = rows /\ now' = now
    BY <1>9 DEF ResolveSession, apiVars
  <2>2. \E state \in Pc : pc' = [pc EXCEPT ![r] = state]
    BY <1>9 DEF ResolveSession, CallLimiter, Goto, Pc
  <2>3. PastMonth' \subseteq PastMonth
    BY <1>0, <2>1, <2>2 DEF PastMonth
  <2> QED BY <1>2, <2>1, <2>3
<1>10. ASSUME NEW r \in Requests, WorkerUnreachable(r) \/ WorkerEnds(r) \/ StreamBreaks(r) PROVE OK
  <2>1. PastMonth' \subseteq PastMonth
    BY <1>0, <1>10 DEF WorkerUnreachable, WorkerEnds, StreamBreaks, Goto, PastMonth, apiVars
  <2> QED BY <1>2, <1>10, <2>1 DEF WorkerUnreachable, WorkerEnds, StreamBreaks
<1>11. ASSUME NEW r \in Requests, LogExecution(r) PROVE OK
  <2>1. now' = now /\ monthly' = monthly /\ pc[r] = "log" /\ pc' = [pc EXCEPT ![r] = "idle"]
    BY <1>11 DEF LogExecution, Goto, apiVars
  <2>2. CASE rows' = rows
    <3>1. PastMonth' \subseteq PastMonth
      BY <1>0, <2>1 DEF PastMonth
    <3> QED BY <1>2, <2>1, <2>2, <3>1
  <2>3. CASE r \in ApiRequests /\ Insert("api")
    <3>1. PICK row : rows' = rows \cup {row}
      BY <2>3 DEF Insert
    <3>2. RowsThisMonth' \subseteq RowsThisMonth \cup {row}
      BY <2>1, <3>1 DEF RowsThisMonth, ApiRowsSince, MonthStart
    <3>3. r \in PastMonth /\ PastMonth' \subseteq PastMonth \ {r}
      BY <1>0, <2>1, <2>3 DEF PastMonth
    <3> QED BY <3>2, <3>3 DEF Allowed
  <2>4. CASE r \notin ApiRequests /\ Insert("ide")
    <3> DEFINE row == [id |-> Cardinality(SameRows("ide")), source |-> "ide", at |-> now]
    <3>1. rows' = rows \cup {row} /\ row.source = "ide"
      BY <2>4 DEF Insert
    <3> HIDE DEF row
    <3>2. RowsThisMonth' \subseteq RowsThisMonth
      BY <2>1, <3>1 DEF RowsThisMonth, ApiRowsSince, MonthStart
    <3>3. PastMonth' \subseteq PastMonth
      BY <1>0, <2>1, <2>4 DEF PastMonth
    <3> QED BY <3>2, <3>3 DEF Allowed
  <2> QED BY <1>11, <2>2, <2>3, <2>4 DEF LogExecution
<1>12. ASSUME Tick PROVE OK
  <2>1. now' = now + 1 /\ rows' = rows /\ pc' = pc /\ monthly' = monthly
    BY <1>12 DEF Tick, apiVars
  <2>2. MonthStart(now) <= MonthStart(now + 1) /\ MonthStart(now) \in Int /\ MonthStart(now + 1) \in Int
    <3>1. now - (now % MonthLength) <= (now + 1) - ((now + 1) % MonthLength)
      BY <1>0, StartMonotone
    <3>2. now % MonthLength \in Int /\ (now + 1) % MonthLength \in Int
      BY <1>0
    <3> QED BY <1>0, <3>1, <3>2 DEF MonthStart
  <2>3. \A x \in rows : x.at \in Nat
    BY <1>0 DEF TypeOK
  <2>4. RowsThisMonth' = ApiRowsSince(MonthStart(now + 1))
    BY <2>1 DEF RowsThisMonth, ApiRowsSince, MonthStart
  <2>5. RowsThisMonth' \subseteq RowsThisMonth
    BY <2>2, <2>3, <2>4 DEF RowsThisMonth, ApiRowsSince
  <2>6. PastMonth' \subseteq PastMonth
    BY <2>1 DEF PastMonth
  <2> QED BY <2>5, <2>6 DEF Allowed
<1>13. ASSUME Restart PROVE OK
  <2>1. PastMonth' \subseteq PastMonth
    BY <1>0, <1>13 DEF Restart, PastMonth, NotRead
  <2> QED BY <1>2, <1>13, <2>1 DEF Restart
<1>14. ASSUME Prune \/ UNCHANGED vars PROVE OK
  <2>1. PastMonth' \subseteq PastMonth
    BY <1>14 DEF Prune, PastMonth, vars, apiVars
  <2> QED BY <1>2, <1>14, <2>1 DEF Prune, vars
<1>15. OK
  BY <1>3, <1>4, <1>5, <1>6, <1>7, <1>8, <1>9, <1>10, <1>11, <1>12, <1>13, <1>14 DEF Next, Handle
<1>16. IsFiniteSet(RowsThisMonth) /\ PastMonth \subseteq ApiRequests /\ PastMonth' \subseteq ApiRequests
  BY <1>0, RowsFinite DEF RowsThisMonth, PastMonth, Finite
<1> HIDE DEF OK
<1>17. Cardinality(RowsThisMonth') + Cardinality(PastMonth') < MonthlyCap + Cardinality(ApiRequests)
  <2>1. MonthlyCap \in Nat
    OBVIOUS
  <2>2. Cardinality(RowsThisMonth) + Cardinality(PastMonth) < MonthlyCap + Cardinality(ApiRequests)
    BY <1>0 DEF MonthInv
  <2> QED BY <1>15, <1>16, <2>1, <2>2, Overrun DEF OK
<1> QED BY <1>17 DEF MonthInv

----------------------------------------------------------------------------
LEMMA ForgottenStep == TypeOK /\ Forgotten /\ [Next]_vars => Forgotten'
<1> SUFFICES ASSUME TypeOK, Forgotten, [Next]_vars PROVE Forgotten'
  OBVIOUS
<1>1. /\ pc \in [Requests -> Pc] /\ ApiRequests \subseteq Requests
      /\ daily \in [ApiRequests -> Nat \cup {NotRead}]
      /\ monthly \in [ApiRequests -> Nat \cup {NotRead}]
  BY DEF TypeOK, Requests
<1>2. ASSUME NEW r \in Requests, NEW state \in Pc, pc[r] # "counting",
             pc' = [pc EXCEPT ![r] = state], UNCHANGED <<daily, monthly>>
      PROVE  Forgotten'
  BY <1>1, <1>2 DEF Forgotten
<1>3. ASSUME NEW r \in Requests, NEW state \in Pc, ForgetCounts(r), pc' = [pc EXCEPT ![r] = state]
      PROVE  Forgotten'
  BY <1>1, <1>3 DEF Forgotten, ForgetCounts
<1>4. ASSUME NEW r \in Requests, CountDay(r) \/ CountMonth(r) PROVE Forgotten'
  BY <1>1, <1>4 DEF CountDay, CountMonth, Forgotten
<1>5. ASSUME NEW r \in Requests, Admit(r) \/ QueryFails(r) PROVE Forgotten'
  BY <1>3, <1>5 DEF Admit, QueryFails, Goto, Pc
<1>6. ASSUME NEW r \in Requests, Arrive(r) \/ ResolveKey(r) PROVE Forgotten'
  BY <1>2, <1>6 DEF Arrive, ResolveKey, Goto, Pc, apiVars
<1>7. ASSUME NEW r \in Requests, ResolveSession(r) PROVE Forgotten'
  BY <1>2, <1>7 DEF ResolveSession, CallLimiter, Goto, Pc, apiVars
<1>8. ASSUME NEW r \in Requests,
             WorkerUnreachable(r) \/ WorkerEnds(r) \/ StreamBreaks(r) \/ LogExecution(r)
      PROVE  Forgotten'
  BY <1>2, <1>8 DEF WorkerUnreachable, WorkerEnds, StreamBreaks, LogExecution, Goto, Pc, apiVars
<1>9. ASSUME Prune \/ Tick \/ UNCHANGED vars PROVE Forgotten'
  BY <1>9 DEF Prune, Tick, vars, apiVars, Forgotten
<1>10. ASSUME Restart PROVE Forgotten'
  BY <1>10 DEF Restart, Forgotten
<1> QED BY <1>4, <1>5, <1>6, <1>7, <1>8, <1>9, <1>10 DEF Next, Handle

\* At the start nothing is counted, nobody is past a cap.
LEMMA InitInv == Init => IInv
<1> SUFFICES ASSUME Init PROVE IInv
  OBVIOUS
<1>1. TypeOK
  BY TypeInit
<1>2. rows = {} /\ hits = {} /\ admitted = {} /\ now = 0
  BY DEF Init
<1>3. Finite /\ Forgotten /\ Remembered
  BY <1>2, FS_EmptySet DEF Finite, Init, Forgotten, Remembered
<1>4. RowsToday = {} /\ RowsThisMonth = {} /\ PastDay = {} /\ PastMonth = {}
  BY DEF Init, RowsToday, RowsThisMonth, ApiRowsSince, PastDay, PastMonth, Requests
<1>5. Cardinality({}) = 0
  BY FS_EmptySet
<1>6. Cardinality(ApiRequests) \in Nat /\ DailyCap \in Nat \ {0} /\ MonthlyCap \in Nat \ {0}
      /\ RateLimit \in Nat
  BY ExecutionAssumption, CardNat DEF ExecutionAssumption
<1>7. DayInv /\ MonthInv
  BY <1>4, <1>5, <1>6 DEF DayInv, MonthInv
<1>8. RateBound
  <2>1. ASSUME NEW t \in 0..now
        PROVE  {a \in admitted : a.at <= t /\ t - a.at < Window} = {}
    BY <1>2
  <2> QED BY <1>5, <1>6, <2>1 DEF RateBound
<1> QED BY <1>1, <1>3, <1>7, <1>8 DEF IInv

\* The inductive invariant behind the three theorems.
THEOREM Invariance == Spec => []IInv
<1>1. Init => IInv
  BY InitInv
<1>2. IInv /\ [Next]_vars => IInv'
  BY TypeStep, ForgottenStep, DayStep, MonthStep, RateStep DEF IInv
<1> QED BY <1>1, <1>2, PTL DEF Spec

\* Every variable of the two execution routes keeps its type.
THEOREM TypeCorrect == Spec => []TypeOK
<1>1. IInv => TypeOK
  BY DEF IInv
<1> QED BY <1>1, Invariance, PTL

\* Overlapping /v1/execute requests pass a cap by fewer runs than may overlap.
THEOREM OverrunAlwaysBounded == Spec => []OverrunBounded
<1>1. IInv => OverrunBounded
  <2> SUFFICES ASSUME IInv PROVE OverrunBounded
    OBVIOUS
  <2>1. IsFiniteSet(PastDay) /\ IsFiniteSet(PastMonth)
    <3>1. PastDay \subseteq ApiRequests /\ PastMonth \subseteq ApiRequests
      BY DEF PastDay, PastMonth
    <3> QED BY <3>1, FS_Subset, ExecutionAssumption DEF ExecutionAssumption
  <2>2. IsFiniteSet(RowsToday) /\ IsFiniteSet(RowsThisMonth)
    BY RowsFinite DEF IInv, Finite, RowsToday, RowsThisMonth
  <2>3. Cardinality(PastDay) \in Nat /\ Cardinality(PastMonth) \in Nat
    BY <2>1, CardNat
  <2>4. Cardinality(RowsToday) \in Nat /\ Cardinality(RowsThisMonth) \in Nat
    BY <2>2, CardNat
  <2>5. Cardinality(ApiRequests) \in Nat /\ DailyCap \in Nat /\ MonthlyCap \in Nat
    BY ExecutionAssumption, CardNat DEF ExecutionAssumption
  <2>6. DayInv /\ MonthInv
    BY DEF IInv
  <2>7. Cardinality(RowsToday) < DailyCap + Cardinality(ApiRequests)
    BY <2>3, <2>4, <2>5, <2>6 DEF DayInv
  <2>8. Cardinality(RowsThisMonth) < MonthlyCap + Cardinality(ApiRequests)
    BY <2>3, <2>4, <2>5, <2>6 DEF MonthInv
  <2> QED BY <2>7, <2>8 DEF OverrunBounded, RowsToday, RowsThisMonth
<1> QED BY <1>1, Invariance, PTL

\* No window of a minute holds more admitted IDE runs than the limit.
THEOREM RateAlwaysBounded == Spec => []RateBound
<1>1. IInv => RateBound
  BY DEF IInv
<1> QED BY <1>1, Invariance, PTL

----------------------------------------------------------------------------
(***************************************************************************)
(* RefusedOnlyAtCap.  The refusal is decided on counts that are read after *)
(* the request arrived and before rows that are written meanwhile, and     *)
(* perhaps on another day.  Rows are never deleted and a day never starts  *)
(* earlier, so a count that was read stays a lower bound of the rows since *)
(* the request's own day (CountsReal).                                     *)
(***************************************************************************)
StartedBefore(r) ==
  DayStart(asked[r]) <= DayStart(now) /\ MonthStart(asked[r]) <= MonthStart(now)

CountsReal(r) ==
  /\ daily[r] # NotRead => daily[r] <= ApiRunsSince(DayStart(asked[r]))
  /\ monthly[r] # NotRead => monthly[r] <= ApiRunsSince(MonthStart(asked[r]))

Refused(r) ==
  \/ ApiRunsSince(DayStart(asked[r])) >= DailyCap
  \/ ApiRunsSince(MonthStart(asked[r])) >= MonthlyCap

RefusalInv ==
  \A r \in ApiRequests :
    StartedBefore(r) /\ CountsReal(r) /\ (pc[r] = "limited" => Refused(r))

\* Runs since an earlier time, and of a table that has grown, are no fewer.
LEMMA RunsGrow ==
  ASSUME NEW t \in Int, NEW u \in Int, u <= t, Finite, TypeOK, Finite', TypeOK', rows \subseteq rows'
  PROVE  /\ ApiRunsSince(t) \in Nat /\ ApiRunsSince(u) \in Nat /\ ApiRunsSince(u)' \in Nat
         /\ ApiRunsSince(t) <= ApiRunsSince(u)
         /\ ApiRunsSince(u) <= ApiRunsSince(u)'
<1> DEFINE since(v) == {x \in rows : x.source = "api" /\ x.at >= v}
<1>1. IsFiniteSet(since(t)) /\ IsFiniteSet(since(u)) /\ IsFiniteSet(since(u)')
  BY FS_Subset DEF Finite
<1>2. since(t) \subseteq since(u) /\ since(u) \subseteq since(u)'
  BY DEF TypeOK
<1>3. /\ Cardinality(since(t)) \in Nat /\ Cardinality(since(u)) \in Nat
      /\ Cardinality(since(u)') \in Nat
  BY <1>1, CardNat
<1>4. Cardinality(since(t)) <= Cardinality(since(u)) /\ Cardinality(since(u)) <= Cardinality(since(u)')
  BY <1>1, <1>2, FS_Subset
<1> QED BY <1>3, <1>4 DEF ApiRunsSince

\* What a request has been told, and what it has read, stays true as the table
\* and the clock go on.
LEMMA RefusalKept ==
  ASSUME IInv, IInv', RefusalInv, NEW r \in ApiRequests,
         rows \subseteq rows', asked'[r] = asked[r], StartedBefore(r)',
         daily'[r] \in {daily[r], NotRead}, monthly'[r] \in {monthly[r], NotRead},
         pc'[r] = "limited" => Refused(r)
  PROVE  StartedBefore(r)' /\ CountsReal(r)' /\ (pc'[r] = "limited" => Refused(r)')
<1>1. asked[r] \in Nat /\ DayStart(asked[r]) \in Int /\ MonthStart(asked[r]) \in Int
  BY ExecutionAssumption DEF IInv, TypeOK, DayStart, MonthStart, ExecutionAssumption
<1>2. PICK d \in Int, m \in Int : d = DayStart(asked[r]) /\ m = MonthStart(asked[r])
  BY <1>1
<1>3. /\ ApiRunsSince(d) \in Nat /\ ApiRunsSince(d)' \in Nat /\ ApiRunsSince(d) <= ApiRunsSince(d)'
      /\ ApiRunsSince(m) \in Nat /\ ApiRunsSince(m)' \in Nat /\ ApiRunsSince(m) <= ApiRunsSince(m)'
  <2>1. Finite /\ TypeOK /\ Finite' /\ TypeOK' /\ d <= d /\ m <= m
    BY DEF IInv
  <2> QED BY <2>1, RunsGrow
<1>4. ApiRunsSince(DayStart(asked[r]))' = ApiRunsSince(d)' /\ ApiRunsSince(MonthStart(asked[r]))' = ApiRunsSince(m)'
  BY <1>2 DEF ApiRunsSince, DayStart, MonthStart
<1>5. daily[r] \in Nat \cup {NotRead} /\ monthly[r] \in Nat \cup {NotRead}
  BY DEF IInv, TypeOK
<1>6. CountsReal(r)'
  BY <1>2, <1>3, <1>4, <1>5 DEF RefusalInv, CountsReal, NotRead
<1>7. pc'[r] = "limited" => Refused(r)'
  BY <1>2, <1>3, <1>4, ExecutionAssumption DEF Refused, ExecutionAssumption
<1> QED BY <1>6, <1>7

\* A step that leaves the arrivals and the clock alone.
LEMMA SameDay ==
  ASSUME RefusalInv, NEW r \in ApiRequests, UNCHANGED <<now, asked>>
  PROVE  StartedBefore(r)' /\ asked'[r] = asked[r]
  BY DEF RefusalInv, StartedBefore, DayStart, MonthStart

\* The steps of one request: what they do to the requests, one by one.
LEMMA RefusalHandle ==
  ASSUME IInv, IInv', RefusalInv, NEW q \in Requests, Handle(q)
  PROVE  RefusalInv'
<1> USE ExecutionAssumption DEF ExecutionAssumption
<1>0. /\ TypeOK /\ Finite /\ Forgotten /\ TypeOK' /\ Finite' /\ Forgotten'
      /\ pc \in [Requests -> Pc] /\ daily \in [ApiRequests -> Nat \cup {NotRead}]
      /\ monthly \in [ApiRequests -> Nat \cup {NotRead}] /\ asked \in [ApiRequests -> Nat]
      /\ now \in Nat /\ ApiRequests \subseteq Requests
  BY DEF IInv, TypeOK, Requests
<1> SUFFICES ASSUME NEW r \in ApiRequests
             PROVE  StartedBefore(r)' /\ CountsReal(r)' /\ (pc'[r] = "limited" => Refused(r)')
  BY DEF RefusalInv
<1>1. CASE Arrive(q)
  <2>1. rows' = rows /\ now' = now /\ daily' = daily /\ monthly' = monthly
    BY <1>1 DEF Arrive
  <2>2. CASE q = r
    <3>1. asked'[r] = now /\ pc[r] # "counting" /\ pc'[r] = "auth"
      BY <1>0, <1>1, <2>2 DEF Arrive, Goto
    <3>2. daily'[r] = NotRead /\ monthly'[r] = NotRead
      BY <1>0, <2>1, <3>1 DEF Forgotten
    <3>3. StartedBefore(r)'
      <4>1. DayStart(asked[r])' = DayStart(now)' /\ MonthStart(asked[r])' = MonthStart(now)'
        BY <2>1, <3>1 DEF DayStart, MonthStart
      <4>2. DayStart(now)' \in Int /\ MonthStart(now)' \in Int
        BY <1>0, <2>1 DEF DayStart, MonthStart
      <4> QED BY <4>1, <4>2 DEF StartedBefore
    <3> QED BY <3>1, <3>2, <3>3 DEF CountsReal
  <2>3. CASE q # r
    <3>1. asked'[r] = asked[r] /\ pc'[r] = pc[r]
      BY <1>0, <1>1, <2>3 DEF Arrive, Goto
    <3>2. StartedBefore(r)'
      BY <2>1, <3>1 DEF RefusalInv, StartedBefore, DayStart, MonthStart
    <3> QED BY <2>1, <3>1, <3>2, RefusalKept DEF RefusalInv
  <2> QED BY <2>2, <2>3
<1>2. CASE CountDay(q)
  <2>1. rows' = rows /\ now' = now /\ asked' = asked /\ pc' = pc /\ monthly' = monthly
    BY <1>2 DEF CountDay
  <2>2. StartedBefore(r)' /\ asked'[r] = asked[r]
    BY <2>1, SameDay
  <2>3. CASE q # r
    <3>1. daily'[r] = daily[r]
      BY <1>0, <1>2, <2>3 DEF CountDay
    <3> QED BY <2>1, <2>2, <3>1, RefusalKept DEF RefusalInv
  <2>4. CASE q = r
    <3>1. daily'[r] = ApiRunsSince(DayStart(now)) /\ pc[r] = "counting"
      BY <1>0, <1>2, <2>4 DEF CountDay, ApiRowsSince, ApiRunsSince
    <3>2. PICK t \in Int, u \in Int : t = DayStart(now) /\ u = DayStart(asked[r])
      <4>1. asked[r] \in Nat
        BY <1>0
      <4>2. DayStart(now) \in Int /\ DayStart(asked[r]) \in Int
        BY <1>0, <4>1 DEF DayStart
      <4> QED BY <4>2
    <3>3. u <= t
      BY <3>2 DEF RefusalInv, StartedBefore
    <3>4. ApiRunsSince(t) <= ApiRunsSince(u)
      BY <1>0, <2>1, <3>3, RunsGrow
    <3>5. ApiRunsSince(DayStart(asked[r]))' = ApiRunsSince(u)
      BY <2>1, <3>2 DEF ApiRunsSince, DayStart
    <3>6. daily'[r] <= ApiRunsSince(DayStart(asked[r]))'
      BY <3>1, <3>2, <3>4, <3>5
    <3>7. ApiRunsSince(MonthStart(asked[r]))' = ApiRunsSince(MonthStart(asked[r]))
      BY <2>1 DEF ApiRunsSince, MonthStart
    <3>8. monthly'[r] # NotRead => monthly'[r] <= ApiRunsSince(MonthStart(asked[r]))'
      BY <2>1, <3>7 DEF RefusalInv, CountsReal
    <3> QED BY <2>1, <2>2, <3>1, <3>6, <3>8 DEF CountsReal
  <2> QED BY <2>3, <2>4
<1>3. CASE CountMonth(q)
  <2>1. rows' = rows /\ now' = now /\ asked' = asked /\ pc' = pc /\ daily' = daily
    BY <1>3 DEF CountMonth
  <2>2. StartedBefore(r)' /\ asked'[r] = asked[r]
    BY <2>1, SameDay
  <2>3. CASE q # r
    <3>1. monthly'[r] = monthly[r]
      BY <1>0, <1>3, <2>3 DEF CountMonth
    <3> QED BY <2>1, <2>2, <3>1, RefusalKept DEF RefusalInv
  <2>4. CASE q = r
    <3>1. monthly'[r] = ApiRunsSince(MonthStart(now)) /\ pc[r] = "counting"
      BY <1>0, <1>3, <2>4 DEF CountMonth, ApiRowsSince, ApiRunsSince
    <3>2. PICK t \in Int, u \in Int : t = MonthStart(now) /\ u = MonthStart(asked[r])
      <4>1. asked[r] \in Nat
        BY <1>0
      <4>2. MonthStart(now) \in Int /\ MonthStart(asked[r]) \in Int
        BY <1>0, <4>1 DEF MonthStart
      <4> QED BY <4>2
    <3>3. u <= t
      BY <3>2 DEF RefusalInv, StartedBefore
    <3>4. ApiRunsSince(t) <= ApiRunsSince(u)
      BY <1>0, <2>1, <3>3, RunsGrow
    <3>5. ApiRunsSince(MonthStart(asked[r]))' = ApiRunsSince(u)
      BY <2>1, <3>2 DEF ApiRunsSince, MonthStart
    <3>6. monthly'[r] <= ApiRunsSince(MonthStart(asked[r]))'
      BY <3>1, <3>2, <3>4, <3>5
    <3>7. ApiRunsSince(DayStart(asked[r]))' = ApiRunsSince(DayStart(asked[r]))
      BY <2>1 DEF ApiRunsSince, DayStart
    <3>8. daily'[r] # NotRead => daily'[r] <= ApiRunsSince(DayStart(asked[r]))'
      BY <2>1, <3>7 DEF RefusalInv, CountsReal
    <3> QED BY <2>1, <2>2, <3>1, <3>6, <3>8 DEF CountsReal
  <2> QED BY <2>3, <2>4
<1>4. CASE Admit(q)
  <2>1. rows' = rows /\ now' = now /\ asked' = asked
    BY <1>4 DEF Admit
  <2>2. StartedBefore(r)' /\ asked'[r] = asked[r]
    BY <2>1, SameDay
  <2>3. daily'[r] \in {daily[r], NotRead} /\ monthly'[r] \in {monthly[r], NotRead}
    BY <1>4 DEF Admit, ForgetCounts
  <2>4. pc'[r] = "limited" => pc[r] = "limited" \/ (q = r /\ OverCap(r))
    BY <1>0, <1>4 DEF Admit, Goto
  <2>5. ASSUME q = r, OverCap(r) PROVE Refused(r)
    <3>1. daily[r] \in Nat /\ monthly[r] \in Nat /\ daily[r] # NotRead /\ monthly[r] # NotRead
      BY <1>0, <1>4, <2>5 DEF Admit
    <3>2. daily[r] <= ApiRunsSince(DayStart(asked[r])) /\ monthly[r] <= ApiRunsSince(MonthStart(asked[r]))
      BY <3>1 DEF RefusalInv, CountsReal
    <3>3. ApiRunsSince(DayStart(asked[r])) \in Nat /\ ApiRunsSince(MonthStart(asked[r])) \in Nat
      <4>1. PICK d \in Int, m \in Int : d = DayStart(asked[r]) /\ m = MonthStart(asked[r])
        BY <1>0 DEF DayStart, MonthStart
      <4>2. ApiRunsSince(d) \in Nat /\ ApiRunsSince(m) \in Nat
        BY <1>0, <2>1, RunsGrow
      <4> QED BY <4>1, <4>2
    <3> QED BY <2>5, <3>1, <3>2, <3>3 DEF OverCap, Refused
  <2>6. pc'[r] = "limited" => Refused(r)
    BY <2>4, <2>5 DEF RefusalInv
  <2> QED BY <2>1, <2>2, <2>3, <2>6, RefusalKept
<1>5. CASE LogExecution(q)
  <2>1. rows \subseteq rows' /\ now' = now /\ asked' = asked /\ daily' = daily /\ monthly' = monthly
    BY <1>5 DEF LogExecution, Insert, apiVars
  <2>2. pc'[r] = "limited" => pc[r] = "limited"
    BY <1>0, <1>5 DEF LogExecution, Goto
  <2>3. StartedBefore(r)' /\ asked'[r] = asked[r]
    BY <2>1, SameDay
  <2> QED BY <2>1, <2>2, <2>3, RefusalKept DEF RefusalInv
<1>6. CASE QueryFails(q)
  <2>1. /\ rows' = rows /\ now' = now /\ asked' = asked
        /\ daily'[r] \in {daily[r], NotRead} /\ monthly'[r] \in {monthly[r], NotRead}
    BY <1>6 DEF QueryFails, ForgetCounts
  <2>2. pc'[r] = "limited" => pc[r] = "limited"
    BY <1>0, <1>6 DEF QueryFails, Goto
  <2>3. StartedBefore(r)' /\ asked'[r] = asked[r]
    BY <2>1, SameDay
  <2> QED BY <2>1, <2>2, <2>3, RefusalKept DEF RefusalInv
<1>7. CASE \/ ResolveKey(q) \/ ResolveSession(q) \/ WorkerUnreachable(q) \/ WorkerEnds(q) \/ StreamBreaks(q)
  <2>1. rows' = rows /\ now' = now /\ asked' = asked /\ daily' = daily /\ monthly' = monthly
    BY <1>7 DEF ResolveKey, ResolveSession, WorkerUnreachable, WorkerEnds, StreamBreaks, apiVars
  <2>2. pc'[r] = "limited" => pc[r] = "limited"
    <3>1. CASE ResolveSession(q)
      <4>1. \E state \in Pc : pc' = [pc EXCEPT ![q] = state]
        BY <3>1 DEF ResolveSession, CallLimiter, Goto, Pc
      <4>2. q # r
        BY <3>1 DEF ResolveSession
      <4> QED BY <1>0, <4>1, <4>2
    <3>2. CASE ResolveKey(q) \/ WorkerUnreachable(q) \/ WorkerEnds(q) \/ StreamBreaks(q)
      BY <1>0, <3>2 DEF ResolveKey, WorkerUnreachable, WorkerEnds, StreamBreaks, Goto
    <3> QED BY <1>7, <3>1, <3>2
  <2>3. StartedBefore(r)' /\ asked'[r] = asked[r]
    BY <2>1, SameDay
  <2> QED BY <2>1, <2>2, <2>3, RefusalKept DEF RefusalInv
<1> QED BY <1>1, <1>2, <1>3, <1>4, <1>5, <1>6, <1>7 DEF Handle

LEMMA RefusalStep == IInv /\ IInv' /\ RefusalInv /\ [Next]_vars => RefusalInv'
<1> SUFFICES ASSUME IInv, IInv', RefusalInv, [Next]_vars PROVE RefusalInv'
  OBVIOUS
<1> USE ExecutionAssumption DEF ExecutionAssumption
<1>1. ASSUME NEW q \in Requests, Handle(q) PROVE RefusalInv'
  BY <1>1, RefusalHandle
<1>2. CASE Prune \/ Restart \/ UNCHANGED vars
  <2> SUFFICES ASSUME NEW r \in ApiRequests
               PROVE  StartedBefore(r)' /\ CountsReal(r)' /\ (pc'[r] = "limited" => Refused(r)')
    BY DEF RefusalInv
  <2>1. rows' = rows /\ now' = now /\ asked' = asked
    BY <1>2 DEF Prune, Restart, vars, apiVars
  <2>2. /\ daily'[r] \in {daily[r], NotRead} /\ monthly'[r] \in {monthly[r], NotRead}
        /\ (pc'[r] = "limited" => pc[r] = "limited")
    BY <1>2 DEF Prune, Restart, vars, apiVars, Requests
  <2>3. StartedBefore(r)' /\ asked'[r] = asked[r]
    BY <2>1, SameDay
  <2> QED BY <2>1, <2>2, <2>3, RefusalKept DEF RefusalInv
<1>3. CASE Tick
  <2> SUFFICES ASSUME NEW r \in ApiRequests
               PROVE  StartedBefore(r)' /\ CountsReal(r)' /\ (pc'[r] = "limited" => Refused(r)')
    BY DEF RefusalInv
  <2>1. rows' = rows /\ now' = now + 1 /\ asked' = asked /\ daily' = daily /\ monthly' = monthly /\ pc' = pc
    BY <1>3 DEF Tick, apiVars
  <2>2. now \in Nat /\ asked[r] \in Nat
    BY DEF IInv, TypeOK
  <2>3. /\ now - (now % DayLength) <= (now + 1) - ((now + 1) % DayLength)
        /\ now - (now % MonthLength) <= (now + 1) - ((now + 1) % MonthLength)
    BY <2>2, StartMonotone
  <2>4. StartedBefore(r)'
    BY <2>1, <2>2, <2>3 DEF RefusalInv, StartedBefore, DayStart, MonthStart
  <2> QED BY <2>1, <2>4, RefusalKept DEF RefusalInv
<1> QED BY <1>1, <1>2, <1>3 DEF Next

\* A key that is refused for its caps had used them up, in the day or the month
\* it asked in: its counts were read by itself, of the API's rows alone, and
\* neither a row written late nor a change of day can make them too high.
THEOREM RefusalAlwaysJustified == Spec => []RefusedOnlyAtCap
<1>1. Init => RefusalInv
  BY ExecutionAssumption
  DEF Init, RefusalInv, StartedBefore, CountsReal, Refused, DayStart, MonthStart, ExecutionAssumption, Requests
<1>2. IInv /\ IInv' /\ RefusalInv /\ [Next]_vars => RefusalInv'
  BY RefusalStep
<1>3. RefusalInv => RefusedOnlyAtCap
  BY DEF RefusalInv, Refused, RefusedOnlyAtCap
<1> QED BY <1>1, <1>2, <1>3, Invariance, PTL DEF Spec
=============================================================================
