---------------------------- MODULE ExecutionApi ----------------------------
(***************************************************************************)
(* apps/api: the two ways to run code in the cloud, interleaved at every   *)
(* await.  POST /v1/execute is for API keys and capped per day and month   *)
(* by counting rows of `executions`; POST /api/execute is for the signed-  *)
(* in IDE and limited by an in-memory sliding window.  One account on a    *)
(* deployment with a database; the clock counts abstract ticks.            *)
(***************************************************************************)
EXTENDS Integers, FiniteSets

CONSTANTS
  ApiRequests,  \* /v1/execute requests that may be in progress at once
  IdeRequests,  \* /api/execute requests that may be in progress at once
  DailyCap,     \* DAILY_EXECUTION_CAP
  MonthlyCap,   \* MONTHLY_EXECUTION_CAP
  DayLength,    \* ticks between two values of date_trunc('day', now())
  MonthLength,  \* ticks between two values of date_trunc('month', now())
  RateLimit,    \* EXECUTE_LIMIT_PER_MINUTE
  Window,       \* the minute
  MaxTime,      \* bound on the clock
  MaxCalls,     \* bound on calls of isRateLimited in one tick
  MaxIdeRows    \* bound on IDE rows that requests still arrive after

ASSUME ExecutionAssumption ==
  /\ ApiRequests \cap IdeRequests = {}
  /\ IsFiniteSet(ApiRequests)
  /\ DailyCap \in Nat \ {0} /\ MonthlyCap \in Nat \ {0}
  /\ DayLength \in Nat \ {0} /\ MonthLength \in Nat \ {0}
  /\ RateLimit \in Nat /\ Window \in Nat \ {0}
  /\ MaxTime \in Nat /\ MaxCalls \in Nat /\ MaxIdeRows \in Nat

VARIABLES
  now,
  pc,        \* where each request is
  asked,     \* history: when each /v1/execute request arrived, until it has passed the caps
  daily,     \* the daily count each /v1/execute request has read, or NotRead
  monthly,   \* the monthly count, or NotRead
  rows,      \* the executions table
  hits,      \* the limiter's timestamps for this account
  admitted   \* history: the calls this process let through

limiterVars == <<hits, admitted>>
apiVars == <<asked, daily, monthly>>
vars == <<now, pc, apiVars, rows, limiterVars>>

Requests == ApiRequests \cup IdeRequests

\* "limited" is a 429; every other answer, and a request lost with its process,
\* leaves the request as if it had not been made: "idle".
Pc == {"idle", "auth", "counting", "worker", "log", "limited"}
NotRead == -1
Goto(r, state) == pc' = [pc EXCEPT ![r] = state]

----------------------------------------------------------------------------
(* usage.ts *)

DayStart(t) == t - (t % DayLength)
MonthStart(t) == t - (t % MonthLength)

\* Mutant: the source column is not looked at.
ApiRowsSince_AnySource(t) == {x \in rows : x.at >= t}

\* Only API-key runs count toward the API caps.
ApiRowsSince(t) == {x \in rows : x.source = "api" /\ x.at >= t}

SameRows(source) == {x \in rows : x.source = source /\ x.at = now}

\* Mutant: created_at is written by a clock one zone behind.
Insert_OtherClock(source) ==
  rows' = rows \cup {[id |-> Cardinality(SameRows(source)), source |-> source, at |-> now - 1]}

\* INSERT INTO executions, created_at being the time of the insert.
Insert(source) ==
  rows' = rows \cup {[id |-> Cardinality(SameRows(source)), source |-> source, at |-> now]}

----------------------------------------------------------------------------
(* rate-limit.ts *)

\* Mutant: the window is halved.
Recent_HalfWindow(S) == {h \in S : 2 * (now - h.at) < Window}

Recent(S) == {h \in S : now - h.at < Window}

\* Whether the calls of S, this one included, are too many.
Limited(S) == Cardinality(S) > RateLimit

\* isRateLimited records the call whatever the answer is.
CallLimiter(r) ==
  LET calls == Cardinality({h \in hits : h.at = now})
      hit == [id |-> calls, at |-> now]
      recent == Recent(hits) \cup {hit}
  IN  /\ calls < MaxCalls
      /\ hits' = recent
      /\ \/ Limited(recent) /\ Goto(r, "limited") /\ UNCHANGED admitted
         \/ ~Limited(recent) /\ Goto(r, "worker") /\ admitted' = admitted \cup {hit}

\* pruneRateLimitState, once a minute.
Prune ==
  /\ hits' = Recent(hits)
  /\ UNCHANGED <<now, pc, apiVars, rows, admitted>>

----------------------------------------------------------------------------
(* POST /v1/execute *)

Arrive(r) ==
  /\ pc[r] \in {"idle", "limited"}
  /\ r \in IdeRequests => Cardinality({x \in rows : x.source = "ide"}) < MaxIdeRows
  /\ Goto(r, "auth")
  /\ asked' = IF r \in ApiRequests THEN [asked EXCEPT ![r] = now] ELSE asked
  /\ UNCHANGED <<now, daily, monthly, rows, limiterVars>>

\* resolveApiKey: no key, an unknown key or a revoked one is a 401.
ResolveKey(r) ==
  /\ r \in ApiRequests /\ pc[r] = "auth"
  /\ Goto(r, "idle") \/ Goto(r, "counting")
  /\ UNCHANGED <<now, apiVars, rows, limiterVars>>

\* The counts are local to assertWithinUsageCaps.
ForgetCounts(r) ==
  /\ daily' = [q \in ApiRequests |-> IF q = r THEN NotRead ELSE daily[q]]
  /\ monthly' = [q \in ApiRequests |-> IF q = r THEN NotRead ELSE monthly[q]]

\* The two counts of assertWithinUsageCaps are queried at the same time and
\* answered in any order.
CountDay(r) ==
  /\ r \in ApiRequests /\ pc[r] = "counting" /\ daily[r] = NotRead
  /\ daily' = [daily EXCEPT ![r] = Cardinality(ApiRowsSince(DayStart(now)))]
  /\ UNCHANGED <<now, pc, asked, monthly, rows, limiterVars>>

CountMonth(r) ==
  /\ r \in ApiRequests /\ pc[r] = "counting" /\ monthly[r] = NotRead
  /\ monthly' = [monthly EXCEPT ![r] = Cardinality(ApiRowsSince(MonthStart(now)))]
  /\ UNCHANGED <<now, pc, asked, daily, rows, limiterVars>>

\* Mutant: the cap itself is still allowed.
OverCap_OffByOne(r) == daily[r] > DailyCap \/ monthly[r] > MonthlyCap

OverCap(r) == daily[r] >= DailyCap \/ monthly[r] >= MonthlyCap

\* Both counts are in: over a cap, or a bad language, filename or source, or
\* on to the worker.
Admit(r) ==
  /\ r \in ApiRequests /\ pc[r] = "counting"
  /\ daily[r] # NotRead /\ monthly[r] # NotRead
  /\ \/ OverCap(r) /\ Goto(r, "limited")
     \/ ~OverCap(r) /\ (Goto(r, "idle") \/ Goto(r, "worker"))
  /\ ForgetCounts(r)
  /\ UNCHANGED <<now, asked, rows, limiterVars>>

\* A SELECT rejects: Express answers 500.
QueryFails(r) ==
  /\ pc[r] \in {"auth", "counting"}
  /\ Goto(r, "idle")
  /\ ForgetCounts(r)
  /\ UNCHANGED <<now, asked, rows, limiterVars>>

----------------------------------------------------------------------------
(* POST /api/execute *)

\* resolveSession, then the limiter in the same turn of the event loop.
ResolveSession(r) ==
  /\ r \in IdeRequests /\ pc[r] = "auth"
  /\ \/ Goto(r, "idle") /\ UNCHANGED limiterVars
     \/ CallLimiter(r)
  /\ UNCHANGED <<now, apiVars, rows>>

----------------------------------------------------------------------------
(* Both: the worker's answer and the row *)

\* fetch rejects.
WorkerUnreachable(r) ==
  /\ pc[r] = "worker"
  /\ Goto(r, "idle")
  /\ UNCHANGED <<now, apiVars, rows, limiterVars>>

\* The stream ends.  The IDE's route logs only a run the worker accepted.
WorkerEnds(r) ==
  /\ pc[r] = "worker"
  /\ \/ Goto(r, "log")
     \/ r \in IdeRequests /\ Goto(r, "idle")
  /\ UNCHANGED <<now, apiVars, rows, limiterVars>>

\* reader.read() rejects half way: the run happened, no row is written.
StreamBreaks(r) ==
  /\ pc[r] = "worker"
  /\ Goto(r, "idle")
  /\ UNCHANGED <<now, apiVars, rows, limiterVars>>

\* logExecution; its failure is swallowed, and may be the failure of an INSERT
\* that was committed.
LogExecution(r) ==
  /\ pc[r] = "log"
  /\ \/ Insert(IF r \in ApiRequests THEN "api" ELSE "ide")
     \/ UNCHANGED rows
  /\ Goto(r, "idle")
  /\ UNCHANGED <<now, apiVars, limiterVars>>

----------------------------------------------------------------------------
Tick ==
  /\ now < MaxTime
  /\ now' = now + 1
  /\ UNCHANGED <<pc, apiVars, rows, limiterVars>>

\* The process is replaced: requests in progress are lost and so is the limiter.
Restart ==
  /\ pc' = [r \in Requests |-> IF pc[r] = "limited" THEN "limited" ELSE "idle"]
  /\ daily' = [r \in ApiRequests |-> NotRead]
  /\ monthly' = [r \in ApiRequests |-> NotRead]
  /\ hits' = {}
  /\ admitted' = {}
  /\ UNCHANGED <<now, asked, rows>>

Init ==
  /\ now = 0
  /\ pc = [r \in Requests |-> "idle"]
  /\ asked = [r \in ApiRequests |-> 0]
  /\ daily = [r \in ApiRequests |-> NotRead]
  /\ monthly = [r \in ApiRequests |-> NotRead]
  /\ rows = {}
  /\ hits = {}
  /\ admitted = {}

Handle(r) ==
  \/ Arrive(r) \/ ResolveKey(r) \/ CountDay(r) \/ CountMonth(r) \/ Admit(r) \/ QueryFails(r)
  \/ ResolveSession(r) \/ WorkerUnreachable(r) \/ WorkerEnds(r) \/ StreamBreaks(r) \/ LogExecution(r)

Next == (\E r \in Requests : Handle(r)) \/ Prune \/ Tick \/ Restart

Spec == Init /\ [][Next]_vars

----------------------------------------------------------------------------
TypeOK ==
  /\ now \in Nat
  /\ pc \in [Requests -> Pc]
  /\ asked \in [ApiRequests -> Nat]
  /\ daily \in [ApiRequests -> Nat \cup {NotRead}]
  /\ monthly \in [ApiRequests -> Nat \cup {NotRead}]
  /\ rows \subseteq [id : Nat, source : {"api", "ide"}, at : Nat]
  /\ hits \subseteq [id : Nat, at : Nat]
  /\ admitted \subseteq [id : Nat, at : Nat]

\* The caps are checked before a run and counted after it, so requests that
\* overlap can pass them together: by fewer runs than may overlap, never more,
\* whatever is logged late, on the next day or in the next month.
OverrunBounded ==
  /\ Cardinality(ApiRowsSince(DayStart(now))) < DailyCap + Cardinality(ApiRequests)
  /\ Cardinality(ApiRowsSince(MonthStart(now))) < MonthlyCap + Cardinality(ApiRequests)

ApiRunsSince(t) == Cardinality({x \in rows : x.source = "api" /\ x.at >= t})

\* A key is refused for its caps only when the account's API runs of that day
\* or month, as of the request's arrival, do reach them: IDE runs never use up
\* the allowance of a key.
RefusedOnlyAtCap ==
  \A r \in ApiRequests : pc[r] = "limited" =>
    \/ ApiRunsSince(DayStart(asked[r])) >= DailyCap
    \/ ApiRunsSince(MonthStart(asked[r])) >= MonthlyCap

\* In no window of a minute does a process start more IDE runs than the limit,
\* although refused calls, prunes and clock ticks change what is remembered.
RateBound ==
  \A t \in 0..now : Cardinality({a \in admitted : a.at <= t /\ t - a.at < Window}) <= RateLimit
=============================================================================
