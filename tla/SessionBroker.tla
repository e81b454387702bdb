---------------------------- MODULE SessionBroker ----------------------------
(***************************************************************************)
(* The VS Code session broker (apps/session-broker): POST /api/sessions,   *)
(* the 30 s reaper and the End-session handler, interleaved at every await *)
(* that reads or writes the `sessions` table or calls ECS.                 *)
(*                                                                         *)
(* A launch request r stands for the handler, for the container (ECS task) *)
(* it may start and for the `sessions` row it may insert: all three are    *)
(* created at most once per request.  Time is counted in abstract ticks    *)
(* (the code's 15 minutes are SessionLength ticks, its 30 minutes are      *)
(* DailyCap ticks, a calendar day is DayLength ticks).                     *)
(***************************************************************************)
EXTENDS Integers, FiniteSetsExt

CONSTANTS
  Requests,       \* launch requests (their container and row share the name)
  Users,          \* signed-in accounts
  Browsers,       \* (ip, fingerprint) pairs
  UserOf,         \* the account each request is signed in as
  BrowserOf,      \* the browser each request comes from
  Sweeps,         \* reaper sweeps that may be under way at the same time
  EndHandlers,    \* End-session requests
  SessionOf,      \* the session each End-session request is about
  SessionLength,  \* SESSION_DURATION_MS
  DailyCap,       \* DAILY_CAP_MS
  DayLength,      \* ticks between two values of date_trunc('day', now())
  OneAtATime,     \* TRUE: clients never overlap two launches (see FindActive)
  MaxTime,        \* bound on the clock
  MaxCrashes      \* bound on broker crashes

ASSUME RequestsAssumption ==
  /\ UserOf \in [Requests -> Users]
  /\ BrowserOf \in [Requests -> Browsers]
  /\ SessionOf \in [EndHandlers -> Requests]

ASSUME LimitsAssumption ==
  /\ SessionLength \in Nat \ {0}
  /\ DailyCap \in Nat \ {0}
  /\ SessionLength <= DailyCap  \* 15 and 30 minutes
  /\ DayLength \in Nat \ {0}
  /\ OneAtATime \in BOOLEAN
  /\ MaxTime \in Nat
  /\ MaxCrashes \in Nat

VARIABLES
  now,      \* the database clock
  pc,       \* where each launch request is
  used,     \* usedMs, as read by each request
  grant,    \* expiresAt, as computed by each request
  task,     \* ECS: the state of each request's container
  row,      \* the sessions table
  sweep,    \* the reaper's loops
  endPc,    \* where each End-session request is
  crashes,  \* broker crashes so far
  firstEnd  \* history: when each row was first given a stopped_at

requestVars == <<pc, used, grant>>
handlerVars == <<sweep, endPc>>
vars == <<now, requestVars, task, row, handlerVars, crashes, firstEnd>>

----------------------------------------------------------------------------
(* States *)

\* The awaits a launch request can be suspended at.
Awaiting == {"browserUsage", "userUsage", "checkActive", "runTask", "booting",
             "stopTask", "insert"}

\* The answers: 201, 200 (resumed), 429 (two limits), 503 (by what failed), and
\* "lost" for a request whose broker crashed under it.
Answered == {"created", "resumed", "limitDaily", "limitActive", "queryFailed",
             "runFailed", "bootFailed", "stopFailed", "insertFailed", "lost"}

RequestState == {"idle"} \cup Awaiting \cup Answered

TaskState == {"none", "live", "stopping", "stopped"}

\* status is stopped_at IS NULL ("open") and end_reason in one field.
Row == [status : {"absent", "open", "expired", "ended"},
        started : Nat, expires : Int, stopped : Int]

NoRow == [status |-> "absent", started |-> 0, expires |-> 0, stopped |-> 0]

\* One reapExpiredSessions call: rows still to visit, the row whose StopTask
\* failed, the row about to be marked.
SweepState == [todo : SUBSET Requests, check : SUBSET Requests, mark : SUBSET Requests]

IdleSweep == [todo |-> {}, check |-> {}, mark |-> {}]

EndState == {"idle", "authorized", "stopTask", "check", "mark"}

InFlight(r) == pc[r] \in Awaiting
Gone(r) == task[r] \in {"stopping", "stopped"}
Open(r) == row[r].status = "open"
Closed(r) == row[r].status \in {"expired", "ended"}
Active(r) == Open(r) /\ row[r].expires > now
Expired(r) == Open(r) /\ row[r].expires <= now

Least(a, b) == IF a <= b THEN a ELSE b
Most(a, b) == IF a >= b THEN a ELSE b

----------------------------------------------------------------------------
(* The usage queries *)

\* Mutant: stopped_at - started_at, which is NULL for an open row.
Charge_OpenIsFree(r) == IF Closed(r) THEN row[r].stopped - row[r].started ELSE 0

\* COALESCE(stopped_at, expires_at) - started_at: an open row counts in full.
Charge(r) == (IF Open(r) THEN row[r].expires ELSE row[r].stopped) - row[r].started

StartedToday(r) == row[r].status # "absent" /\ row[r].started >= now - (now % DayLength)

\* Number(rows[0]?.total ?? 0)
NumberOrZero(total) == IF total \in Int THEN total ELSE 0

UsageOf(S) == NumberOrZero(MapThenSumSet(Charge, {r \in S : StartedToday(r)}))
DailyUsage(b) == UsageOf({r \in Requests : BrowserOf[r] = b})
UserDailyUsage(u) == UsageOf({r \in Requests : UserOf[r] = u})

----------------------------------------------------------------------------
(* ECS, as the broker's calls see it *)

StopTask(r) == task' = [task EXCEPT ![r] = IF @ = "live" THEN "stopping" ELSE @]

\* The call throws; the service may or may not have acted on it.
StopTaskThrows(r) == UNCHANGED task \/ StopTask(r)

\* isTaskStillRunning can only say "no" of a container that has stopped; an
\* error of DescribeTasks counts as "yes".
CanReportGone(r) == task[r] = "stopped"

\* The container exits by itself, or ECS finishes stopping it.
TaskStops(r) ==
  /\ task[r] \in {"live", "stopping"}
  /\ task' = [task EXCEPT ![r] = "stopped"]
  /\ UNCHANGED <<now, requestVars, row, handlerVars, crashes, firstEnd>>

\* ECS acts on a RunTask request that is on its way.
RunTaskArrives(r) ==
  /\ pc[r] = "runTask" /\ task[r] = "none"
  /\ task' = [task EXCEPT ![r] = "live"]
  /\ UNCHANGED <<now, requestVars, row, handlerVars, crashes, firstEnd>>

----------------------------------------------------------------------------
(* POST /api/sessions and createSession, one action per await *)

Goto(r, state) == pc' = [pc EXCEPT ![r] = state]

\* What every step of a launch before RunTask and after it leaves alone.
NotLaunch == <<now, handlerVars, crashes, firstEnd>>

\* findActiveSessionForUser: a running session is handed back.  With
\* OneAtATime the environment waits for the earlier launch of the same account
\* or browser to be answered first; nothing in the broker makes it wait.
FindActive(r) ==
  /\ pc[r] = "idle"
  /\ OneAtATime => \A q \in Requests :
       InFlight(q) => UserOf[q] # UserOf[r] /\ BrowserOf[q] # BrowserOf[r]
  /\ \/ /\ \E q \in Requests : UserOf[q] = UserOf[r] /\ Active(q)
        /\ Goto(r, "resumed")
     \/ /\ ~ \E q \in Requests : UserOf[q] = UserOf[r] /\ Active(q)
        /\ Goto(r, "browserUsage")
  /\ UNCHANGED <<NotLaunch, used, grant, task, row>>

ReadBrowserUsage(r) ==
  /\ pc[r] = "browserUsage"
  /\ used' = [used EXCEPT ![r] = DailyUsage(BrowserOf[r])]
  /\ Goto(r, "userUsage")
  /\ UNCHANGED <<NotLaunch, grant, task, row>>

\* Mutant: the second total replaces the first.
ReadUserUsage_BrowserTotalLost(r) ==
  /\ pc[r] = "userUsage"
  /\ used' = [used EXCEPT ![r] = UserDailyUsage(UserOf[r])]
  /\ Goto(r, IF used'[r] >= DailyCap THEN "limitDaily" ELSE "checkActive")
  /\ UNCHANGED <<NotLaunch, grant, task, row>>

\* The larger of the two totals is what has been used, and is checked at once.
ReadUserUsage(r) ==
  /\ pc[r] = "userUsage"
  /\ used' = [used EXCEPT ![r] = Most(@, UserDailyUsage(UserOf[r]))]
  /\ Goto(r, IF used'[r] >= DailyCap THEN "limitDaily" ELSE "checkActive")
  /\ UNCHANGED <<NotLaunch, grant, task, row>>

\* Mutant: no look at the sessions of this browser.
CheckActive_Skipped(r) ==
  /\ pc[r] = "checkActive"
  /\ Goto(r, "runTask")
  /\ UNCHANGED <<NotLaunch, used, grant, task, row>>

\* hasActiveSession
CheckActive(r) ==
  /\ pc[r] = "checkActive"
  /\ Goto(r, IF \E q \in Requests : BrowserOf[q] = BrowserOf[r] /\ Active(q)
             THEN "limitActive" ELSE "runTask")
  /\ UNCHANGED <<NotLaunch, used, grant, task, row>>

\* Mutant: no catch around the SELECTs, so the request gets no answer.
QueryFails_Rethrown(r) ==
  /\ pc[r] \in {"idle", "browserUsage", "userUsage", "checkActive"}
  /\ Goto(r, "rejected")
  /\ UNCHANGED <<NotLaunch, used, grant, task, row>>

\* Any of the four SELECTs throws: 503, nothing to undo.
QueryFails(r) ==
  /\ pc[r] \in {"idle", "browserUsage", "userUsage", "checkActive"}
  /\ Goto(r, "queryFailed")
  /\ UNCHANGED <<NotLaunch, used, grant, task, row>>

RunTaskReturns(r) ==
  /\ pc[r] = "runTask" /\ task[r] # "none"
  /\ Goto(r, "booting")
  /\ UNCHANGED <<NotLaunch, used, grant, task, row>>

\* RunTask throws, reports failures or returns no ARN.  A response lost on the
\* way back leaves a container behind.
RunTaskFails(r) ==
  /\ pc[r] = "runTask"
  /\ Goto(r, "runFailed")
  /\ UNCHANGED <<NotLaunch, used, grant, task, row>>

\* waitForPublicIp returns: the grant is computed from the usage read before
\* the container booted.
PublicIpFound(r) ==
  /\ pc[r] = "booting" /\ task[r] = "live"
  /\ grant' = [grant EXCEPT ![r] = now + Least(SessionLength, DailyCap - used[r])]
  /\ Goto(r, "insert")
  /\ UNCHANGED <<NotLaunch, used, task, row>>

\* Mutant: TASK_START_TIMEOUT_MS forgotten.
NeverReachable_NoDeadline(r) ==
  /\ pc[r] = "booting" /\ task[r] = "stopped"
  /\ Goto(r, "stopTask")
  /\ UNCHANGED <<NotLaunch, used, grant, task, row>>

\* waitForPublicIp throws: the task stopped, DescribeTasks failed, or 150 s passed.
NeverReachable(r) ==
  /\ pc[r] = "booting"
  /\ Goto(r, "stopTask")
  /\ UNCHANGED <<NotLaunch, used, grant, task, row>>

\* Mutant: the container is left to itself.
StopUnreachable_NoStopTask(r) ==
  /\ pc[r] = "stopTask"
  /\ Goto(r, "bootFailed")
  /\ UNCHANGED <<NotLaunch, used, grant, task, row>>

\* The StopTask of a container that never became reachable; its error is
\* swallowed and nothing tries again.
StopUnreachable(r) ==
  /\ pc[r] = "stopTask"
  /\ \/ StopTask(r) /\ Goto(r, "bootFailed")
     \/ StopTaskThrows(r) /\ Goto(r, "stopFailed")
  /\ UNCHANGED <<NotLaunch, used, grant, row>>

InsertedRow(r) ==
  [row EXCEPT ![r] = [status |-> "open", started |-> now, expires |-> grant[r], stopped |-> 0]]

InsertSession(r) ==
  /\ pc[r] = "insert"
  /\ row' = InsertedRow(r)
  /\ Goto(r, "created")
  /\ UNCHANGED <<NotLaunch, used, grant, task>>

\* The INSERT throws (its commit may still have happened): 503, no StopTask.
InsertFails(r) ==
  /\ pc[r] = "insert"
  /\ row' \in {row, InsertedRow(r)}
  /\ Goto(r, "insertFailed")
  /\ UNCHANGED <<NotLaunch, used, grant, task>>

----------------------------------------------------------------------------
(* Marking a row stopped: the UPDATEs carry no "stopped_at IS NULL" guard *)

Marked(r, reason, at) == [row EXCEPT ![r].status = reason, ![r].stopped = at]

Mark(r, reason, at) ==
  /\ row' = Marked(r, reason, at)
  /\ firstEnd' = IF Open(r) THEN [firstEnd EXCEPT ![r] = at] ELSE firstEnd

\* The UPDATE throws; it may have been committed.
MarkThrows(r, reason, at) == Mark(r, reason, at) \/ UNCHANGED <<row, firstEnd>>

----------------------------------------------------------------------------
(* reapExpiredSessions *)

NotSweep == <<now, requestVars, endPc, crashes>>

\* Mutant: expires_at < now().
SweepSelect_Strict(w) ==
  /\ sweep[w] = IdleSweep
  /\ \E r \in Requests : Expired(r) /\ row[r].expires < now
  /\ sweep' = [sweep EXCEPT ![w].todo = {r \in Requests : Expired(r) /\ row[r].expires < now}]
  /\ UNCHANGED <<NotSweep, task, row, firstEnd>>

\* setInterval does not wait for the previous sweep: several may be under way.
SweepSelect(w) ==
  /\ sweep[w] = IdleSweep
  /\ \E r \in Requests : Expired(r)
  /\ sweep' = [sweep EXCEPT ![w].todo = {r \in Requests : Expired(r)}]
  /\ UNCHANGED <<NotSweep, task, row, firstEnd>>

\* The loop body starts on a row only when it is through with the one before.
SweepVisits(w, r) == r \in sweep[w].todo /\ sweep[w].check = {} /\ sweep[w].mark = {}

SweepStopOk(w, r) ==
  /\ SweepVisits(w, r)
  /\ StopTask(r)
  /\ sweep' = [sweep EXCEPT ![w].todo = @ \ {r}, ![w].mark = {r}]
  /\ UNCHANGED <<NotSweep, row, firstEnd>>

SweepStopFails(w, r) ==
  /\ SweepVisits(w, r)
  /\ StopTaskThrows(r)
  /\ sweep' = [sweep EXCEPT ![w].todo = @ \ {r}, ![w].check = {r}]
  /\ UNCHANGED <<NotSweep, row, firstEnd>>

\* Mutant: marked whatever DescribeTasks says.
SweepCheck_MarksRegardless(w, r) ==
  /\ r \in sweep[w].check
  /\ sweep' = [sweep EXCEPT ![w].check = {}, ![w].mark = {r}]
  /\ UNCHANGED <<NotSweep, task, row, firstEnd>>

\* Still running (or unknown): leave the row for the next sweep.
SweepCheck(w, r) ==
  /\ r \in sweep[w].check
  /\ \/ sweep' = [sweep EXCEPT ![w].check = {}]
     \/ CanReportGone(r) /\ sweep' = [sweep EXCEPT ![w].check = {}, ![w].mark = {r}]
  /\ UNCHANGED <<NotSweep, task, row, firstEnd>>

SweepMark(w, r) ==
  /\ r \in sweep[w].mark
  /\ Mark(r, "expired", Least(now, row[r].expires))
  /\ sweep' = [sweep EXCEPT ![w].mark = {}]
  /\ UNCHANGED <<NotSweep, task>>

\* A throwing UPDATE leaves the loop: the rows not yet visited wait too.
SweepMarkFails(w, r) ==
  /\ r \in sweep[w].mark
  /\ MarkThrows(r, "expired", Least(now, row[r].expires))
  /\ sweep' = [sweep EXCEPT ![w] = IdleSweep]
  /\ UNCHANGED <<NotSweep, task>>

----------------------------------------------------------------------------
(* POST /__knox/end-session and stopSessionNow *)

NotEnd == <<now, requestVars, sweep, crashes>>

EndGoto(e, state) == endPc' = [endPc EXCEPT ![e] = state]

\* authorizeSessionRequest looked the session up while it was active.
EndAuthorized(e) ==
  /\ endPc[e] = "idle"
  /\ Active(SessionOf[e])
  /\ EndGoto(e, "authorized")
  /\ UNCHANGED <<NotEnd, task, row, firstEnd>>

\* stopSessionNow's SELECT asks for stopped_at IS NULL and not for the expiry.
EndSelect(e) ==
  /\ endPc[e] = "authorized"
  /\ EndGoto(e, IF Open(SessionOf[e]) THEN "stopTask" ELSE "idle")
  /\ UNCHANGED <<NotEnd, task, row, firstEnd>>

EndStopOk(e) ==
  /\ endPc[e] = "stopTask"
  /\ StopTask(SessionOf[e])
  /\ EndGoto(e, "mark")
  /\ UNCHANGED <<NotEnd, row, firstEnd>>

EndStopFails(e) ==
  /\ endPc[e] = "stopTask"
  /\ StopTaskThrows(SessionOf[e])
  /\ EndGoto(e, "check")
  /\ UNCHANGED <<NotEnd, row, firstEnd>>

\* Still running: rethrown, the proxy answers 502.
EndCheck(e) ==
  /\ endPc[e] = "check"
  /\ \/ EndGoto(e, "idle")
     \/ CanReportGone(SessionOf[e]) /\ EndGoto(e, "mark")
  /\ UNCHANGED <<NotEnd, task, row, firstEnd>>

EndMark(e) ==
  /\ endPc[e] = "mark"
  /\ Mark(SessionOf[e], "ended", now)
  /\ EndGoto(e, "idle")
  /\ UNCHANGED <<NotEnd, task>>

EndMarkFails(e) ==
  /\ endPc[e] = "mark"
  /\ MarkThrows(SessionOf[e], "ended", now)
  /\ EndGoto(e, "idle")
  /\ UNCHANGED <<NotEnd, task>>

----------------------------------------------------------------------------
(* The clock and the broker process *)

Tick ==
  /\ now < MaxTime
  /\ now' = now + 1
  /\ UNCHANGED <<requestVars, task, row, handlerVars, crashes, firstEnd>>

\* The process dies and is started again: the database and ECS keep their
\* state, every handler and sweep in memory is gone.
Crash ==
  /\ crashes < MaxCrashes
  /\ crashes' = crashes + 1
  /\ pc' = [r \in Requests |-> IF InFlight(r) THEN "lost" ELSE pc[r]]
  /\ sweep' = [w \in Sweeps |-> IdleSweep]
  /\ endPc' = [e \in EndHandlers |-> "idle"]
  /\ UNCHANGED <<now, used, grant, task, row, firstEnd>>

----------------------------------------------------------------------------
Init ==
  /\ now = 0
  /\ pc = [r \in Requests |-> "idle"]
  /\ used = [r \in Requests |-> 0]
  /\ grant = [r \in Requests |-> 0]
  /\ task = [r \in Requests |-> "none"]
  /\ row = [r \in Requests |-> NoRow]
  /\ sweep = [w \in Sweeps |-> IdleSweep]
  /\ endPc = [e \in EndHandlers |-> "idle"]
  /\ crashes = 0
  /\ firstEnd = [r \in Requests |-> 0]

\* The launch steps that end an await by the broker's own doing or deadline.
LaunchStep(r) ==
  \/ ReadBrowserUsage(r) \/ ReadUserUsage(r) \/ CheckActive(r) \/ QueryFails(r)
  \/ RunTaskReturns(r) \/ RunTaskFails(r) \/ NeverReachable(r)
  \/ StopUnreachable(r) \/ InsertSession(r) \/ InsertFails(r)

SweepRow(w, r) ==
  \/ SweepStopOk(w, r) \/ SweepStopFails(w, r) \/ SweepCheck(w, r)
  \/ SweepMark(w, r) \/ SweepMarkFails(w, r)

EndStep(e) ==
  \/ EndAuthorized(e) \/ EndSelect(e) \/ EndStopOk(e) \/ EndStopFails(e)
  \/ EndCheck(e) \/ EndMark(e) \/ EndMarkFails(e)

Next ==
  \/ \E r \in Requests : FindActive(r) \/ LaunchStep(r) \/ PublicIpFound(r)
  \/ \E r \in Requests : RunTaskArrives(r) \/ TaskStops(r)
  \/ \E w \in Sweeps : SweepSelect(w) \/ \E r \in Requests : SweepRow(w, r)
  \/ \E e \in EndHandlers : EndStep(e)
  \/ Tick
  \/ Crash

Spec == Init /\ [][Next]_vars

\* The event loop resumes every handler whose await has ended, the interval
\* timer keeps starting sweeps, and neither ECS nor Postgres fails for ever.
Fairness ==
  /\ WF_vars(Tick)
  /\ \A r \in Requests : WF_vars(pc[r] # "idle" /\ LaunchStep(r))
  /\ \A w \in Sweeps :
       /\ WF_vars(SweepSelect(w))
       /\ \A r \in Requests :
            /\ WF_vars(SweepRow(w, r))
            /\ SF_vars(SweepStopOk(w, r))
            /\ SF_vars(SweepMark(w, r))

FairSpec == Spec /\ Fairness

----------------------------------------------------------------------------
TypeOK ==
  /\ now \in Nat
  /\ pc \in [Requests -> RequestState]
  /\ used \in [Requests -> Int]
  /\ grant \in [Requests -> Int]
  /\ task \in [Requests -> TaskState]
  /\ row \in [Requests -> Row]
  /\ sweep \in [Sweeps -> SweepState]
  /\ endPc \in [EndHandlers -> EndState]
  /\ crashes \in Nat
  /\ firstEnd \in [Requests -> Int]

----------------------------------------------------------------------------
(* What the broker promises *)

\* "Marking a row stopped_at is a promise that the task is actually gone": no
\* row says stopped while its container still runs, whatever StopTask and
\* DescribeTasks answered and whoever marked it.
StoppedMeansGone == \A r \in Requests : Closed(r) => Gone(r)

\* A container runs without an open row pointing at it only while its launch is
\* under way, or because a call failed on the way or the broker died: never
\* after a 201, a 429, a resumed session or a completed StopTask.
LeaksOnlyByFault ==
  \A r \in Requests : task[r] = "live" /\ ~Open(r) =>
    InFlight(r) \/ pc[r] \in {"runFailed", "stopFailed", "insertFailed", "lost"}

\* Time a session could be used: up to its expiry, or to when it was first ended.
Usable(r) ==
  (IF Closed(r) THEN Least(firstEnd[r], row[r].expires) ELSE row[r].expires) - row[r].started

\* Whoever marks a row, in whatever order and however often (neither UPDATE looks
\* whether stopped_at is set), it is charged for at least what could be used of
\* it: a second mark never gives time back.
ChargeCoversUse == \A r \in Requests : row[r].status # "absent" => Usable(r) <= Charge(r)

UsableOnDay(S, day) ==
  MapThenSumSet(Usable, {r \in S : row[r].status # "absent" /\ row[r].started \div DayLength = day})

\* The sessions started on one day by one account, or from one browser, are
\* usable for no more than DailyCap, although the budget is read before the
\* container boots and the row is inserted after.
DailyBudget ==
  \A day \in 0..(now \div DayLength) :
    /\ \A u \in Users : UsableOnDay({r \in Requests : UserOf[r] = u}, day) <= DailyCap
    /\ \A b \in Browsers : UsableOnDay({r \in Requests : BrowserOf[r] = b}, day) <= DailyCap

\* An account and a browser have at most one session running.
OneActiveSession ==
  \A q, r \in Requests : q # r /\ Active(q) /\ Active(r) =>
    UserOf[q] # UserOf[r] /\ BrowserOf[q] # BrowserOf[r]

\* An expired session's container is stopped and its row marked, through failing
\* StopTask calls, failing UPDATEs and broker restarts.
ExpiredIsStopped == \A r \in Requests : Expired(r) ~> Closed(r) /\ Gone(r)

\* Every launch is answered, also when the container never becomes reachable.
LaunchesAnswered == \A r \in Requests : InFlight(r) ~> pc[r] \in Answered

----------------------------------------------------------------------------
(* The abstract lease this implements *)

containerOf == [r \in Requests |->
  IF Gone(r) THEN "gone" ELSE IF task[r] = "live" THEN "live" ELSE "absent"]

leaseOf == [r \in Requests |->
  IF Open(r) THEN "open" ELSE IF Closed(r) THEN "closed" ELSE "absent"]

Lease == INSTANCE ContainerLease WITH Sessions <- Requests, container <- containerOf, lease <- leaseOf

\* Every step of the broker, of ECS and of a crash is a step of the lease
\* protocol: a row appears only for a container, closes only over a container
\* that is gone, and neither ever comes back.
ImplementsLease == Lease!Spec
============================================================================
