------------------------- MODULE SessionBrokerProofs -------------------------
(***************************************************************************)
(* Proofs about SessionBroker for every set of requests, sweeps and        *)
(* End-session handlers, every limit and every value of the bounds.        *)
(***************************************************************************)
EXTENDS SessionBroker, FiniteSetTheorems, TLAPS

\* A usage total is a number, whatever the sum of the rows evaluates to.
LEMMA UsageIsNumber == \A S : UsageOf(S) \in Int
  BY DEF UsageOf, NumberOrZero

\* ECS calls keep the containers' states well-typed.
LEMMA StopTaskType ==
  ASSUME TypeOK, NEW r \in Requests, StopTask(r) \/ StopTaskThrows(r)
  PROVE  task' \in [Requests -> TaskState]
  BY DEF TypeOK, StopTask, StopTaskThrows, TaskState

\* The UPDATEs keep the table well-typed, for any time they write.
LEMMA MarkType ==
  ASSUME TypeOK, NEW r \in Requests, NEW reason \in {"expired", "ended"}, NEW at \in Int,
         Mark(r, reason, at) \/ UNCHANGED <<row, firstEnd>>
  PROVE  row' \in [Requests -> Row] /\ firstEnd' \in [Requests -> Int]
<1>1. CASE Mark(r, reason, at)
  <2>1. [row[r] EXCEPT !.status = reason, !.stopped = at] \in Row
    BY DEF TypeOK, Row
  <2>2. row' \in [Requests -> Row]
    BY <1>1, <2>1 DEF Mark, Marked, TypeOK
  <2>3. firstEnd' \in [Requests -> Int]
    BY <1>1 DEF Mark, TypeOK
  <2> QED BY <2>2, <2>3
<1>2. CASE UNCHANGED <<row, firstEnd>>
  BY <1>2 DEF TypeOK
<1> QED BY <1>1, <1>2

LEMMA InsertType ==
  ASSUME TypeOK, NEW r \in Requests
  PROVE  InsertedRow(r) \in [Requests -> Row]
  BY DEF TypeOK, InsertedRow, Row

----------------------------------------------------------------------------
LEMMA InitType == Init => TypeOK
  BY LimitsAssumption
  DEF Init, TypeOK, RequestState, TaskState, Row, NoRow, SweepState, IdleSweep, EndState

\* The steps of POST /api/sessions keep every variable in its type.
LEMMA LaunchType ==
  ASSUME TypeOK, NEW r \in Requests,
         FindActive(r) \/ LaunchStep(r) \/ PublicIpFound(r)
  PROVE  TypeOK'
<1> USE DEF TypeOK, Goto, NotLaunch, handlerVars, RequestState, Awaiting, Answered
<1>1. CASE FindActive(r) BY <1>1 DEF FindActive
<1>2. CASE ReadBrowserUsage(r)
  BY <1>2, UsageIsNumber DEF ReadBrowserUsage, DailyUsage
<1>3. CASE ReadUserUsage(r)
  BY <1>3, UsageIsNumber DEF ReadUserUsage, UserDailyUsage, Most
<1>4. CASE CheckActive(r) BY <1>4 DEF CheckActive
<1>5. CASE QueryFails(r) BY <1>5 DEF QueryFails
<1>6. CASE RunTaskReturns(r) BY <1>6 DEF RunTaskReturns
<1>7. CASE RunTaskFails(r) BY <1>7 DEF RunTaskFails
<1>8. CASE NeverReachable(r) BY <1>8 DEF NeverReachable
<1>9. CASE StopUnreachable(r) BY <1>9, StopTaskType DEF StopUnreachable
<1>10. CASE InsertSession(r) BY <1>10, InsertType DEF InsertSession
<1>11. CASE InsertFails(r) BY <1>11, InsertType DEF InsertFails
<1>12. CASE PublicIpFound(r)
  BY <1>12, LimitsAssumption DEF PublicIpFound, Least
<1> QED
  BY <1>1, <1>2, <1>3, <1>4, <1>5, <1>6, <1>7, <1>8, <1>9, <1>10, <1>11, <1>12 DEF LaunchStep

\* So do the steps of a sweep.
LEMMA SweepType ==
  ASSUME TypeOK, NEW w \in Sweeps,
         SweepSelect(w) \/ \E r \in Requests : SweepRow(w, r)
  PROVE  TypeOK'
<1> USE DEF TypeOK, NotSweep, requestVars
<1>1. CASE SweepSelect(w)
  BY <1>1 DEF SweepSelect, SweepState
<1>2. ASSUME NEW r \in Requests, SweepRow(w, r)
      PROVE  TypeOK'
  <2> DEFINE at == Least(now, row[r].expires)
  <2>0. at \in Int
    BY DEF Least, Row
  <2>1. CASE SweepStopOk(w, r)
    <3>1. [sweep[w] EXCEPT !.todo = @ \ {r}, !.mark = {r}] \in SweepState
      BY DEF SweepState
    <3>2. sweep' \in [Sweeps -> SweepState] /\ task' \in [Requests -> TaskState]
      BY <2>1, <3>1, StopTaskType DEF SweepStopOk
    <3> QED BY <2>1, <3>2 DEF SweepStopOk
  <2>2. CASE SweepStopFails(w, r)
    <3>1. [sweep[w] EXCEPT !.todo = @ \ {r}, !.check = {r}] \in SweepState
      BY DEF SweepState
    <3>2. sweep' \in [Sweeps -> SweepState] /\ task' \in [Requests -> TaskState]
      BY <2>2, <3>1, StopTaskType DEF SweepStopFails
    <3> QED BY <2>2, <3>2 DEF SweepStopFails
  <2>3. CASE SweepCheck(w, r)
    BY <2>3 DEF SweepCheck, SweepState
  <2>4. CASE SweepMark(w, r)
    <3>1. row' \in [Requests -> Row] /\ firstEnd' \in [Requests -> Int]
      BY <2>0, <2>4, MarkType DEF SweepMark
    <3>2. sweep' \in [Sweeps -> SweepState]
      BY <2>4 DEF SweepMark, SweepState
    <3> QED BY <2>4, <3>1, <3>2 DEF SweepMark
  <2>5. CASE SweepMarkFails(w, r)
    <3>1. row' \in [Requests -> Row] /\ firstEnd' \in [Requests -> Int]
      BY <2>0, <2>5, MarkType DEF SweepMarkFails, MarkThrows
    <3> QED BY <2>5, <3>1 DEF SweepMarkFails, MarkThrows, SweepState, IdleSweep
  <2> QED BY <1>2, <2>1, <2>2, <2>3, <2>4, <2>5 DEF SweepRow
<1> QED BY <1>1, <1>2

\* And the steps of an End-session request.
LEMMA EndType ==
  ASSUME TypeOK, NEW e \in EndHandlers, EndStep(e)
  PROVE  TypeOK'
<1> USE RequestsAssumption DEF TypeOK, NotEnd, requestVars, EndGoto, EndState
<1>1. CASE EndAuthorized(e) BY <1>1 DEF EndAuthorized
<1>2. CASE EndSelect(e) BY <1>2 DEF EndSelect
<1>3. CASE EndStopOk(e) BY <1>3, StopTaskType DEF EndStopOk
<1>4. CASE EndStopFails(e) BY <1>4, StopTaskType DEF EndStopFails
<1>5. CASE EndCheck(e) BY <1>5 DEF EndCheck
<1>6. CASE EndMark(e)
  <2>1. row' \in [Requests -> Row] /\ firstEnd' \in [Requests -> Int]
    BY <1>6, MarkType DEF EndMark
  <2> QED BY <1>6, <2>1 DEF EndMark
<1>7. CASE EndMarkFails(e)
  <2>1. row' \in [Requests -> Row] /\ firstEnd' \in [Requests -> Int]
    BY <1>7, MarkType DEF EndMarkFails, MarkThrows
  <2> QED BY <1>7, <2>1 DEF EndMarkFails, MarkThrows
<1> QED BY <1>1, <1>2, <1>3, <1>4, <1>5, <1>6, <1>7 DEF EndStep

\* One step of the system.
LEMMA NextType ==
  ASSUME TypeOK, [Next]_vars
  PROVE  TypeOK'
<1>1. ASSUME NEW r \in Requests, FindActive(r) \/ LaunchStep(r) \/ PublicIpFound(r)
      PROVE  TypeOK'
    BY <1>1, LaunchType
<1>2. ASSUME NEW r \in Requests, RunTaskArrives(r) \/ TaskStops(r)
      PROVE  TypeOK'
    BY <1>2 DEF RunTaskArrives, TaskStops, TypeOK, TaskState, requestVars, handlerVars
<1>3. ASSUME NEW w \in Sweeps, SweepSelect(w) \/ \E r \in Requests : SweepRow(w, r)
      PROVE  TypeOK'
    BY <1>3, SweepType
<1>4. ASSUME NEW e \in EndHandlers, EndStep(e) PROVE TypeOK'
    BY <1>4, EndType
<1>5. CASE Tick
    BY <1>5 DEF Tick, TypeOK, requestVars, handlerVars
<1>6. CASE Crash
    BY <1>6 DEF Crash, TypeOK, RequestState, Answered, InFlight, SweepState, IdleSweep, EndState
<1>7. CASE UNCHANGED vars
    BY <1>7 DEF vars, requestVars, handlerVars, TypeOK
<1> QED BY <1>1, <1>2, <1>3, <1>4, <1>5, <1>6, <1>7 DEF Next

\* Every variable of the broker stays in its type: in particular every handler
\* is always at one of its awaits or answered, and every row is well formed.
THEOREM TypeCorrect == Spec => []TypeOK
  BY InitType, NextType, PTL DEF Spec

----------------------------------------------------------------------------
(***************************************************************************)
(* The inductive invariant.  StoppedMeansGone is not inductive: a marking  *)
(* step closes a row without looking at its container, so the sweep or the *)
(* End-session request that is about to mark must already know that the    *)
(* container is gone (the MarkersKnow parts), and that a row is there to   *)
(* mark (the visited rows).  LeaksOnlyByFault needs to know which answers  *)
(* come with a container and which with a row.                             *)
(***************************************************************************)

\* Answers and awaits that come before RunTask is sent.
BeforeRunTask == {"idle", "browserUsage", "userUsage", "checkActive", "resumed",
                  "limitDaily", "limitActive", "queryFailed"}

\* Answers and awaits that come after a RunTask that returned an ARN.
AfterRunTask == {"booting", "stopTask", "insert", "created", "bootFailed",
                 "stopFailed", "insertFailed"}

HasRow(r) == row[r].status # "absent"

LaunchInv(r) ==
  /\ pc[r] \in BeforeRunTask => task[r] = "none"
  /\ pc[r] \in AfterRunTask => task[r] # "none"
  /\ pc[r] = "bootFailed" => Gone(r)
  /\ pc[r] = "created" => HasRow(r)
  /\ HasRow(r) => pc[r] \in {"created", "insertFailed"}

SweepInv(w) ==
  /\ \A r \in sweep[w].todo \cup sweep[w].check : HasRow(r)
  /\ \A r \in sweep[w].mark : HasRow(r) /\ Gone(r)

EndInv(e) ==
  /\ endPc[e] \in {"stopTask", "check", "mark"} => HasRow(SessionOf[e])
  /\ endPc[e] = "mark" => Gone(SessionOf[e])

IInv ==
  /\ TypeOK
  /\ \A r \in Requests : LaunchInv(r)
  /\ \A w \in Sweeps : SweepInv(w)
  /\ \A e \in EndHandlers : EndInv(e)
  /\ StoppedMeansGone

LEMMA InitIInv == Init => IInv
<1> SUFFICES ASSUME Init PROVE IInv
  OBVIOUS
<1>1. TypeOK BY InitType
<1>2. \A r \in Requests : LaunchInv(r)
  BY DEF Init, LaunchInv, BeforeRunTask, AfterRunTask, HasRow, NoRow
<1>3. \A w \in Sweeps : SweepInv(w)
  BY DEF Init, SweepInv, IdleSweep
<1>4. \A e \in EndHandlers : EndInv(e)
  BY DEF Init, EndInv
<1>5. StoppedMeansGone
  BY DEF Init, StoppedMeansGone, Closed, NoRow
<1> QED BY <1>1, <1>2, <1>3, <1>4, <1>5 DEF IInv

\* What the sweeps and the End-session requests know survives any step that
\* leaves their own state alone, brings no container back and deletes no row.
LEMMA HandlersKeep ==
  ASSUME IInv, UNCHANGED handlerVars,
         \A r \in Requests : Gone(r) => Gone(r)',
         \A r \in Requests : HasRow(r) => HasRow(r)'
  PROVE  (\A w \in Sweeps : SweepInv(w)') /\ (\A e \in EndHandlers : EndInv(e)')
<1>1. \A w \in Sweeps : SweepInv(w)'
  BY DEF IInv, TypeOK, SweepState, SweepInv, handlerVars
<1>2. \A e \in EndHandlers : EndInv(e)'
  BY RequestsAssumption DEF IInv, EndInv, handlerVars
<1> QED BY <1>1, <1>2

\* The launch steps that change neither a container nor the table.
LEMMA QuietLaunchStep ==
  ASSUME IInv, NEW r \in Requests,
         \/ FindActive(r) \/ ReadBrowserUsage(r) \/ ReadUserUsage(r) \/ CheckActive(r)
         \/ QueryFails(r) \/ RunTaskReturns(r) \/ RunTaskFails(r) \/ NeverReachable(r)
         \/ PublicIpFound(r)
  PROVE  /\ \A q \in Requests : LaunchInv(q)'
         /\ UNCHANGED <<task, row, handlerVars>>
<1>1. UNCHANGED <<task, row, handlerVars>>
  BY DEF FindActive, ReadBrowserUsage, ReadUserUsage, CheckActive, QueryFails,
         RunTaskReturns, RunTaskFails, NeverReachable, PublicIpFound, NotLaunch
<1>2. \A q \in Requests : q # r => pc'[q] = pc[q]
  BY DEF IInv, TypeOK, Goto, FindActive, ReadBrowserUsage, ReadUserUsage, CheckActive, QueryFails,
         RunTaskReturns, RunTaskFails, NeverReachable, PublicIpFound
<1>3. \/ pc[r] \in BeforeRunTask /\ pc'[r] \in BeforeRunTask \cup {"runTask"} /\ pc[r] # "created"
      \/ pc[r] = "runTask" /\ task[r] # "none" /\ pc'[r] = "booting"
      \/ pc[r] = "runTask" /\ pc'[r] = "runFailed"
      \/ pc[r] = "booting" /\ pc'[r] \in {"stopTask", "insert"}
  BY DEF IInv, TypeOK, Goto, FindActive, ReadBrowserUsage, ReadUserUsage, CheckActive, QueryFails,
         RunTaskReturns, RunTaskFails, NeverReachable, PublicIpFound, BeforeRunTask
<1>4. LaunchInv(r)'
  BY <1>1, <1>3 DEF IInv, LaunchInv, HasRow, Gone, BeforeRunTask, AfterRunTask
<1>5. ASSUME NEW q \in Requests, q # r PROVE LaunchInv(q)'
  BY <1>1, <1>2, <1>5 DEF IInv, LaunchInv, HasRow, Gone
<1> QED BY <1>1, <1>4, <1>5

\* The launch steps keep the invariant.
LEMMA LaunchIInv ==
  ASSUME IInv, NEW r \in Requests,
         FindActive(r) \/ LaunchStep(r) \/ PublicIpFound(r)
  PROVE  IInv'
<1>0. TypeOK'
  BY LaunchType DEF IInv
<1>1. CASE \/ FindActive(r) \/ ReadBrowserUsage(r) \/ ReadUserUsage(r) \/ CheckActive(r)
           \/ QueryFails(r) \/ RunTaskReturns(r) \/ RunTaskFails(r) \/ NeverReachable(r)
           \/ PublicIpFound(r)
  <2>1. (\A q \in Requests : LaunchInv(q)') /\ UNCHANGED <<task, row, handlerVars>>
    BY <1>1, QuietLaunchStep
  <2>2. (\A w \in Sweeps : SweepInv(w)') /\ (\A e \in EndHandlers : EndInv(e)')
    BY <2>1, HandlersKeep DEF Gone, HasRow
  <2>3. StoppedMeansGone'
    BY <2>1 DEF IInv, StoppedMeansGone, Closed, Gone
  <2> QED BY <1>0, <2>1, <2>2, <2>3 DEF IInv
<1>2. CASE StopUnreachable(r)
  <2>1. UNCHANGED <<row, handlerVars>> /\ (\A q \in Requests : Gone(q) => Gone(q)')
    BY <1>2 DEF StopUnreachable, NotLaunch, StopTask, StopTaskThrows, Gone, IInv, TypeOK
  <2>2. \A q \in Requests : LaunchInv(q)'
    BY <1>2 DEF StopUnreachable, StopTask, StopTaskThrows, Goto, IInv, TypeOK, TaskState,
                LaunchInv, HasRow, Gone, BeforeRunTask, AfterRunTask
  <2>3. (\A w \in Sweeps : SweepInv(w)') /\ (\A e \in EndHandlers : EndInv(e)')
    BY <2>1, HandlersKeep DEF HasRow
  <2>4. StoppedMeansGone'
    BY <2>1 DEF IInv, StoppedMeansGone, Closed
  <2> QED BY <1>0, <2>2, <2>3, <2>4 DEF IInv
<1>3. CASE InsertSession(r) \/ InsertFails(r)
  <2>1. /\ UNCHANGED <<task, handlerVars>>
        /\ row' \in {row, InsertedRow(r)}
        /\ pc[r] = "insert"
        /\ \/ pc' = [pc EXCEPT ![r] = "created"] /\ row' = InsertedRow(r)
           \/ pc' = [pc EXCEPT ![r] = "insertFailed"]
    BY <1>3 DEF InsertSession, InsertFails, NotLaunch, Goto
  <2>2. \A q \in Requests : q # r => row'[q] = row[q]
    BY <2>1 DEF InsertedRow, IInv, TypeOK
  <2>3. row'[r] = row[r] \/ (row'[r].status = "open" /\ HasRow(r)')
    BY <2>1 DEF InsertedRow, IInv, TypeOK, HasRow
  <2>4. \A q \in Requests : LaunchInv(q)'
    <3>1. ASSUME NEW q \in Requests, q # r PROVE LaunchInv(q)'
      BY <2>1, <2>2, <3>1 DEF IInv, TypeOK, LaunchInv, HasRow, Gone
    <3>2. LaunchInv(r)'
      <4>1. pc'[r] = "created" => row'[r].status = "open"
        BY <2>1 DEF InsertedRow, IInv, TypeOK
      <4> QED BY <2>1, <4>1 DEF IInv, TypeOK, LaunchInv, HasRow, Gone, BeforeRunTask, AfterRunTask
    <3> QED BY <3>1, <3>2
  <2>5. (\A w \in Sweeps : SweepInv(w)') /\ (\A e \in EndHandlers : EndInv(e)')
    BY <2>1, <2>2, <2>3, HandlersKeep DEF HasRow, Gone
  <2>6. StoppedMeansGone'
    BY <2>1, <2>2, <2>3 DEF IInv, StoppedMeansGone, Closed, Gone
  <2> QED BY <1>0, <2>4, <2>5, <2>6 DEF IInv
<1> QED BY <1>1, <1>2, <1>3 DEF LaunchStep

\* A step that leaves the launches and the table alone and brings no container
\* back keeps what the invariant says of them.
LEMMA QuietTable ==
  ASSUME IInv, UNCHANGED <<pc, row>>,
         \A r \in Requests : Gone(r) => Gone(r)',
         \A r \in Requests : (task[r] = "none") = (task'[r] = "none")
  PROVE  (\A r \in Requests : LaunchInv(r)') /\ StoppedMeansGone'
<1>1. ASSUME NEW r \in Requests PROVE LaunchInv(r)'
  BY DEF IInv, LaunchInv, HasRow
<1>2. StoppedMeansGone'
  BY DEF IInv, StoppedMeansGone, Closed
<1> QED BY <1>1, <1>2

\* StopTask, throwing or not, brings no container back and starts none.
LEMMA StopTaskMonotone ==
  ASSUME IInv, NEW r \in Requests, StopTask(r) \/ StopTaskThrows(r)
  PROVE  /\ \A q \in Requests : Gone(q) => Gone(q)'
         /\ \A q \in Requests : (task[q] = "none") = (task'[q] = "none")
         /\ StopTask(r) /\ task[r] # "none" => Gone(r)'
  BY DEF StopTask, StopTaskThrows, IInv, TypeOK, TaskState, Gone

\* Marking a row that is there, over a container that is gone, keeps the
\* invariant's view of launches and rows.
LEMMA MarkKeeps ==
  ASSUME IInv, UNCHANGED <<pc, task>>, NEW r \in Requests, HasRow(r), Gone(r),
         NEW reason \in {"expired", "ended"}, NEW at \in Int,
         Mark(r, reason, at) \/ UNCHANGED <<row, firstEnd>>
  PROVE  /\ \A q \in Requests : LaunchInv(q)'
         /\ \A q \in Requests : HasRow(q) => HasRow(q)'
         /\ StoppedMeansGone'
<1>1. row' = row \/ row' = Marked(r, reason, at)
  BY DEF Mark
<1>2. \A q \in Requests : q # r => row'[q] = row[q]
  BY <1>1 DEF Marked, IInv, TypeOK
<1>3. \/ row'[r] = row[r]
      \/ /\ row'[r].status = reason
         /\ row'[r].stopped = at
         /\ row'[r].expires = row[r].expires
  BY <1>1 DEF Marked, IInv, TypeOK, Row
<1>4. \A q \in Requests : HasRow(q) = HasRow(q)'
  BY <1>2, <1>3 DEF HasRow
<1>5. \A q \in Requests : LaunchInv(q)'
  BY <1>4 DEF IInv, LaunchInv, Gone
<1>6. StoppedMeansGone'
  BY <1>2, <1>3 DEF IInv, StoppedMeansGone, Closed, Gone
<1> QED BY <1>4, <1>5, <1>6

\* The steps of a sweep keep the invariant: a row reaches "mark" only after a
\* StopTask that succeeded or a DescribeTasks that said the container stopped.
LEMMA SweepIInv ==
  ASSUME IInv, NEW w \in Sweeps,
         SweepSelect(w) \/ \E r \in Requests : SweepRow(w, r)
  PROVE  IInv'
<1>0. TypeOK'
  BY SweepType DEF IInv
<1>1. CASE SweepSelect(w)
  <2>1. UNCHANGED <<pc, row, task, endPc>>
    BY <1>1 DEF SweepSelect, NotSweep, requestVars
  <2>2. (\A r \in Requests : LaunchInv(r)') /\ StoppedMeansGone'
    BY <2>1, QuietTable DEF Gone
  <2>3. \A e \in EndHandlers : EndInv(e)'
    BY <2>1, RequestsAssumption DEF IInv, EndInv, HasRow, Gone
  <2>4. ASSUME NEW v \in Sweeps PROVE SweepInv(v)'
    BY <1>1, <2>1 DEF SweepSelect, IInv, TypeOK, SweepState, SweepInv, HasRow, Gone, Expired, Open
  <2> QED BY <1>0, <2>2, <2>3, <2>4 DEF IInv
<1>2. ASSUME NEW r \in Requests, SweepStopOk(w, r) \/ SweepStopFails(w, r)
      PROVE  IInv'
  <2>1. /\ UNCHANGED <<pc, row, endPc>>
        /\ r \in sweep[w].todo
        /\ StopTask(r) \/ StopTaskThrows(r)
    BY <1>2 DEF SweepStopOk, SweepStopFails, SweepVisits, NotSweep, requestVars
  <2>2. HasRow(r) /\ task[r] # "none"
    BY <2>1 DEF IInv, SweepInv, LaunchInv, AfterRunTask
  <2>3. /\ \A q \in Requests : Gone(q) => Gone(q)'
        /\ \A q \in Requests : (task[q] = "none") = (task'[q] = "none")
        /\ StopTask(r) => Gone(r)'
    BY <2>1, <2>2, StopTaskMonotone
  <2>4. (\A q \in Requests : LaunchInv(q)') /\ StoppedMeansGone'
    BY <2>1, <2>3, QuietTable
  <2>5. \A e \in EndHandlers : EndInv(e)'
    BY <2>1, <2>3, RequestsAssumption DEF IInv, EndInv, HasRow
  <2>6. ASSUME NEW v \in Sweeps PROVE SweepInv(v)'
    <3>0. sweep \in [Sweeps -> SweepState]
      BY DEF IInv, TypeOK
    <3>1. /\ sweep'[v].todo \subseteq sweep[v].todo
          /\ sweep'[v].check \subseteq sweep[v].check \cup {r}
          /\ sweep'[v].mark \subseteq sweep[v].mark \/ (sweep'[v].mark = {r} /\ StopTask(r))
      <4>1. CASE SweepStopOk(w, r)
        BY <3>0, <4>1 DEF SweepStopOk, SweepState
      <4>2. CASE SweepStopFails(w, r)
        BY <3>0, <4>2 DEF SweepStopFails, SweepState
      <4> QED BY <1>2, <4>1, <4>2
    <3>2. SweepInv(v) /\ sweep[v].mark \subseteq Requests
      BY DEF IInv, TypeOK, SweepState
    <3>3. \A q \in sweep'[v].todo \cup sweep'[v].check : HasRow(q)'
      BY <2>1, <2>2, <3>1, <3>2 DEF SweepInv, HasRow
    <3>4. \A q \in sweep'[v].mark : HasRow(q)' /\ Gone(q)'
      BY <2>1, <2>2, <2>3, <3>1, <3>2 DEF SweepInv, HasRow
    <3> QED BY <3>3, <3>4 DEF SweepInv
  <2> QED BY <1>0, <2>4, <2>5, <2>6 DEF IInv
<1>3. ASSUME NEW r \in Requests, SweepCheck(w, r)
      PROVE  IInv'
  <2>1. UNCHANGED <<pc, row, task, endPc>> /\ r \in sweep[w].check
    BY <1>3 DEF SweepCheck, NotSweep, requestVars
  <2>2. (\A q \in Requests : LaunchInv(q)') /\ StoppedMeansGone'
    BY <2>1, QuietTable DEF Gone
  <2>3. \A e \in EndHandlers : EndInv(e)'
    BY <2>1, RequestsAssumption DEF IInv, EndInv, HasRow, Gone
  <2>4. ASSUME NEW v \in Sweeps PROVE SweepInv(v)'
    <3>1. /\ sweep'[v].todo \subseteq sweep[v].todo
          /\ sweep'[v].check \subseteq sweep[v].check
          /\ sweep'[v].mark \subseteq sweep[v].mark
             \/ (sweep'[v].mark = {r} /\ Gone(r))
      BY <1>3 DEF SweepCheck, CanReportGone, IInv, TypeOK, SweepState, Gone
    <3>2. SweepInv(v) /\ HasRow(r)
      BY <2>1 DEF IInv, SweepInv
    <3>3. \A q \in sweep'[v].todo \cup sweep'[v].check : HasRow(q)'
      BY <2>1, <3>1, <3>2 DEF SweepInv, HasRow
    <3>4. \A q \in sweep'[v].mark : HasRow(q)' /\ Gone(q)'
      BY <2>1, <3>1, <3>2 DEF SweepInv, HasRow, Gone
    <3> QED BY <3>3, <3>4 DEF SweepInv
  <2> QED BY <1>0, <2>2, <2>3, <2>4 DEF IInv
<1>4. ASSUME NEW r \in Requests, SweepMark(w, r) \/ SweepMarkFails(w, r)
      PROVE  IInv'
  <2> DEFINE at == Least(now, row[r].expires)
  <2>1. /\ UNCHANGED <<pc, task, endPc>>
        /\ r \in sweep[w].mark
        /\ Mark(r, "expired", at) \/ UNCHANGED <<row, firstEnd>>
    BY <1>4 DEF SweepMark, SweepMarkFails, MarkThrows, NotSweep, requestVars
  <2>2. HasRow(r) /\ Gone(r)
    BY <2>1 DEF IInv, SweepInv
  <2>3. at \in Int /\ at <= row[r].expires
    BY DEF Least, IInv, TypeOK, Row
  <2> HIDE DEF at
  <2>4. /\ \A q \in Requests : LaunchInv(q)'
        /\ \A q \in Requests : HasRow(q) => HasRow(q)'
        /\ StoppedMeansGone'
    BY <2>1, <2>2, <2>3, MarkKeeps
  <2>5. \A e \in EndHandlers : EndInv(e)'
    BY <2>1, <2>4, RequestsAssumption DEF IInv, EndInv, Gone
  <2>6. ASSUME NEW v \in Sweeps PROVE SweepInv(v)'
    <3>1. /\ sweep'[v].todo \subseteq sweep[v].todo
          /\ sweep'[v].check \subseteq sweep[v].check
          /\ sweep'[v].mark \subseteq sweep[v].mark
      BY <1>4 DEF SweepMark, SweepMarkFails, IdleSweep, IInv, TypeOK, SweepState
    <3> QED BY <2>1, <2>4, <3>1 DEF IInv, TypeOK, SweepState, SweepInv, Gone
  <2> QED BY <1>0, <2>4, <2>5, <2>6 DEF IInv
<1> QED BY <1>1, <1>2, <1>3, <1>4 DEF SweepRow

\* The steps of an End-session request keep the invariant.
LEMMA EndIInv ==
  ASSUME IInv, NEW e \in EndHandlers, EndStep(e)
  PROVE  IInv'
<1> DEFINE s == SessionOf[e]
<1>s. s \in Requests
  BY RequestsAssumption
<1>0. TypeOK'
  BY EndType DEF IInv
<1>1. CASE EndAuthorized(e) \/ EndSelect(e) \/ EndCheck(e)
  <2>1. UNCHANGED <<pc, row, task, sweep>>
    BY <1>1 DEF EndAuthorized, EndSelect, EndCheck, NotEnd, requestVars
  <2>2. (\A q \in Requests : LaunchInv(q)') /\ StoppedMeansGone'
    BY <2>1, QuietTable DEF Gone
  <2>3. \A w \in Sweeps : SweepInv(w)'
    BY <2>1 DEF IInv, TypeOK, SweepState, SweepInv, HasRow, Gone
  <2>4. ASSUME NEW f \in EndHandlers PROVE EndInv(f)'
    BY <1>1, <2>1, RequestsAssumption
    DEF EndAuthorized, EndSelect, EndCheck, EndGoto, CanReportGone, Open, IInv, TypeOK,
        EndInv, HasRow, Gone
  <2> QED BY <1>0, <2>2, <2>3, <2>4 DEF IInv
<1>2. CASE EndStopOk(e) \/ EndStopFails(e)
  <2>1. /\ UNCHANGED <<pc, row, sweep>>
        /\ endPc[e] = "stopTask"
        /\ StopTask(s) \/ StopTaskThrows(s)
    BY <1>2 DEF EndStopOk, EndStopFails, NotEnd, requestVars
  <2>2. HasRow(s) /\ task[s] # "none"
    BY <1>s, <2>1 DEF IInv, EndInv, LaunchInv, AfterRunTask
  <2>3. /\ \A q \in Requests : Gone(q) => Gone(q)'
        /\ \A q \in Requests : (task[q] = "none") = (task'[q] = "none")
        /\ StopTask(s) => Gone(s)'
    BY <1>s, <2>1, <2>2, StopTaskMonotone
  <2>4. (\A q \in Requests : LaunchInv(q)') /\ StoppedMeansGone'
    BY <2>1, <2>3, QuietTable
  <2>5. \A w \in Sweeps : SweepInv(w)'
    BY <2>1, <2>3 DEF IInv, TypeOK, SweepState, SweepInv, HasRow
  <2>6. ASSUME NEW f \in EndHandlers PROVE EndInv(f)'
    BY <1>2, <2>1, <2>2, <2>3, RequestsAssumption
    DEF EndStopOk, EndStopFails, EndGoto, IInv, TypeOK, EndInv, HasRow
  <2> QED BY <1>0, <2>4, <2>5, <2>6 DEF IInv
<1>3. CASE EndMark(e) \/ EndMarkFails(e)
  <2>1. /\ UNCHANGED <<pc, task, sweep>>
        /\ endPc[e] = "mark"
        /\ Mark(s, "ended", now) \/ UNCHANGED <<row, firstEnd>>
        /\ endPc' = [endPc EXCEPT ![e] = "idle"]
    BY <1>3 DEF EndMark, EndMarkFails, MarkThrows, NotEnd, requestVars, EndGoto
  <2>2. HasRow(s) /\ Gone(s)
    BY <2>1 DEF IInv, EndInv
  <2>3. now \in Int
    BY DEF IInv, TypeOK
  <2>4. /\ \A q \in Requests : LaunchInv(q)'
        /\ \A q \in Requests : HasRow(q) => HasRow(q)'
        /\ StoppedMeansGone'
    BY <1>s, <2>1, <2>2, <2>3, MarkKeeps
  <2>5. \A w \in Sweeps : SweepInv(w)'
    BY <2>1, <2>4 DEF IInv, TypeOK, SweepState, SweepInv, Gone
  <2>6. ASSUME NEW f \in EndHandlers PROVE EndInv(f)'
    BY <2>1, <2>4, RequestsAssumption DEF IInv, TypeOK, EndInv, Gone
  <2> QED BY <1>0, <2>4, <2>5, <2>6 DEF IInv
<1> QED BY <1>1, <1>2, <1>3 DEF EndStep

\* ECS acting by itself, the clock and a crash keep the invariant.
LEMMA EnvironmentIInv ==
  ASSUME IInv, \/ \E r \in Requests : RunTaskArrives(r) \/ TaskStops(r)
               \/ Tick \/ Crash,
         TypeOK'
  PROVE  IInv'
<1>1. ASSUME NEW r \in Requests, RunTaskArrives(r) PROVE IInv'
  <2>1. UNCHANGED <<pc, row, handlerVars>> /\ pc[r] = "runTask" /\ task[r] = "none"
    BY <1>1 DEF RunTaskArrives, requestVars
  <2>2. \A q \in Requests : q # r => task'[q] = task[q]
    BY <1>1 DEF RunTaskArrives, IInv, TypeOK
  <2>3. \A q \in Requests : Gone(q) => Gone(q)'
    BY <2>1, <2>2 DEF Gone
  <2>4. \A q \in Requests : LaunchInv(q)'
    BY <2>1, <2>2 DEF IInv, LaunchInv, HasRow, Gone, BeforeRunTask, AfterRunTask
  <2>5. (\A w \in Sweeps : SweepInv(w)') /\ (\A e \in EndHandlers : EndInv(e)')
    BY <2>1, <2>3, HandlersKeep DEF HasRow
  <2>6. StoppedMeansGone'
    BY <2>1, <2>3 DEF IInv, StoppedMeansGone, Closed
  <2> QED BY <2>4, <2>5, <2>6 DEF IInv
<1>2. ASSUME NEW r \in Requests, TaskStops(r) PROVE IInv'
  <2>1. UNCHANGED <<pc, row, handlerVars>>
    BY <1>2 DEF TaskStops, requestVars
  <2>2. /\ \A q \in Requests : Gone(q) => Gone(q)'
        /\ \A q \in Requests : (task[q] = "none") = (task'[q] = "none")
    BY <1>2 DEF TaskStops, IInv, TypeOK, Gone
  <2>3. (\A q \in Requests : LaunchInv(q)') /\ StoppedMeansGone'
    BY <2>1, <2>2, QuietTable
  <2>4. (\A w \in Sweeps : SweepInv(w)') /\ (\A e \in EndHandlers : EndInv(e)')
    BY <2>1, <2>2, HandlersKeep DEF HasRow
  <2> QED BY <2>3, <2>4 DEF IInv
<1>3. CASE Tick
  <2>1. UNCHANGED <<pc, row, task, handlerVars>>
    BY <1>3 DEF Tick, requestVars
  <2>2. (\A q \in Requests : LaunchInv(q)') /\ StoppedMeansGone'
    BY <2>1, QuietTable DEF Gone
  <2>3. (\A w \in Sweeps : SweepInv(w)') /\ (\A e \in EndHandlers : EndInv(e)')
    BY <2>1, HandlersKeep DEF HasRow, Gone
  <2> QED BY <2>2, <2>3 DEF IInv
<1>4. CASE Crash
  <2>1. UNCHANGED <<row, task>>
    BY <1>4 DEF Crash
  <2>2. \A q \in Requests : LaunchInv(q)'
    BY <1>4, <2>1 DEF Crash, InFlight, Awaiting, IInv, LaunchInv, HasRow, Gone,
                      BeforeRunTask, AfterRunTask
  <2>3. (\A w \in Sweeps : SweepInv(w)') /\ (\A e \in EndHandlers : EndInv(e)')
    BY <1>4 DEF Crash, SweepInv, EndInv, IdleSweep
  <2>4. StoppedMeansGone'
    BY <2>1 DEF IInv, StoppedMeansGone, Closed, Gone
  <2> QED BY <2>2, <2>3, <2>4 DEF IInv
<1> QED BY <1>1, <1>2, <1>3, <1>4

\* The strengthened invariant holds of every behaviour of the broker.
THEOREM Invariance == Spec => []IInv
<1>1. IInv /\ [Next]_vars => IInv'
  <2> SUFFICES ASSUME IInv, [Next]_vars PROVE IInv'
    OBVIOUS
  <2>1. ASSUME NEW r \in Requests, FindActive(r) \/ LaunchStep(r) \/ PublicIpFound(r)
        PROVE  IInv'
    BY <2>1, LaunchIInv
  <2>2. ASSUME NEW w \in Sweeps, SweepSelect(w) \/ \E r \in Requests : SweepRow(w, r)
        PROVE  IInv'
    BY <2>2, SweepIInv
  <2>3. ASSUME NEW e \in EndHandlers, EndStep(e) PROVE IInv'
    BY <2>3, EndIInv
  <2>4. CASE (\E r \in Requests : RunTaskArrives(r) \/ TaskStops(r)) \/ Tick \/ Crash
    BY <2>4, EnvironmentIInv, NextType DEF IInv, Next
  <2>5. CASE UNCHANGED vars
    <3>1. UNCHANGED <<pc, row, task, handlerVars>>
      BY <2>5 DEF vars, requestVars
    <3>2. (\A q \in Requests : LaunchInv(q)') /\ StoppedMeansGone'
      BY <3>1, QuietTable DEF Gone
    <3>3. (\A w \in Sweeps : SweepInv(w)') /\ (\A e \in EndHandlers : EndInv(e)')
      BY <3>1, HandlersKeep DEF HasRow, Gone
    <3>4. TypeOK'
      BY <2>5, NextType DEF IInv
    <3> QED BY <3>2, <3>3, <3>4 DEF IInv
  <2> QED BY <2>1, <2>2, <2>3, <2>4, <2>5 DEF Next
<1> QED BY <1>1, InitIInv, PTL DEF Spec

\* A row marked stopped is a promise kept: its container is gone, for any
\* number of sweeps and End-session requests racing each other, with StopTask,
\* DescribeTasks and UPDATE failing in any way and the broker crashing anywhere.
THEOREM PromiseKept == Spec => []StoppedMeansGone
  BY Invariance, PTL DEF IInv

\* No container is left running without a row by a launch that was answered
\* normally: only a failed call or a crash can leave one behind.
THEOREM NoSilentLeak == Spec => []LeaksOnlyByFault
<1>1. IInv => LeaksOnlyByFault
  <2> SUFFICES ASSUME IInv, NEW r \in Requests, task[r] = "live", ~Open(r)
               PROVE  InFlight(r) \/ pc[r] \in {"runFailed", "stopFailed", "insertFailed", "lost"}
    BY DEF LeaksOnlyByFault
  <2>1. ~HasRow(r)
    BY DEF IInv, TypeOK, Row, StoppedMeansGone, Closed, Open, HasRow, Gone
  <2>2. pc[r] \notin BeforeRunTask \cup {"created", "bootFailed"}
    BY <2>1 DEF IInv, LaunchInv, Gone
  <2> QED BY <2>2 DEF IInv, TypeOK, RequestState, InFlight, Awaiting, Answered, BeforeRunTask
<1> QED BY <1>1, Invariance, PTL

----------------------------------------------------------------------------
(* Refinement: every step is seen by the lease as a step of one container, *)
(* a step of one row, or nothing.                                          *)

ContainerStep(r) ==
  /\ UNCHANGED row
  /\ \A q \in Requests : q # r => task'[q] = task[q]
  /\ \/ task'[r] = task[r]
     \/ task[r] = "none" /\ task'[r] = "live"
     \/ task[r] # "none" /\ task'[r] \in {"stopping", "stopped"}

RowStep(r) ==
  /\ UNCHANGED task
  /\ \A q \in Requests : q # r => row'[q] = row[q]
  /\ \/ row'[r].status = row[r].status
     \/ row[r].status = "absent" /\ row'[r].status = "open" /\ task[r] # "none"
     \/ row[r].status # "absent" /\ row'[r].status \in {"expired", "ended"} /\ Gone(r)

\* An UPDATE, whether it is applied or lost, is a step of one row.
LEMMA MarkStep ==
  ASSUME IInv, NEW r \in Requests, NEW reason \in {"expired", "ended"}, NEW at,
         HasRow(r), Gone(r), UNCHANGED task,
         Mark(r, reason, at) \/ UNCHANGED <<row, firstEnd>>
  PROVE  RowStep(r)
<1>1. CASE Mark(r, reason, at)
  BY <1>1 DEF Mark, Marked, RowStep, HasRow, IInv, TypeOK, Row
<1>2. CASE UNCHANGED <<row, firstEnd>>
  BY <1>2 DEF RowStep
<1> QED BY <1>1, <1>2

\* A container's step is a Launch, a Stop or a stutter of the lease.
LEMMA ContainerStepMaps ==
  ASSUME TypeOK, TypeOK', NEW r \in Requests, ContainerStep(r)
  PROVE  [Lease!Next]_(Lease!vars)
<1>1. leaseOf' = leaseOf
  BY DEF ContainerStep, leaseOf, Open, Closed
<1>2. \A q \in Requests : q # r => containerOf'[q] = containerOf[q]
  BY DEF ContainerStep, containerOf, Gone
<1>3. /\ DOMAIN containerOf = Requests /\ DOMAIN containerOf' = Requests
      /\ containerOf = [q \in Requests |-> containerOf[q]]
      /\ containerOf' = [q \in Requests |-> containerOf'[q]]
  BY DEF containerOf
<1>4. \/ containerOf'[r] = containerOf[r]
      \/ containerOf[r] = "absent" /\ containerOf'[r] = "live"
      \/ containerOf[r] = "live" /\ containerOf'[r] = "gone"
  BY DEF ContainerStep, containerOf, Gone, TypeOK, TaskState
<1>5. containerOf' = [containerOf EXCEPT ![r] = containerOf'[r]]
  BY <1>2, <1>3
<1> HIDE DEF containerOf, leaseOf
<1>6. CASE containerOf'[r] = containerOf[r]
  BY <1>1, <1>3, <1>5, <1>6 DEF Lease!vars
<1>7. CASE containerOf[r] = "absent" /\ containerOf'[r] = "live"
  BY <1>1, <1>5, <1>7 DEF Lease!Next, Lease!Launch
<1>8. CASE containerOf[r] = "live" /\ containerOf'[r] = "gone"
  BY <1>1, <1>5, <1>8 DEF Lease!Next, Lease!Stop
<1> QED BY <1>4, <1>6, <1>7, <1>8

\* A row's step is an Open, a Close or a stutter of the lease.
LEMMA RowStepMaps ==
  ASSUME IInv, IInv', NEW r \in Requests, RowStep(r)
  PROVE  [Lease!Next]_(Lease!vars)
<1>1. containerOf' = containerOf
  BY DEF RowStep, containerOf, Gone
<1>2. \A q \in Requests : q # r => leaseOf'[q] = leaseOf[q]
  BY DEF RowStep, leaseOf, Open, Closed
<1>3. /\ leaseOf = [q \in Requests |-> leaseOf[q]]
      /\ leaseOf' = [q \in Requests |-> leaseOf'[q]]
      /\ DOMAIN leaseOf = Requests /\ DOMAIN leaseOf' = Requests
  BY DEF leaseOf
<1>4. \/ leaseOf'[r] = leaseOf[r]
      \/ leaseOf[r] = "absent" /\ leaseOf'[r] = "open" /\ containerOf[r] # "absent"
      \/ leaseOf[r] = "open" /\ leaseOf'[r] = "closed" /\ containerOf[r] = "gone"
  BY DEF RowStep, leaseOf, containerOf, Open, Closed, Gone, IInv, TypeOK, TaskState, Row
<1>5. leaseOf' = [leaseOf EXCEPT ![r] = leaseOf'[r]]
  BY <1>2, <1>3
<1> HIDE DEF containerOf, leaseOf
<1>6. CASE leaseOf'[r] = leaseOf[r]
  BY <1>1, <1>3, <1>5, <1>6 DEF Lease!vars
<1>7. CASE leaseOf[r] = "absent" /\ leaseOf'[r] = "open" /\ containerOf[r] # "absent"
  BY <1>1, <1>5, <1>7 DEF Lease!Next, Lease!Open
<1>8. CASE leaseOf[r] = "open" /\ leaseOf'[r] = "closed" /\ containerOf[r] = "gone"
  BY <1>1, <1>5, <1>8 DEF Lease!Next, Lease!Close
<1> QED BY <1>4, <1>6, <1>7, <1>8

\* Every behaviour of the broker is a behaviour of the abstract lease: each of
\* its steps is a step of ContainerLease or leaves the mapped state unchanged.
THEOREM Refinement == Spec => ImplementsLease
<1>1. Init => Lease!Init
  BY DEF Init, Lease!Init, containerOf, leaseOf, Gone, Open, Closed, NoRow
<1>2. IInv /\ IInv' /\ [Next]_vars => [Lease!Next]_(Lease!vars)
  <2> SUFFICES ASSUME IInv, IInv', [Next]_vars
               PROVE  [Lease!Next]_(Lease!vars)
    OBVIOUS
  <2>1. ASSUME NEW r \in Requests, ContainerStep(r)
        PROVE  [Lease!Next]_(Lease!vars)
    BY <2>1, ContainerStepMaps DEF IInv
  <2>2. ASSUME NEW r \in Requests, RowStep(r)
        PROVE  [Lease!Next]_(Lease!vars)
    BY <2>2, RowStepMaps
  <2>3. CASE UNCHANGED <<task, row>>
    BY <2>3 DEF Lease!vars, containerOf, leaseOf, Gone, Open, Closed
  <2>4. ASSUME NEW r \in Requests, FindActive(r) \/ LaunchStep(r) \/ PublicIpFound(r)
        PROVE  [Lease!Next]_(Lease!vars)
    <3>1. CASE \/ FindActive(r) \/ ReadBrowserUsage(r) \/ ReadUserUsage(r) \/ CheckActive(r)
               \/ QueryFails(r) \/ RunTaskReturns(r) \/ RunTaskFails(r) \/ NeverReachable(r)
               \/ PublicIpFound(r)
      BY <2>3, <3>1, QuietLaunchStep
    <3>2. CASE StopUnreachable(r)
      <4>1. task[r] # "none"
        BY <3>2 DEF StopUnreachable, IInv, LaunchInv, AfterRunTask
      <4>2. ContainerStep(r)
        BY <3>2, <4>1 DEF StopUnreachable, StopTask, StopTaskThrows, ContainerStep, IInv, TypeOK
      <4> QED BY <2>1, <4>2
    <3>3. CASE InsertSession(r) \/ InsertFails(r)
      <4>1. task[r] # "none" /\ row[r].status = "absent"
        BY <3>3 DEF InsertSession, InsertFails, IInv, LaunchInv, AfterRunTask, HasRow
      <4>2. RowStep(r)
        BY <3>3, <4>1 DEF InsertSession, InsertFails, InsertedRow, RowStep, IInv, TypeOK
      <4> QED BY <2>2, <4>2
    <3> QED BY <2>4, <3>1, <3>2, <3>3 DEF LaunchStep
  <2>5. ASSUME NEW r \in Requests, RunTaskArrives(r) \/ TaskStops(r)
        PROVE  [Lease!Next]_(Lease!vars)
    <3>1. ContainerStep(r)
      BY <2>5 DEF RunTaskArrives, TaskStops, ContainerStep, IInv, TypeOK
    <3> QED BY <2>1, <3>1
  <2>6. ASSUME NEW w \in Sweeps, NEW r \in Requests, SweepRow(w, r)
        PROVE  [Lease!Next]_(Lease!vars)
    <3>1. CASE SweepStopOk(w, r) \/ SweepStopFails(w, r)
      <4>1. task[r] # "none"
        BY <3>1 DEF SweepStopOk, SweepStopFails, SweepVisits, IInv, SweepInv, LaunchInv, AfterRunTask
      <4>2. ContainerStep(r)
        BY <3>1, <4>1
        DEF SweepStopOk, SweepStopFails, StopTask, StopTaskThrows, ContainerStep, IInv, TypeOK
      <4> QED BY <2>1, <4>2
    <3>2. CASE SweepCheck(w, r)
      BY <2>3, <3>2 DEF SweepCheck
    <3>3. CASE SweepMark(w, r) \/ SweepMarkFails(w, r)
      <4> DEFINE at == Least(now, row[r].expires)
      <4>1. HasRow(r) /\ Gone(r) /\ UNCHANGED task
        BY <3>3 DEF SweepMark, SweepMarkFails, IInv, SweepInv
      <4>2. Mark(r, "expired", at) \/ UNCHANGED <<row, firstEnd>>
        BY <3>3 DEF SweepMark, SweepMarkFails, MarkThrows
      <4>3. RowStep(r)
        BY <4>1, <4>2, MarkStep
      <4> QED BY <2>2, <4>3
    <3> QED BY <2>6, <3>1, <3>2, <3>3 DEF SweepRow
  <2>7. ASSUME NEW e \in EndHandlers, EndStep(e)
        PROVE  [Lease!Next]_(Lease!vars)
    <3> DEFINE s == SessionOf[e]
    <3>s. s \in Requests
      BY RequestsAssumption
    <3>1. CASE EndAuthorized(e) \/ EndSelect(e) \/ EndCheck(e)
      BY <2>3, <3>1 DEF EndAuthorized, EndSelect, EndCheck
    <3>2. CASE EndStopOk(e) \/ EndStopFails(e)
      <4>1. task[s] # "none"
        BY <3>s, <3>2 DEF EndStopOk, EndStopFails, IInv, EndInv, LaunchInv, AfterRunTask
      <4>2. ContainerStep(s)
        BY <3>s, <3>2, <4>1
        DEF EndStopOk, EndStopFails, StopTask, StopTaskThrows, ContainerStep, IInv, TypeOK
      <4> QED BY <2>1, <3>s, <4>2
    <3>3. CASE EndMark(e) \/ EndMarkFails(e)
      <4>1. HasRow(s) /\ Gone(s) /\ UNCHANGED task
        BY <3>3 DEF EndMark, EndMarkFails, IInv, EndInv
      <4>2. Mark(s, "ended", now) \/ UNCHANGED <<row, firstEnd>>
        BY <3>3 DEF EndMark, EndMarkFails, MarkThrows
      <4>3. RowStep(s)
        BY <3>s, <4>1, <4>2, MarkStep
      <4> QED BY <2>2, <3>s, <4>3
    <3> QED BY <2>7, <3>1, <3>2, <3>3 DEF EndStep
  <2>8. CASE (\E w \in Sweeps : SweepSelect(w)) \/ Tick \/ Crash \/ UNCHANGED vars
    BY <2>3, <2>8 DEF SweepSelect, Tick, Crash, vars
  <2> QED BY <2>4, <2>5, <2>6, <2>7, <2>8 DEF Next
<1> QED BY <1>1, <1>2, Invariance, PTL DEF Spec, ImplementsLease, Lease!Spec

----------------------------------------------------------------------------
(***************************************************************************)
(* OneActiveSession.  Nothing in the broker keeps two launches of one      *)
(* account, or of one browser, apart: between the SELECTs and the INSERT   *)
(* there is a container's boot.  It is kept by clients that wait for their *)
(* earlier launch to be answered, and then the two SELECTs suffice: what   *)
(* they have seen is still so when the row is inserted (AloneInv).         *)
(***************************************************************************)
Rivals(q, r) == q # r /\ (UserOf[q] = UserOf[r] \/ BrowserOf[q] = BrowserOf[r])

\* The awaits after hasActiveSession.
PastCheck == {"runTask", "booting", "stopTask", "insert"}

AloneInv ==
  /\ \A q, r \in Requests : InFlight(q) /\ InFlight(r) => ~Rivals(q, r)
  /\ \A q, r \in Requests : InFlight(r) /\ Active(q) => UserOf[q] # UserOf[r]
  /\ \A q, r \in Requests : pc[r] \in PastCheck /\ Active(q) => BrowserOf[q] # BrowserOf[r]
  /\ OneActiveSession

\* No launch is begun or passes its check, and no session begins.
Quiet ==
  \A q \in Requests :
    /\ InFlight(q)' => InFlight(q)
    /\ pc'[q] \in PastCheck => pc[q] \in PastCheck
    /\ Active(q)' => Active(q)

LEMMA QuietAlone == AloneInv /\ Quiet => AloneInv'
  BY DEF AloneInv, Quiet, OneActiveSession, Rivals

\* Marking a row ends its session, or leaves it ended.
LEMMA MarkQuiet ==
  ASSUME TypeOK, NEW r \in Requests, NEW reason \in {"expired", "ended"}, NEW at,
         UNCHANGED <<now, pc>>, Mark(r, reason, at) \/ UNCHANGED <<row, firstEnd>>
  PROVE  Quiet
<1>1. CASE Mark(r, reason, at)
  BY <1>1 DEF Mark, Marked, TypeOK, Row, Quiet, Active, Open, InFlight
<1>2. CASE UNCHANGED <<row, firstEnd>>
  BY <1>2 DEF Quiet, Active, Open, InFlight
<1> QED BY <1>1, <1>2

\* The three steps of a launch on which the property turns.
LEMMA AloneLaunch ==
  ASSUME OneAtATime, IInv, AloneInv, NEW r \in Requests,
         FindActive(r) \/ CheckActive(r) \/ InsertSession(r) \/ InsertFails(r)
  PROVE  AloneInv'
<1>0. now' = now /\ pc \in [Requests -> RequestState] /\ row \in [Requests -> Row]
  BY DEF FindActive, CheckActive, InsertSession, InsertFails, NotLaunch, IInv, TypeOK
<1>1. CASE FindActive(r)
  <2>1. row' = row /\ \A q \in Requests : Active(q)' = Active(q)
    BY <1>0, <1>1 DEF FindActive, Active, Open
  <2>2. \A q \in Requests : q # r => pc'[q] = pc[q]
    BY <1>0, <1>1 DEF FindActive, Goto
  <2>3. CASE pc'[r] = "resumed"
    BY <2>1, <2>2, <2>3, QuietAlone DEF Quiet, InFlight, Awaiting, PastCheck
  <2>4. CASE pc'[r] = "browserUsage" /\ ~ \E q \in Requests : UserOf[q] = UserOf[r] /\ Active(q)
    <3>1. \A q \in Requests : InFlight(q) => ~Rivals(q, r) /\ ~Rivals(r, q)
      BY <1>1 DEF FindActive, Rivals
    <3>2. \A q \in Requests : q # r => InFlight(q)' = InFlight(q)
      BY <2>2 DEF InFlight
    <3>3. pc'[r] \notin PastCheck
      BY <2>4 DEF PastCheck
    <3>4. \A q, s \in Requests : InFlight(q)' /\ InFlight(s)' => ~Rivals(q, s)
      BY <3>1, <3>2 DEF AloneInv, Rivals
    <3>5. \A q, s \in Requests : InFlight(s)' /\ Active(q)' => UserOf[q] # UserOf[s]
      BY <2>1, <2>4, <3>2 DEF AloneInv
    <3>6. \A q, s \in Requests : pc'[s] \in PastCheck /\ Active(q)' => BrowserOf[q] # BrowserOf[s]
      BY <2>1, <2>2, <3>3 DEF AloneInv
    <3>7. OneActiveSession'
      BY <2>1 DEF AloneInv, OneActiveSession
    <3> QED BY <3>4, <3>5, <3>6, <3>7 DEF AloneInv, Rivals
  <2> QED BY <1>0, <1>1, <2>3, <2>4 DEF FindActive, Goto
<1>2. CASE CheckActive(r)
  <2>1. row' = row /\ \A q \in Requests : Active(q)' = Active(q)
    BY <1>0, <1>2 DEF CheckActive, Active, Open
  <2>2. /\ \A q \in Requests : q # r => pc'[q] = pc[q]
        /\ InFlight(r)
        /\ pc'[r] = "runTask" => \A q \in Requests : Active(q) => BrowserOf[q] # BrowserOf[r]
        /\ pc'[r] \in {"runTask", "limitActive"}
    BY <1>0, <1>2 DEF CheckActive, Goto, InFlight, Awaiting
  <2>3. \A q \in Requests : InFlight(q)' => InFlight(q)
    BY <2>2 DEF InFlight
  <2>4. \A q, s \in Requests : pc'[s] \in PastCheck /\ Active(q)' => BrowserOf[q] # BrowserOf[s]
    BY <2>1, <2>2 DEF AloneInv, PastCheck
  <2>5. OneActiveSession'
    BY <2>1 DEF AloneInv, OneActiveSession
  <2> QED BY <2>1, <2>3, <2>4, <2>5 DEF AloneInv, Rivals
<1>3. CASE InsertSession(r) \/ InsertFails(r)
  <2>1. /\ \A q \in Requests : q # r => pc'[q] = pc[q] /\ row'[q] = row[q]
        /\ pc[r] = "insert" /\ pc'[r] \in {"created", "insertFailed"}
    BY <1>0, <1>3 DEF InsertSession, InsertFails, InsertedRow, Goto
  <2>2. \A q \in Requests : q # r => Active(q)' = Active(q) /\ InFlight(q)' = InFlight(q)
    BY <1>0, <2>1 DEF Active, Open, InFlight
  <2>3. InFlight(r) /\ ~InFlight(r)' /\ pc[r] \in PastCheck /\ pc'[r] \notin PastCheck
    BY <2>1 DEF InFlight, Awaiting, PastCheck
  <2>4. \A q \in Requests : Active(q) => ~Rivals(q, r)
    BY <2>3 DEF AloneInv, Rivals
  <2>5. \A q \in Requests : InFlight(q)' => ~Rivals(q, r)
    BY <2>2, <2>3 DEF AloneInv, Rivals
  <2>6. \A q, s \in Requests : InFlight(q)' /\ InFlight(s)' => ~Rivals(q, s)
    BY <2>2, <2>3 DEF AloneInv
  <2>7. \A q, s \in Requests : InFlight(s)' /\ Active(q)' => UserOf[q] # UserOf[s]
    BY <2>2, <2>3, <2>5 DEF AloneInv, Rivals
  <2>8. \A q, s \in Requests : pc'[s] \in PastCheck /\ Active(q)' => BrowserOf[q] # BrowserOf[s]
    <3> SUFFICES ASSUME NEW q \in Requests, NEW s \in Requests, pc'[s] \in PastCheck, Active(q)'
                 PROVE  BrowserOf[q] # BrowserOf[s]
      OBVIOUS
    <3>1. s # r /\ pc[s] \in PastCheck /\ InFlight(s)'
      BY <2>1, <2>3 DEF PastCheck, InFlight, Awaiting
    <3>2. CASE q = r
      BY <2>5, <3>1, <3>2 DEF Rivals
    <3>3. CASE q # r
      BY <2>2, <3>1, <3>3 DEF AloneInv
    <3> QED BY <3>2, <3>3
  <2>9. OneActiveSession'
    BY <2>2, <2>4 DEF AloneInv, OneActiveSession, Rivals
  <2> QED BY <2>6, <2>7, <2>8, <2>9 DEF AloneInv, Rivals
<1> QED BY <1>1, <1>2, <1>3

\* Every other step is quiet.
LEMMA OtherStepsQuiet ==
  ASSUME IInv, [Next]_vars,
         ~ \E r \in Requests : FindActive(r) \/ CheckActive(r) \/ InsertSession(r) \/ InsertFails(r)
  PROVE  Quiet
<1>0. /\ TypeOK /\ now \in Nat /\ pc \in [Requests -> RequestState] /\ row \in [Requests -> Row]
  BY DEF IInv, TypeOK
<1>1. ASSUME NEW r \in Requests, LaunchStep(r) \/ PublicIpFound(r) PROVE Quiet
  <2>1. /\ now' = now /\ row' = row
        /\ \E state \in RequestState :
             /\ pc' = [pc EXCEPT ![r] = state]
             /\ state \in Awaiting => pc[r] \in Awaiting
             /\ state \in PastCheck => pc[r] \in PastCheck
    BY <1>1 DEF LaunchStep, ReadBrowserUsage, ReadUserUsage, QueryFails, RunTaskReturns, RunTaskFails,
                NeverReachable, StopUnreachable, PublicIpFound, NotLaunch, Goto, RequestState, Awaiting,
                Answered, PastCheck
  <2> QED BY <1>0, <2>1 DEF Quiet, Active, Open, InFlight
<1>2. ASSUME NEW w \in Sweeps, NEW r \in Requests, SweepRow(w, r) PROVE Quiet
  <2>1. CASE SweepMark(w, r) \/ SweepMarkFails(w, r)
    <3>1. UNCHANGED <<now, pc>> /\ (Mark(r, "expired", Least(now, row[r].expires)) \/ UNCHANGED <<row, firstEnd>>)
      BY <2>1 DEF SweepMark, SweepMarkFails, MarkThrows, NotSweep, requestVars
    <3> QED BY <1>0, <3>1, MarkQuiet
  <2>2. CASE SweepStopOk(w, r) \/ SweepStopFails(w, r) \/ SweepCheck(w, r)
    BY <2>2 DEF SweepStopOk, SweepStopFails, SweepCheck, NotSweep, requestVars, Quiet, Active, Open, InFlight
  <2> QED BY <1>2, <2>1, <2>2 DEF SweepRow
<1>3. ASSUME NEW e \in EndHandlers, EndStep(e) PROVE Quiet
  <2>1. CASE EndMark(e) \/ EndMarkFails(e)
    <3>1. UNCHANGED <<now, pc>> /\ (Mark(SessionOf[e], "ended", now) \/ UNCHANGED <<row, firstEnd>>)
      BY <2>1 DEF EndMark, EndMarkFails, MarkThrows, NotEnd, requestVars
    <3>2. SessionOf[e] \in Requests
      BY RequestsAssumption
    <3> QED BY <1>0, <3>1, <3>2, MarkQuiet
  <2>2. CASE \/ EndAuthorized(e) \/ EndSelect(e) \/ EndStopOk(e) \/ EndStopFails(e) \/ EndCheck(e)
    BY <2>2 DEF EndAuthorized, EndSelect, EndStopOk, EndStopFails, EndCheck, NotEnd, requestVars,
                Quiet, Active, Open, InFlight
  <2> QED BY <1>3, <2>1, <2>2 DEF EndStep
<1>4. CASE Tick
  BY <1>0, <1>4 DEF Tick, requestVars, Quiet, Active, Open, InFlight, Row
<1>5. CASE Crash
  BY <1>0, <1>5 DEF Crash, Quiet, Active, Open, InFlight, Awaiting, PastCheck
<1>6. CASE \/ \E r \in Requests : RunTaskArrives(r) \/ TaskStops(r)
           \/ \E w \in Sweeps : SweepSelect(w)
           \/ UNCHANGED vars
  BY <1>6 DEF RunTaskArrives, TaskStops, SweepSelect, NotSweep, vars, requestVars, Quiet, Active, Open, InFlight
<1> QED BY <1>1, <1>2, <1>3, <1>4, <1>5, <1>6 DEF Next

\* What two launches must not do to each other, they never do.
THEOREM AloneAlways ==
  ASSUME OneAtATime
  PROVE  Spec => []AloneInv
<1>1. Init => AloneInv
  BY DEF Init, AloneInv, OneActiveSession, Active, Open, NoRow, InFlight, Awaiting, PastCheck
<1>2. IInv /\ AloneInv /\ [Next]_vars => AloneInv'
  <2> SUFFICES ASSUME IInv, AloneInv, [Next]_vars PROVE AloneInv'
    OBVIOUS
  <2>1. CASE \E r \in Requests : FindActive(r) \/ CheckActive(r) \/ InsertSession(r) \/ InsertFails(r)
    BY <2>1, AloneLaunch
  <2>2. CASE ~ \E r \in Requests : FindActive(r) \/ CheckActive(r) \/ InsertSession(r) \/ InsertFails(r)
    BY <2>2, OtherStepsQuiet, QuietAlone
  <2> QED BY <2>1, <2>2
<1> QED BY <1>1, <1>2, Invariance, PTL DEF Spec

\* Clients that do not overlap their launches have one session running per
\* account and per browser, whatever fails, expires, is swept or ended.
THEOREM OneSessionEach ==
  ASSUME OneAtATime
  PROVE  Spec => []OneActiveSession
<1>1. AloneInv => OneActiveSession
  BY DEF AloneInv
<1> QED BY <1>1, AloneAlways, PTL

----------------------------------------------------------------------------
(***************************************************************************)
(* Sums over a finite set.  The folds of the community modules choose an   *)
(* element, and sum the rest: the recursion has one solution (SumUnique,   *)
(* SumExists), in which any element may be taken first (SumRemove) and     *)
(* larger numbers have a larger sum (SumMonotone).                         *)
(***************************************************************************)
Pick(s) == CHOOSE x \in s : TRUE

\* it holds the sums of f over the subsets of S.
IsSum(it, f, S) ==
  it = [s \in SUBSET S |-> IF s = {} THEN 0 ELSE f[Pick(s)] + it[s \ {Pick(s)}]]

Sum(f, S) == (CHOOSE it : IsSum(it, f, S))[S]

Numbers(f, S) == \A x \in S : f[x] \in Int

\* Some element of B has no smaller one in B.
Smallest(s, B) == s \in B /\ \A t \in B : t \subseteq s => t = s

\* Among subsets of a finite set there is one that no other is smaller than.
LEMMA FiniteMin ==
  ASSUME NEW S, IsFiniteSet(S), NEW B, B \subseteq SUBSET S, B # {}
  PROVE  \E s : Smallest(s, B)
<1> DEFINE R == StrictSubsetOrdering(S)
<1>1. B \subseteq FiniteSubsetsOf(S)
  BY FS_Subset DEF FiniteSubsetsOf
<1>2. IsWellFoundedOn(R, FiniteSubsetsOf(S))
  BY FS_StrictSubsetOrderingWellFounded
<1> HIDE DEF R
<1>3. PICK s \in B : \A t \in B : <<t, s>> \notin R
  BY <1>1, <1>2, WFMin
<1>4. \A t \in B : t \subseteq s /\ t # s => <<t, s>> \in R
  BY <1>1 DEF R, StrictSubsetOrdering, FiniteSubsetsOf
<1>5. \A t \in B : t \subseteq s => t = s
  BY <1>3, <1>4
<1> QED BY <1>5 DEF Smallest

LEMMA PickIn == ASSUME NEW s, s # {} PROVE Pick(s) \in s /\ s \ {Pick(s)} \subseteq s /\ s \ {Pick(s)} # s
  BY DEF Pick

Unfolds(it, f, S) ==
  /\ it[{}] = 0
  /\ \A s \in SUBSET S : s # {} => it[s] = f[Pick(s)] + it[s \ {Pick(s)}]

LEMMA SumUnfold == ASSUME NEW S, NEW f, NEW it, IsSum(it, f, S) PROVE Unfolds(it, f, S)
  BY DEF IsSum, Unfolds

\* The recursion has one solution at most.
LEMMA SumUnique ==
  ASSUME NEW S, IsFiniteSet(S), NEW T, NEW f, NEW g, NEW h, IsSum(g, f, S), IsSum(h, f, T),
         NEW U \in SUBSET S, U \in SUBSET T
  PROVE  g[U] = h[U]
<1> SUFFICES ASSUME g[U] # h[U] PROVE FALSE
  OBVIOUS
<1> DEFINE B == {s \in SUBSET U : g[s] # h[s]}
<1>1. B \subseteq SUBSET S /\ B # {}
  OBVIOUS
<1>2. \E s : Smallest(s, B)
  <2> HIDE DEF B
  <2> QED BY <1>1, FiniteMin
<1>3. PICK s : Smallest(s, B)
  BY <1>2
<1>4. s \in SUBSET S /\ s \in SUBSET T /\ s \in SUBSET U /\ g[s] # h[s]
  BY <1>3 DEF Smallest
<1>0. Unfolds(g, f, S) /\ Unfolds(h, f, T)
  BY SumUnfold
<1>5. s # {}
  BY <1>0, <1>4 DEF Unfolds
<1> DEFINE p == Pick(s)
<1>6. p \in s /\ s \ {p} \subseteq s /\ s \ {p} # s
  BY <1>5, PickIn
<1>7. g[s] = f[p] + g[s \ {p}] /\ h[s] = f[p] + h[s \ {p}]
  BY <1>0, <1>4, <1>5 DEF Unfolds
<1> HIDE DEF p
<1>8. g[s \ {p}] = h[s \ {p}]
  BY <1>3, <1>4, <1>6 DEF Smallest
<1> QED BY <1>4, <1>7, <1>8

\* And one at least: the sums over smaller sets make it.
LEMMA SumExists ==
  ASSUME NEW S, IsFiniteSet(S), NEW f
  PROVE  \E it : IsSum(it, f, S)
<1> SUFFICES ASSUME ~ \E it : IsSum(it, f, S) PROVE FALSE
  OBVIOUS
<1> DEFINE B == {s \in SUBSET S : ~ \E it : IsSum(it, f, s)}
<1>1. B \subseteq SUBSET S /\ B # {}
  OBVIOUS
<1>2. \E s : Smallest(s, B)
  <2> HIDE DEF B
  <2> QED BY <1>1, FiniteMin
<1>3. PICK T : Smallest(T, B)
  BY <1>2
<1>4. T \in SUBSET S /\ IsFiniteSet(T) /\ ~ \E it : IsSum(it, f, T)
  BY <1>3, FS_Subset DEF Smallest
<1> DEFINE g(s) == CHOOSE it : IsSum(it, f, s)
<1>5. \A s \in SUBSET T : s # T => IsSum(g(s), f, s)
  BY <1>3, <1>4 DEF Smallest
<1> HIDE DEF B, g
<1> DEFINE it == [s \in SUBSET T |-> IF s = {} THEN 0 ELSE f[Pick(s)] + g(s \ {Pick(s)})[s \ {Pick(s)}]]
<1>6. \A s \in SUBSET T : s # {} => s \ {Pick(s)} \in SUBSET T /\ s \ {Pick(s)} # T
  BY PickIn
<1>7. ASSUME NEW u \in SUBSET T, u # T PROVE it[u] = g(u)[u]
  <2>1. IsSum(g(u), f, u)
    BY <1>5, <1>7
  <2>2. g(u)[u] = IF u = {} THEN 0 ELSE f[Pick(u)] + g(u)[u \ {Pick(u)}]
    <3> DEFINE k == g(u)
    <3>1. IsSum(k, f, u)
      BY <2>1
    <3> HIDE DEF k
    <3>2. Unfolds(k, f, u)
      BY <3>1, SumUnfold
    <3>3. k[u] = IF u = {} THEN 0 ELSE f[Pick(u)] + k[u \ {Pick(u)}]
      BY <3>2 DEF Unfolds
    <3> QED BY <3>3 DEF k
  <2>3. ASSUME u # {} PROVE g(u)[u \ {Pick(u)}] = g(u \ {Pick(u)})[u \ {Pick(u)}]
    <3> DEFINE v == u \ {Pick(u)}
    <3>1. v \in SUBSET u /\ v \in SUBSET T /\ v # T
      BY <1>6, <2>3
    <3> HIDE DEF v
    <3>2. IsSum(g(v), f, v) /\ IsFiniteSet(u)
      BY <1>4, <1>5, <3>1, FS_Subset
    <3>3. g(u)[v] = g(v)[v]
      BY <2>1, <3>1, <3>2, SumUnique
    <3> QED BY <3>3 DEF v
  <2> QED BY <2>2, <2>3
<1>8. ASSUME NEW s \in SUBSET T, s # {} PROVE it[s \ {Pick(s)}] = g(s \ {Pick(s)})[s \ {Pick(s)}]
  BY <1>6, <1>7, <1>8
<1>9. it = [s \in SUBSET T |-> IF s = {} THEN 0 ELSE f[Pick(s)] + it[s \ {Pick(s)}]]
  BY <1>8
<1> HIDE DEF it
<1> QED BY <1>4, <1>9 DEF IsSum

\* What is known of the sums over the subsets of a finite set of numbers.
Sums(it, f, S) ==
  /\ Unfolds(it, f, S)
  /\ \A s \in SUBSET S : it[s] = Sum(f, s) /\ it[s] \in Int

LEMMA SumIs == ASSUME NEW S, IsFiniteSet(S), NEW f, Numbers(f, S) PROVE \E it : Sums(it, f, S)
<1>1. PICK it : IsSum(it, f, S)
  BY SumExists
<1>2. Unfolds(it, f, S)
  BY <1>1, SumUnfold
<1>3. ASSUME NEW s \in SUBSET S PROVE it[s] = Sum(f, s)
  <2> DEFINE h == CHOOSE k : IsSum(k, f, s)
  <2>0. IsFiniteSet(s) /\ s \in SUBSET s
    BY FS_Subset
  <2>1. IsSum(h, f, s)
    BY <2>0, SumExists
  <2> HIDE DEF h
  <2>2. it[s] = h[s]
    BY <1>1, <2>0, <2>1, SumUnique
  <2> QED BY <2>2 DEF Sum, h
<1>4. \A s \in SUBSET S : it[s] \in Int
  <2> DEFINE B == {s \in SUBSET S : it[s] \notin Int}
  <2> SUFFICES ASSUME B # {} PROVE FALSE
    OBVIOUS
  <2>1. B \subseteq SUBSET S
    OBVIOUS
  <2>2. \E s : Smallest(s, B)
    <3> HIDE DEF B
    <3> QED BY <2>1, FiniteMin
  <2>3. PICK s : Smallest(s, B)
    BY <2>2
  <2>4. s \in SUBSET S /\ it[s] \notin Int
    BY <2>3 DEF Smallest
  <2>5. s # {}
    <3> HIDE DEF B
    <3>1. it[{}] \in Int
      BY <1>2 DEF Unfolds
    <3> QED BY <2>4, <3>1
  <2> DEFINE p == Pick(s)
  <2>6. p \in S /\ s \ {p} \in SUBSET S /\ s \ {p} \subseteq s /\ s \ {p} # s
    BY <2>4, <2>5, PickIn
  <2>7. it[s] = f[p] + it[s \ {p}]
    BY <1>2, <2>4, <2>5 DEF Unfolds
  <2> HIDE DEF p
  <2>8. it[s \ {p}] \in Int /\ f[p] \in Int
    BY <2>3, <2>6 DEF Smallest, Numbers
  <2> QED BY <2>4, <2>7, <2>8
<1> QED BY <1>2, <1>3, <1>4 DEF Sums

\* Any element can be taken out first.
LEMMA SumRemove ==
  ASSUME NEW S, IsFiniteSet(S), NEW f, Numbers(f, S), NEW e \in S
  PROVE  Sum(f, S) = f[e] + Sum(f, S \ {e}) /\ Sum(f, S \ {e}) \in Int
<1>1. PICK it : Sums(it, f, S)
  BY SumIs
<1> DEFINE B == {s \in SUBSET S : \E x \in s : it[s] # f[x] + it[s \ {x}]}
<1>2. ASSUME B # {} PROVE FALSE
  <2>1. B \subseteq SUBSET S
    OBVIOUS
  <2>2. \E s : Smallest(s, B)
    <3> HIDE DEF B
    <3> QED BY <1>2, <2>1, FiniteMin
  <2>3. PICK s : Smallest(s, B)
    BY <2>2
  <2>4. s \in SUBSET S /\ \E x \in s : it[s] # f[x] + it[s \ {x}]
    BY <2>3 DEF Smallest
  <2>5. PICK x \in s : it[s] # f[x] + it[s \ {x}]
    BY <2>4
  <2> DEFINE p == Pick(s)
  <2>6. p \in s /\ it[s] = f[p] + it[s \ {p}]
    BY <1>1, <2>4, <2>5, PickIn DEF Sums, Unfolds
  <2> HIDE DEF p
  <2>7. p # x
    BY <2>5, <2>6
  <2>8. s \ {p} \notin B /\ s \ {x} \notin B
    BY <2>3, <2>5, <2>6 DEF Smallest
  <2>9. it[s \ {p}] = f[x] + it[(s \ {p}) \ {x}]
    BY <2>4, <2>5, <2>7, <2>8
  <2>10. it[s \ {x}] = f[p] + it[(s \ {x}) \ {p}]
    BY <2>4, <2>6, <2>7, <2>8
  <2> DEFINE rest == it[(s \ {x}) \ {p}]
  <2>11. rest = it[(s \ {p}) \ {x}]
    <3>1. (s \ {p}) \ {x} = (s \ {x}) \ {p}
      OBVIOUS
    <3> QED BY <3>1
  <2>12. f[x] \in Int /\ f[p] \in Int /\ rest \in Int
    BY <1>1, <2>4, <2>5, <2>6 DEF Sums, Numbers
  <2> HIDE DEF rest, B
  <2>13. it[s] = f[p] + (f[x] + rest)
    BY <2>6, <2>9, <2>11
  <2>14. it[s] # f[x] + (f[p] + rest)
    BY <2>5, <2>10 DEF rest
  <2>15. f[p] + (f[x] + rest) = f[x] + (f[p] + rest)
    BY <2>12
  <2> QED BY <2>13, <2>14, <2>15
<1>3. it[S] = f[e] + it[S \ {e}]
  BY <1>2
<1> QED BY <1>1, <1>3 DEF Sums

\* Larger numbers have a larger sum.
LEMMA SumMonotone ==
  ASSUME NEW S, IsFiniteSet(S), NEW f, NEW g, Numbers(f, S), Numbers(g, S), \A x \in S : f[x] <= g[x]
  PROVE  Sum(f, S) <= Sum(g, S) /\ Sum(f, S) \in Int /\ Sum(g, S) \in Int
<1>1. PICK it : Sums(it, f, S)
  BY SumIs
<1>2. PICK jt : Sums(jt, g, S)
  BY SumIs
<1> DEFINE B == {s \in SUBSET S : ~(it[s] <= jt[s])}
<1>3. ASSUME B # {} PROVE FALSE
  <2>1. B \subseteq SUBSET S
    OBVIOUS
  <2>2. \E s : Smallest(s, B)
    <3> HIDE DEF B
    <3> QED BY <1>3, <2>1, FiniteMin
  <2>3. PICK s : Smallest(s, B)
    BY <2>2
  <2>4. s \in SUBSET S /\ ~(it[s] <= jt[s])
    BY <2>3 DEF Smallest
  <2>5. s # {}
    <3> HIDE DEF B
    <3>1. it[{}] = 0 /\ jt[{}] = 0
      BY <1>1, <1>2 DEF Sums, Unfolds
    <3> QED BY <2>4, <3>1
  <2> DEFINE p == Pick(s)
  <2>6. p \in S /\ s \ {p} \in SUBSET S /\ s \ {p} \subseteq s /\ s \ {p} # s
    BY <2>4, <2>5, PickIn
  <2>7. it[s] = f[p] + it[s \ {p}] /\ jt[s] = g[p] + jt[s \ {p}]
    BY <1>1, <1>2, <2>4, <2>5 DEF Sums, Unfolds
  <2> HIDE DEF p
  <2>8. it[s \ {p}] <= jt[s \ {p}]
    BY <2>3, <2>6 DEF Smallest
  <2>9. it[s \ {p}] \in Int /\ jt[s \ {p}] \in Int
    BY <1>1, <1>2, <2>6 DEF Sums
  <2>10. f[p] \in Int /\ g[p] \in Int /\ f[p] <= g[p]
    BY <2>6 DEF Numbers
  <2> QED BY <2>4, <2>7, <2>8, <2>9, <2>10
<1>4. it[S] <= jt[S]
  BY <1>3
<1> QED BY <1>1, <1>2, <1>4 DEF Sums

LEMMA SumEmpty == ASSUME NEW f PROVE Sum(f, {}) = 0
<1>1. IsFiniteSet({}) /\ Numbers(f, {})
  BY FS_EmptySet DEF Numbers
<1>2. PICK it : Sums(it, f, {})
  BY <1>1, SumIs
<1> QED BY <1>2 DEF Sums, Unfolds

\* The model's sums are these.
LEMMA UsableSum ==
  ASSUME NEW S, IsFiniteSet(S), S \subseteq Requests
  PROVE  MapThenSumSet(Usable, S) = Sum([r \in Requests |-> Usable(r)], S)
<1> DEFINE f == [r \in Requests |-> Usable(r)]
           E(it) == it = [s \in SUBSET S |-> IF s = {} THEN 0 ELSE Usable(Pick(s)) + it[s \ {Pick(s)}]]
<1>1. MapThenSumSet(Usable, S) = (CHOOSE it : E(it))[S]
  BY DEF MapThenSumSet, MapThenFoldSet, Pick
<1>2. \A s \in SUBSET S : s # {} => f[Pick(s)] = Usable(Pick(s))
  BY PickIn
<1>3. ASSUME NEW it PROVE E(it) <=> IsSum(it, f, S)
  <2> HIDE DEF f
  <2>1. [s \in SUBSET S |-> IF s = {} THEN 0 ELSE Usable(Pick(s)) + it[s \ {Pick(s)}]]
        = [s \in SUBSET S |-> IF s = {} THEN 0 ELSE f[Pick(s)] + it[s \ {Pick(s)}]]
    BY <1>2
  <2> QED BY <2>1 DEF IsSum
<1> HIDE DEF f, E
<1>4. \E it : IsSum(it, f, S)
  BY SumExists
<1>5. E(CHOOSE it : E(it)) /\ IsSum(CHOOSE it : IsSum(it, f, S), f, S)
  BY <1>3, <1>4
<1>6. (CHOOSE it : E(it))[S] = (CHOOSE it : IsSum(it, f, S))[S]
  BY <1>3, <1>5, SumUnique
<1>7. MapThenSumSet(Usable, S) = Sum(f, S)
  BY <1>1, <1>6 DEF Sum
<1> QED BY <1>7 DEF f

LEMMA ChargeSum ==
  ASSUME NEW S, IsFiniteSet(S), S \subseteq Requests
  PROVE  MapThenSumSet(Charge, S) = Sum([r \in Requests |-> Charge(r)], S)
<1> DEFINE f == [r \in Requests |-> Charge(r)]
           E(it) == it = [s \in SUBSET S |-> IF s = {} THEN 0 ELSE Charge(Pick(s)) + it[s \ {Pick(s)}]]
<1>1. MapThenSumSet(Charge, S) = (CHOOSE it : E(it))[S]
  BY DEF MapThenSumSet, MapThenFoldSet, Pick
<1>2. \A s \in SUBSET S : s # {} => f[Pick(s)] = Charge(Pick(s))
  BY PickIn
<1>3. ASSUME NEW it PROVE E(it) <=> IsSum(it, f, S)
  <2> HIDE DEF f
  <2>1. [s \in SUBSET S |-> IF s = {} THEN 0 ELSE Charge(Pick(s)) + it[s \ {Pick(s)}]]
        = [s \in SUBSET S |-> IF s = {} THEN 0 ELSE f[Pick(s)] + it[s \ {Pick(s)}]]
    BY <1>2
  <2> QED BY <2>1 DEF IsSum
<1> HIDE DEF f, E
<1>4. \E it : IsSum(it, f, S)
  BY SumExists
<1>5. E(CHOOSE it : E(it)) /\ IsSum(CHOOSE it : IsSum(it, f, S), f, S)
  BY <1>3, <1>4
<1>6. (CHOOSE it : E(it))[S] = (CHOOSE it : IsSum(it, f, S))[S]
  BY <1>3, <1>5, SumUnique
<1>7. MapThenSumSet(Charge, S) = Sum(f, S)
  BY <1>1, <1>6 DEF Sum
<1> QED BY <1>7 DEF f

----------------------------------------------------------------------------
(***************************************************************************)
(* DailyBudget.  A launch reads what its account and its browser have used *)
(* today, boots a container, and only then inserts the row.  The totals it *)
(* read stay good until then: clients that do not overlap their launches   *)
(* (AloneInv) add no row to either group meanwhile, the rows already there *)
(* are never usable for longer than they are charged for (RowInv), and if  *)
(* the day changes under the launch the groups start again from nothing    *)
(* (Counted).                                                              *)
(***************************************************************************)
usable == [r \in Requests |-> Usable(r)]
charge == [r \in Requests |-> Charge(r)]
rows == {r \in Requests : HasRow(r)}
today == now \div DayLength

OfUser(u) == {r \in Requests : UserOf[r] = u}
OfBrowser(b) == {r \in Requests : BrowserOf[r] = b}

OnDay(G, day) == {r \in G : HasRow(r) /\ row[r].started \div DayLength = day}
Total(G, day) == Sum(usable, OnDay(G, day))

\* n covers what the sessions of G started today are usable for.
Counted(G, n) == OnDay(G, today) = {} \/ Total(G, today) <= n

\* The awaits after the usage was read and found below the cap.
PastUsage == {"checkActive"} \cup PastCheck

RowInv(r) ==
  HasRow(r) =>
    /\ row[r].started <= now
    /\ Closed(r) => firstEnd[r] <= now /\ Least(firstEnd[r], row[r].expires) <= row[r].stopped

GrantInv(r) ==
  /\ pc[r] \in PastUsage => used[r] < DailyCap
  /\ pc[r] = "insert" => grant[r] <= now + Least(SessionLength, DailyCap - used[r])
  /\ pc[r] \in {"userUsage"} \cup PastUsage => Counted(OfBrowser(BrowserOf[r]), used[r])
  /\ pc[r] \in PastUsage => Counted(OfUser(UserOf[r]), used[r])

WithinCap ==
  \A day \in Nat :
    /\ \A u \in Users : Total(OfUser(u), day) <= DailyCap
    /\ \A b \in Browsers : Total(OfBrowser(b), day) <= DailyCap

BudgetInv ==
  /\ IsFiniteSet(rows)
  /\ \A r \in Requests : RowInv(r) /\ GrantInv(r)
  /\ WithinCap

\* Days are counted in order, and a day begins at a multiple of its length.
LEMMA DaysInOrder ==
  ASSUME NEW s \in Nat, NEW t \in Nat, s <= t
  PROVE  /\ s \div DayLength \in Nat /\ t \div DayLength \in Nat
         /\ s \div DayLength <= t \div DayLength
         /\ s >= t - (t % DayLength) <=> s \div DayLength = t \div DayLength
<1> DEFINE L == DayLength
           a == s \div L
           b == t \div L
           i == s % L
           j == t % L
<1>1. L \in Nat \ {0}
  BY LimitsAssumption
<1> HIDE DEF L
<1>2. i \in 0..(L - 1) /\ j \in 0..(L - 1)
  BY <1>1
<1>3. s = L * a + i /\ t = L * b + j
  BY <1>1
<1>4. a \in Nat /\ b \in Nat
  BY <1>1
<1> HIDE DEF a, b, i, j
<1>5. L * a \in Int /\ L * b \in Int
  BY <1>1, <1>4
<1>6. a <= b
  <2> SUFFICES ASSUME b + 1 <= a PROVE FALSE
    BY <1>4
  <2>1. L * (b + 1) <= L * a
    BY <1>1, <1>4
  <2>2. L * (b + 1) = L * b + L
    BY <1>1, <1>4
  <2> QED BY <1>1, <1>2, <1>3, <1>5, <2>1, <2>2
<1>7. s >= t - j => b <= a
  <2> SUFFICES ASSUME s >= t - j, a + 1 <= b PROVE FALSE
    BY <1>4
  <2>1. L * (a + 1) <= L * b
    BY <1>1, <1>4
  <2>2. L * (a + 1) = L * a + L
    BY <1>1, <1>4
  <2> QED BY <1>1, <1>2, <1>3, <1>5, <2>1, <2>2
<1>8. a = b => s >= t - j
  <2> SUFFICES ASSUME a = b PROVE s >= t - j
    OBVIOUS
  <2>1. L * a = L * b
    OBVIOUS
  <2> QED BY <1>2, <1>3, <1>5, <2>1
<1> QED BY <1>4, <1>6, <1>7, <1>8 DEF L, a, b, i, j

LEMMA TableNumbers ==
  ASSUME TypeOK, NEW S \in SUBSET Requests
  PROVE  Numbers(usable, S) /\ Numbers(charge, S)
  BY DEF TypeOK, Row, Numbers, usable, charge, Usable, Charge, Least

\* The same of the next state.
LEMMA TableNumbersNext ==
  ASSUME TypeOK', NEW S \in SUBSET Requests
  PROVE  Numbers(usable', S)
  BY DEF TypeOK, Row, Numbers, usable, Usable, Least

\* Every total is a sum of numbers over finitely many rows.
LEMMA TotalIs ==
  ASSUME TypeOK, IsFiniteSet(rows), NEW G \in SUBSET Requests, NEW day
  PROVE  /\ OnDay(G, day) \in SUBSET Requests
         /\ IsFiniteSet(OnDay(G, day))
         /\ Total(G, day) \in Int
<1>1. OnDay(G, day) \in SUBSET Requests /\ OnDay(G, day) \subseteq rows
  BY DEF OnDay, rows
<1>2. IsFiniteSet(OnDay(G, day))
  BY <1>1, FS_Subset
<1>3. Numbers(usable, OnDay(G, day))
  BY <1>1, TableNumbers
<1>4. Sum(usable, OnDay(G, day)) <= Sum(usable, OnDay(G, day)) /\ Sum(usable, OnDay(G, day)) \in Int
  <2> DEFINE S == OnDay(G, day)
  <2>1. \A x \in S : usable[x] \in Int /\ usable[x] <= usable[x]
    BY <1>3 DEF Numbers
  <2> HIDE DEF S
  <2> QED BY <1>2, <1>3, <2>1, SumMonotone DEF S
<1> QED BY <1>1, <1>2, <1>4 DEF Total

----------------------------------------------------------------------------
(* Steps that add no row *)

SameRows ==
  /\ now' \in {now, now + 1}
  /\ \A r \in Requests :
       /\ HasRow(r)' = HasRow(r)
       /\ HasRow(r) => row'[r].started = row[r].started /\ usable'[r] <= usable[r]
       /\ RowInv(r)'

RowsInv == \A r \in Requests : RowInv(r)

LEMMA UnmarkedRows ==
  ASSUME TypeOK, RowsInv, UNCHANGED <<row, firstEnd>>, now' \in {now, now + 1}
  PROVE  SameRows
<1>1. \A r \in Requests : HasRow(r)' = HasRow(r)
  BY DEF HasRow
<1>2. \A r \in Requests : row'[r].started = row[r].started /\ usable'[r] <= usable[r]
  <2>1. usable' = usable
    BY DEF usable, Usable, Closed
  <2>2. \A r \in Requests : usable[r] \in Int
    BY TableNumbers DEF Numbers
  <2> QED BY <2>1, <2>2
<1>3. \A r \in Requests : RowInv(r)'
  <2> SUFFICES ASSUME NEW r \in Requests, HasRow(r) PROVE RowInv(r)'
    BY <1>1 DEF RowInv
  <2>1. RowInv(r)
    BY DEF RowsInv
  <2>2. now \in Nat /\ row[r] \in Row /\ firstEnd[r] \in Int
    BY DEF TypeOK
  <2>3. now <= now'
    BY <2>2
  <2>4. Closed(r)' = Closed(r)
    BY DEF Closed
  <2> QED BY <2>1, <2>2, <2>3, <2>4 DEF RowInv, Row
<1> QED BY <1>1, <1>2, <1>3 DEF SameRows

\* However often a row is marked, it is charged for what could be used of it.
LEMMA MarkedRows ==
  ASSUME TypeOK, TypeOK', RowsInv, now' = now, NEW r \in Requests, HasRow(r),
         NEW reason \in {"expired", "ended"}, NEW at \in {now, Least(now, row[r].expires)},
         Mark(r, reason, at)
  PROVE  SameRows
<1>1. now \in Nat /\ row \in [Requests -> Row] /\ firstEnd \in [Requests -> Int]
  BY DEF TypeOK
<1>2. ASSUME NEW q \in Requests, q # r
      PROVE  row'[q] = row[q] /\ firstEnd'[q] = firstEnd[q]
  BY <1>1, <1>2 DEF Mark, Marked
<1>3. /\ row'[r].started = row[r].started /\ row'[r].expires = row[r].expires
      /\ row'[r].stopped = at /\ row'[r].status = reason
      /\ firstEnd'[r] = IF Open(r) THEN at ELSE firstEnd[r]
  BY <1>1 DEF Mark, Marked, Row
<1>4. row[r].expires \in Int /\ row[r].started \in Int /\ at \in Int /\ firstEnd[r] \in Int
  BY <1>1 DEF Row, Least
<1>5. at <= now /\ Least(now, row[r].expires) <= at
  BY <1>1, <1>4 DEF Least
<1>6. RowInv(r) /\ Closed(r)' /\ HasRow(r)'
  BY <1>3 DEF RowsInv, Closed, HasRow
<1>7. Open(r) \/ Closed(r)
  BY <1>1 DEF Open, Closed, HasRow, Row
<1>8. firstEnd'[r] <= now /\ Least(firstEnd'[r], row[r].expires) <= at
  <2>1. CASE Open(r)
    BY <1>3, <1>4, <1>5, <2>1, <1>1 DEF Least
  <2>2. CASE ~Open(r)
    <3>1. firstEnd[r] <= now
      BY <1>6, <1>7, <2>2 DEF RowInv
    <3> QED BY <1>1, <1>3, <1>4, <1>5, <2>2, <3>1 DEF Least
  <2> QED BY <2>1, <2>2
<1>9. RowInv(r)'
  BY <1>3, <1>6, <1>8 DEF RowInv
<1>10. usable'[r] <= usable[r]
  <2>1. usable'[r] = Least(firstEnd'[r], row[r].expires) - row[r].started
    BY <1>3, <1>6 DEF usable, Usable
  <2>2. CASE Open(r)
    <3>1. usable[r] = row[r].expires - row[r].started
      BY <2>2 DEF usable, Usable, Open, Closed
    <3> QED BY <1>3, <1>4, <2>1, <2>2, <3>1 DEF Least
  <2>3. CASE ~Open(r)
    <3>1. usable[r] = Least(firstEnd[r], row[r].expires) - row[r].started
      BY <1>7, <2>3 DEF usable, Usable
    <3> QED BY <1>3, <1>4, <2>1, <2>3, <3>1 DEF Least
  <2> QED BY <2>2, <2>3
<1>11. ASSUME NEW q \in Requests, q # r
       PROVE  HasRow(q)' = HasRow(q) /\ RowInv(q)' /\ usable'[q] <= usable[q]
  <2>1. HasRow(q)' = HasRow(q) /\ Closed(q)' = Closed(q) /\ RowInv(q)
    BY <1>2, <1>11 DEF HasRow, Closed, RowsInv
  <2>2. RowInv(q)'
    BY <1>2, <1>11, <2>1 DEF RowInv
  <2>3. usable'[q] = usable[q] /\ usable[q] \in Int
    BY <1>1, <1>2, <1>11, <2>1 DEF usable, Usable, Row, Least
  <2> QED BY <2>1, <2>2, <2>3
<1>12. HasRow(r)' = HasRow(r)
  BY <1>6 DEF HasRow
<1>13. ASSUME NEW q \in Requests
       PROVE  /\ HasRow(q)' = HasRow(q)
              /\ row'[q].started = row[q].started /\ usable'[q] <= usable[q]
              /\ RowInv(q)'
  <2>1. CASE q = r
    BY <1>3, <1>9, <1>10, <1>12, <2>1
  <2>2. CASE q # r
    BY <1>2, <1>11, <2>2
  <2> QED BY <2>1, <2>2
<1> QED BY <1>13 DEF SameRows

\* A row is charged for what could be used of it.
LEMMA RowCharge ==
  ASSUME TypeOK, NEW r \in Requests, HasRow(r), RowInv(r)
  PROVE  usable[r] <= charge[r]
<1>1. now \in Nat /\ row[r] \in Row /\ firstEnd[r] \in Int
  BY DEF TypeOK
<1>2. Open(r) \/ Closed(r)
  BY <1>1 DEF HasRow, Open, Closed, Row
<1>3. CASE Open(r)
  <2>1. usable[r] = row[r].expires - row[r].started /\ charge[r] = row[r].expires - row[r].started
    BY <1>3 DEF usable, charge, Usable, Charge, Open, Closed
  <2> QED BY <1>1, <2>1 DEF Row
<1>4. CASE Closed(r)
  <2>1. /\ usable[r] = Least(firstEnd[r], row[r].expires) - row[r].started
        /\ charge[r] = row[r].stopped - row[r].started
    BY <1>4 DEF usable, charge, Usable, Charge, Open, Closed
  <2> QED BY <1>1, <1>4, <2>1 DEF RowInv, Row, Least
<1> QED BY <1>2, <1>3, <1>4

\* A row that was just inserted started at its own now, and nobody marked it.
LEMMA InsertedRows ==
  ASSUME TypeOK, RowsInv, NEW r \in Requests, row' = InsertedRow(r), UNCHANGED <<now, firstEnd>>
  PROVE  RowsInv'
<1>1. /\ now \in Nat
      /\ row'[r] = [status |-> "open", started |-> now, expires |-> grant[r], stopped |-> 0]
      /\ \A q \in Requests : q # r => row'[q] = row[q]
  BY DEF TypeOK, InsertedRow
<1>2. RowInv(r)'
  BY <1>1 DEF RowInv, Closed
<1>3. ASSUME NEW q \in Requests, q # r PROVE RowInv(q)'
  <2>1. RowInv(q) /\ Closed(q)' = Closed(q) /\ HasRow(q)' = HasRow(q)
    BY <1>1, <1>3 DEF RowsInv, Closed, HasRow
  <2> QED BY <1>1, <1>3, <2>1 DEF RowInv
<1> QED BY <1>2, <1>3 DEF RowsInv

\* Every step keeps what is known of the rows, whoever marks which row again.
LEMMA RowsStep ==
  ASSUME IInv, TypeOK', RowsInv, [Next]_vars
  PROVE  RowsInv'
<1>0. TypeOK
  BY DEF IInv
<1>1. ASSUME UNCHANGED <<row, firstEnd>>, now' \in {now, now + 1} PROVE RowsInv'
  BY <1>0, <1>1, UnmarkedRows DEF SameRows, RowsInv
<1>2. ASSUME NEW r \in Requests, HasRow(r), now' = now, NEW reason \in {"expired", "ended"},
             NEW at \in {now, Least(now, row[r].expires)},
             Mark(r, reason, at) \/ UNCHANGED <<row, firstEnd>>
      PROVE  RowsInv'
  BY <1>0, <1>1, <1>2, MarkedRows DEF SameRows, RowsInv
<1>3. ASSUME NEW r \in Requests, FindActive(r) \/ LaunchStep(r) \/ PublicIpFound(r)
      PROVE  RowsInv'
  <2>1. CASE InsertSession(r) \/ InsertFails(r)
    <3>1. row' \in {row, InsertedRow(r)} /\ UNCHANGED <<now, firstEnd>>
      BY <2>1 DEF InsertSession, InsertFails, NotLaunch
    <3> QED BY <1>0, <1>1, <3>1, InsertedRows
  <2>2. CASE ~(InsertSession(r) \/ InsertFails(r))
    <3>1. UNCHANGED <<row, firstEnd, now>>
      BY <1>3, <2>2
      DEF LaunchStep, FindActive, ReadBrowserUsage, ReadUserUsage, CheckActive, QueryFails,
          RunTaskReturns, RunTaskFails, NeverReachable, StopUnreachable, PublicIpFound, NotLaunch
    <3> QED BY <1>1, <3>1
  <2> QED BY <2>1, <2>2
<1>4. ASSUME NEW w \in Sweeps, NEW r \in Requests, SweepRow(w, r) PROVE RowsInv'
  <2>1. CASE SweepMark(w, r) \/ SweepMarkFails(w, r)
    <3>1. /\ HasRow(r) /\ now' = now
          /\ Mark(r, "expired", Least(now, row[r].expires)) \/ UNCHANGED <<row, firstEnd>>
      BY <2>1 DEF SweepMark, SweepMarkFails, MarkThrows, IInv, SweepInv, NotSweep
    <3> QED BY <1>2, <3>1
  <2>2. CASE SweepStopOk(w, r) \/ SweepStopFails(w, r) \/ SweepCheck(w, r)
    BY <1>1, <2>2 DEF SweepStopOk, SweepStopFails, SweepCheck, NotSweep
  <2> QED BY <1>4, <2>1, <2>2 DEF SweepRow
<1>5. ASSUME NEW e \in EndHandlers, EndStep(e) PROVE RowsInv'
  <2>1. CASE EndMark(e) \/ EndMarkFails(e)
    <3>1. /\ SessionOf[e] \in Requests /\ HasRow(SessionOf[e]) /\ now' = now
          /\ Mark(SessionOf[e], "ended", now) \/ UNCHANGED <<row, firstEnd>>
      BY <2>1, RequestsAssumption DEF EndMark, EndMarkFails, MarkThrows, IInv, EndInv, NotEnd
    <3> QED BY <1>2, <3>1
  <2>2. CASE EndAuthorized(e) \/ EndSelect(e) \/ EndStopOk(e) \/ EndStopFails(e) \/ EndCheck(e)
    BY <1>1, <2>2 DEF EndAuthorized, EndSelect, EndStopOk, EndStopFails, EndCheck, NotEnd
  <2> QED BY <1>5, <2>1, <2>2 DEF EndStep
<1>6. CASE \/ \E r \in Requests : RunTaskArrives(r) \/ TaskStops(r)
           \/ \E w \in Sweeps : SweepSelect(w)
           \/ Tick \/ Crash \/ UNCHANGED vars
  BY <1>1, <1>6 DEF RunTaskArrives, TaskStops, SweepSelect, NotSweep, Tick, Crash, vars
<1> QED BY <1>3, <1>4, <1>5, <1>6 DEF Next

\* No order of sweeps, End-session requests and crashes, none of whose UPDATEs
\* looks whether the row is marked already, ever gives time back that could be
\* used: without any condition on how launches overlap.
THEOREM ChargeAlwaysCovers == Spec => []ChargeCoversUse
<1>1. Init => RowsInv
  BY DEF Init, RowsInv, RowInv, HasRow, NoRow
<1>2. IInv /\ IInv' /\ RowsInv /\ [Next]_vars => RowsInv'
  BY RowsStep DEF IInv
<1>3. IInv /\ RowsInv => ChargeCoversUse
  <2> SUFFICES ASSUME IInv, RowsInv, NEW r \in Requests, row[r].status # "absent"
               PROVE  Usable(r) <= Charge(r)
    BY DEF ChargeCoversUse
  <2>1. usable[r] <= charge[r]
    BY RowCharge DEF IInv, RowsInv, HasRow
  <2> QED BY <2>1 DEF usable, charge
<1> QED BY <1>1, <1>2, <1>3, Invariance, PTL DEF Spec

\* No total grows, and a total that was read today stays good.
LEMMA TotalsKept ==
  ASSUME TypeOK, TypeOK', BudgetInv, SameRows
  PROVE  /\ IsFiniteSet(rows')
         /\ \A r \in Requests : RowInv(r)'
         /\ WithinCap'
         /\ \A G \in SUBSET Requests : \A n \in Int : Counted(G, n) => Counted(G, n)'
<1>1. rows' = rows /\ IsFiniteSet(rows)
  BY DEF rows, SameRows, BudgetInv
<1>2. ASSUME NEW G \in SUBSET Requests, NEW day
      PROVE  OnDay(G, day)' = OnDay(G, day) /\ Total(G, day)' <= Total(G, day)
             /\ Total(G, day) \in Int /\ Total(G, day)' \in Int
  <2>1. OnDay(G, day)' = OnDay(G, day)
    BY DEF OnDay, SameRows
  <2> DEFINE S == OnDay(G, day)
  <2>2. S \in SUBSET Requests /\ IsFiniteSet(S)
    BY <1>1, TotalIs
  <2>3. \A x \in S : usable'[x] <= usable[x]
    BY DEF OnDay, SameRows
  <2>4. Numbers(usable, S) /\ Numbers(usable', S)
    BY <2>2, TableNumbers, TableNumbersNext
  <2> HIDE DEF S
  <2>5. Sum(usable', S) <= Sum(usable, S) /\ Sum(usable, S) \in Int /\ Sum(usable', S) \in Int
    BY <2>2, <2>3, <2>4, SumMonotone
  <2>6. Total(G, day)' = Sum(usable', OnDay(G, day)')
    BY DEF Total, Sum, IsSum
  <2> QED BY <2>1, <2>5, <2>6 DEF S, Total
<1>3. \A u : OfUser(u) \in SUBSET Requests
  BY DEF OfUser
<1>4. \A b : OfBrowser(b) \in SUBSET Requests
  BY DEF OfBrowser
<1>5. WithinCap'
  <2> SUFFICES ASSUME NEW day \in Nat
               PROVE  /\ \A u \in Users : Total(OfUser(u), day)' <= DailyCap
                      /\ \A b \in Browsers : Total(OfBrowser(b), day)' <= DailyCap
    BY DEF WithinCap
  <2>1. DailyCap \in Int
    BY LimitsAssumption
  <2>2. ASSUME NEW u \in Users PROVE Total(OfUser(u), day)' <= DailyCap
    <3>1. Total(OfUser(u), day) <= DailyCap
      BY DEF BudgetInv, WithinCap
    <3>2. /\ Total(OfUser(u), day)' <= Total(OfUser(u), day)
          /\ Total(OfUser(u), day) \in Int /\ Total(OfUser(u), day)' \in Int
      BY <1>2, <1>3
    <3> QED BY <2>1, <3>1, <3>2
  <2>3. ASSUME NEW b \in Browsers PROVE Total(OfBrowser(b), day)' <= DailyCap
    <3>1. Total(OfBrowser(b), day) <= DailyCap
      BY DEF BudgetInv, WithinCap
    <3>2. /\ Total(OfBrowser(b), day)' <= Total(OfBrowser(b), day)
          /\ Total(OfBrowser(b), day) \in Int /\ Total(OfBrowser(b), day)' \in Int
      BY <1>2, <1>4
    <3> QED BY <2>1, <3>1, <3>2
  <2> QED BY <2>2, <2>3
<1>6. ASSUME NEW G \in SUBSET Requests, NEW n \in Int, Counted(G, n) PROVE Counted(G, n)'
  <2>0. PICK d : d = now' \div DayLength
    OBVIOUS
  <2>1. Counted(G, n)' <=> OnDay(G, d)' = {} \/ Total(G, d)' <= n
    BY <2>0 DEF Counted, today
  <2>2. OnDay(G, d)' = OnDay(G, d) /\ Total(G, d)' <= Total(G, d)
        /\ Total(G, d) \in Int /\ Total(G, d)' \in Int
    BY <1>2
  <2>3. now \in Nat /\ now' \in Nat /\ now <= now'
    BY DEF TypeOK, SameRows
  <2>4. CASE d = today
    <3>1. OnDay(G, d) = {} \/ Total(G, d) <= n
      BY <1>6, <2>4 DEF Counted
    <3> QED BY <2>1, <2>2, <3>1
  <2>5. CASE d # today
    <3>1. ASSUME NEW q \in OnDay(G, d) PROVE FALSE
      <4>1. q \in Requests /\ HasRow(q) /\ row[q].started \div DayLength = d
        BY DEF OnDay
      <4>2. row[q].started \in Nat /\ row[q].started <= now
        BY <4>1 DEF BudgetInv, RowInv, TypeOK, Row
      <4>3. row[q].started \div DayLength <= today /\ today <= d
            /\ row[q].started \div DayLength \in Nat /\ today \in Nat
        BY <2>0, <2>3, <4>2, DaysInOrder DEF today
      <4> QED BY <2>5, <4>1, <4>3
    <3> QED BY <2>1, <2>2, <3>1
  <2> QED BY <2>4, <2>5
<1> QED BY <1>1, <1>5, <1>6 DEF SameRows

\* A step that adds no row and advances no launch keeps the invariant.
LEMMA CalmBudget ==
  ASSUME TypeOK, TypeOK', BudgetInv, SameRows, UNCHANGED <<used, grant>>,
         \A q \in Requests : /\ pc'[q] \in PastUsage => pc[q] \in PastUsage
                             /\ pc'[q] = "userUsage" => pc[q] \in {"userUsage"} \cup PastUsage
                             /\ pc'[q] = "insert" => pc[q] = "insert"
  PROVE  BudgetInv'
<1>1. ASSUME NEW q \in Requests PROVE GrantInv(q)'
  <2>1. GrantInv(q)
    BY DEF BudgetInv
  <2>2. /\ OfBrowser(BrowserOf[q]) \in SUBSET Requests /\ OfUser(UserOf[q]) \in SUBSET Requests
        /\ used[q] \in Int /\ grant[q] \in Int /\ now \in Nat
        /\ SessionLength \in Int /\ DailyCap \in Int
    BY LimitsAssumption DEF OfBrowser, OfUser, TypeOK
  <2>3. /\ pc'[q] \in {"userUsage"} \cup PastUsage => Counted(OfBrowser(BrowserOf[q]), used[q])'
        /\ pc'[q] \in PastUsage => Counted(OfUser(UserOf[q]), used[q])'
    <3>1. Counted(OfBrowser(BrowserOf[q]), used[q]) => Counted(OfBrowser(BrowserOf[q]), used[q])'
      <4>1. PICK n \in Int : n = used[q]
        BY <2>2
      <4>2. Counted(OfBrowser(BrowserOf[q]), n) => Counted(OfBrowser(BrowserOf[q]), n)'
        BY <2>2, TotalsKept
      <4>3. used'[q] = n
        BY <4>1
      <4> QED BY <4>1, <4>2, <4>3 DEF Counted, OfBrowser
    <3>2. Counted(OfUser(UserOf[q]), used[q]) => Counted(OfUser(UserOf[q]), used[q])'
      <4>1. PICK n \in Int : n = used[q]
        BY <2>2
      <4>2. Counted(OfUser(UserOf[q]), n) => Counted(OfUser(UserOf[q]), n)'
        BY <2>2, TotalsKept
      <4>3. used'[q] = n
        BY <4>1
      <4> QED BY <4>1, <4>2, <4>3 DEF Counted, OfUser
    <3> QED BY <2>1, <3>1, <3>2 DEF GrantInv
  <2>4. pc'[q] \in PastUsage => used'[q] < DailyCap
    BY <2>1 DEF GrantInv
  <2>5. pc'[q] = "insert" => grant'[q] <= now' + Least(SessionLength, DailyCap - used'[q])
    <3>1. now' >= now /\ now' \in Nat
      BY <2>2 DEF SameRows
    <3>2. pc'[q] = "insert" => grant[q] <= now + Least(SessionLength, DailyCap - used[q])
      BY <2>1 DEF GrantInv
    <3>3. Least(SessionLength, DailyCap - used[q]) \in Int
      BY <2>2 DEF Least
    <3> QED BY <2>2, <3>1, <3>2, <3>3
  <2> QED BY <2>3, <2>4, <2>5 DEF GrantInv
<1> QED BY <1>1, TotalsKept DEF BudgetInv

----------------------------------------------------------------------------
(* The steps of a launch on which the budget turns *)

\* What the two usage queries return covers what today's sessions are usable for.
LEMMA UsageCovers ==
  ASSUME TypeOK, BudgetInv, NEW G \in SUBSET Requests
  PROVE  Counted(G, UsageOf(G)) /\ UsageOf(G) \in Int
<1> DEFINE S == OnDay(G, today)
<1>0. now \in Nat /\ row \in [Requests -> Row] /\ firstEnd \in [Requests -> Int]
  BY DEF TypeOK
<1>1. {r \in G : StartedToday(r)} = S
  <2>1. ASSUME NEW r \in G, HasRow(r)
        PROVE  row[r].started >= now - (now % DayLength) <=> row[r].started \div DayLength = today
    <3>1. row[r].started \in Nat /\ row[r].started <= now
      BY <1>0, <2>1 DEF BudgetInv, RowInv, Row
    <3> QED BY <1>0, <3>1, DaysInOrder DEF today
  <2> QED BY <2>1 DEF OnDay, StartedToday, HasRow
<1>2. S \in SUBSET Requests /\ IsFiniteSet(S) /\ Total(G, today) \in Int
  BY TotalIs DEF BudgetInv
<1>3. ASSUME NEW r \in S PROVE usable[r] <= charge[r]
  BY RowCharge DEF OnDay, BudgetInv
<1>4. Numbers(usable, S) /\ Numbers(charge, S)
  BY <1>2, TableNumbers
<1> HIDE DEF S
<1>5. Sum(usable, S) <= Sum(charge, S) /\ Sum(charge, S) \in Int
  BY <1>2, <1>3, <1>4, SumMonotone
<1>6. MapThenSumSet(Charge, S) = Sum(charge, S)
  BY <1>2, ChargeSum DEF charge
<1>7. UsageOf(G) = Sum(charge, S)
  BY <1>1, <1>5, <1>6 DEF UsageOf, NumberOrZero
<1> QED BY <1>5, <1>7 DEF Counted, Total, S

\* Counting more covers as much.
LEMMA CountedMore ==
  ASSUME TypeOK, BudgetInv, NEW G \in SUBSET Requests, NEW n \in Int, NEW m \in Int, n <= m, Counted(G, n)
  PROVE  Counted(G, m)
<1>1. Total(G, today) \in Int
  BY TotalIs DEF BudgetInv
<1> QED BY <1>1 DEF Counted

\* A launch that reads keeps the table and what the others know of it.
LEMMA ReaderBudget ==
  ASSUME TypeOK, TypeOK', BudgetInv, NEW r \in Requests,
         UNCHANGED <<row, firstEnd, now>>,
         \A q \in Requests : q # r => pc'[q] = pc[q] /\ used'[q] = used[q] /\ grant'[q] = grant[q],
         GrantInv(r)'
  PROVE  BudgetInv'
<1>1. SameRows
  BY UnmarkedRows DEF BudgetInv, RowsInv
<1>2. ASSUME NEW q \in Requests PROVE GrantInv(q)'
  <2>1. CASE q = r
    BY <2>1
  <2>2. CASE q # r
    <3>1. GrantInv(q)
      BY DEF BudgetInv
    <3>2. Counted(OfBrowser(BrowserOf[q]), used[q])' = Counted(OfBrowser(BrowserOf[q]), used[q])
          /\ Counted(OfUser(UserOf[q]), used[q])' = Counted(OfUser(UserOf[q]), used[q])
      BY <2>2 DEF Counted, Total, OnDay, today, HasRow, usable, Usable, Closed, Sum, IsSum, OfBrowser, OfUser
    <3> QED BY <2>2, <3>1, <3>2 DEF GrantInv
  <2> QED BY <2>1, <2>2
<1> QED BY <1>1, <1>2, TotalsKept DEF BudgetInv

\* The reads and the grant of a launch.
LEMMA LaunchReads ==
  ASSUME TypeOK, TypeOK', BudgetInv, NEW r \in Requests,
         ReadBrowserUsage(r) \/ ReadUserUsage(r) \/ PublicIpFound(r)
  PROVE  BudgetInv'
<1>1. /\ UNCHANGED <<row, firstEnd, now>>
      /\ \A q \in Requests : q # r => pc'[q] = pc[q] /\ used'[q] = used[q] /\ grant'[q] = grant[q]
  BY DEF ReadBrowserUsage, ReadUserUsage, PublicIpFound, NotLaunch, Goto, TypeOK
<1> DEFINE B == OfBrowser(BrowserOf[r])
           U == OfUser(UserOf[r])
<1>2. B \in SUBSET Requests /\ U \in SUBSET Requests
  BY DEF OfBrowser, OfUser
<1>3. \A n : /\ used'[r] = n /\ Counted(B, n) => Counted(B, used[r])'
             /\ used'[r] = n /\ Counted(U, n) => Counted(U, used[r])'
  <2>1. usable' = usable /\ today' = today /\ \A q \in Requests : HasRow(q)' = HasRow(q)
    BY <1>1 DEF usable, Usable, Closed, today, HasRow
  <2>2. ASSUME NEW G \in SUBSET Requests, NEW n, used'[r] = n, Counted(G, n)
        PROVE  Counted(G, used[r])'
    <3>1. PICK d : d = today
      OBVIOUS
    <3>2. OnDay(G, d)' = OnDay(G, d)
      BY <1>1, <2>1 DEF OnDay
    <3>3. Total(G, d)' = Sum(usable', OnDay(G, d)')
      BY DEF Total, Sum, IsSum
    <3>4. Total(G, d)' = Total(G, d)
      BY <2>1, <3>2, <3>3 DEF Total
    <3>5. OnDay(G, d) = {} \/ Total(G, d) <= n
      BY <2>2, <3>1 DEF Counted
    <3>6. OnDay(G, d)' = {} \/ Total(G, d)' <= used'[r]
      BY <2>2, <3>2, <3>4, <3>5
    <3>7. today' = d
      BY <2>1, <3>1
    <3> QED BY <3>6, <3>7 DEF Counted
  <2>3. B' = B /\ U' = U
    BY DEF OfBrowser, OfUser
  <2> QED BY <1>2, <2>2, <2>3 DEF Counted, OfBrowser, OfUser
<1>4. GrantInv(r) /\ used[r] \in Int /\ now \in Nat /\ SessionLength \in Int /\ DailyCap \in Int
  BY LimitsAssumption DEF BudgetInv, TypeOK
<1> HIDE DEF B, U
<1>5. CASE ReadBrowserUsage(r)
  <2>1. used'[r] = UsageOf(B) /\ pc'[r] = "userUsage"
    BY <1>5 DEF ReadBrowserUsage, Goto, TypeOK, DailyUsage, B, OfBrowser
  <2>2. Counted(B, used[r])'
    BY <1>2, <1>3, <2>1, UsageCovers
  <2>3. GrantInv(r)'
    BY <2>1, <2>2 DEF GrantInv, PastUsage, PastCheck, B
  <2> QED BY <1>1, <2>3, ReaderBudget
<1>6. CASE ReadUserUsage(r)
  <2>1. /\ used'[r] = Most(used[r], UsageOf(U)) /\ pc[r] = "userUsage"
        /\ pc'[r] = IF used'[r] >= DailyCap THEN "limitDaily" ELSE "checkActive"
    BY <1>6 DEF ReadUserUsage, Goto, TypeOK, UserDailyUsage, U, OfUser
  <2>2. Counted(B, used[r])
    BY <1>4, <2>1 DEF GrantInv, B
  <2>3. Counted(U, UsageOf(U)) /\ UsageOf(U) \in Int
    BY <1>2, UsageCovers
  <2>4. used'[r] \in Int /\ used[r] <= used'[r] /\ UsageOf(U) <= used'[r]
    BY <1>4, <2>1, <2>3 DEF Most
  <2>5. Counted(B, used[r])' /\ Counted(U, used[r])'
    BY <1>2, <1>3, <1>4, <2>2, <2>3, <2>4, CountedMore
  <2>6. pc'[r] # "insert" /\ (pc'[r] \in PastUsage => used'[r] < DailyCap)
    BY <1>4, <2>1, <2>4 DEF PastUsage, PastCheck
  <2>7. GrantInv(r)'
    BY <2>5, <2>6 DEF GrantInv, B, U
  <2> QED BY <1>1, <2>7, ReaderBudget
<1>7. CASE PublicIpFound(r)
  <2>1. /\ pc[r] = "booting" /\ pc'[r] = "insert" /\ used'[r] = used[r]
        /\ grant'[r] = now + Least(SessionLength, DailyCap - used[r])
    BY <1>7 DEF PublicIpFound, Goto, TypeOK
  <2>2. used[r] < DailyCap /\ Counted(B, used[r]) /\ Counted(U, used[r])
    BY <1>4, <2>1 DEF GrantInv, PastUsage, PastCheck, B, U
  <2>3. Counted(B, used[r])' /\ Counted(U, used[r])'
    BY <1>3, <2>1, <2>2
  <2>4. grant'[r] <= now' + Least(SessionLength, DailyCap - used'[r])
    BY <1>1, <1>4, <2>1 DEF Least
  <2>5. GrantInv(r)'
    BY <2>1, <2>2, <2>3, <2>4 DEF GrantInv, B, U
  <2> QED BY <1>1, <2>5, ReaderBudget
<1> QED BY <1>5, <1>6, <1>7

\* The row of a launch fits into what its account and its browser have left.
LEMMA InsertBudget ==
  ASSUME IInv, TypeOK', AloneInv, BudgetInv, NEW r \in Requests, NEW state,
         pc[r] = "insert", row' = InsertedRow(r), pc' = [pc EXCEPT ![r] = state],
         state \notin {"userUsage"} \cup PastUsage,
         UNCHANGED <<now, used, grant, firstEnd>>
  PROVE  BudgetInv'
<1>0. /\ TypeOK /\ now \in Nat /\ row \in [Requests -> Row] /\ firstEnd \in [Requests -> Int]
      /\ pc \in [Requests -> RequestState]
      /\ grant[r] \in Int /\ used[r] \in Int /\ IsFiniteSet(rows)
      /\ SessionLength \in Nat /\ DailyCap \in Nat /\ SessionLength <= DailyCap
  BY LimitsAssumption DEF IInv, TypeOK, BudgetInv
<1>1. /\ ~HasRow(r) /\ HasRow(r)'
      /\ row'[r] = [status |-> "open", started |-> now, expires |-> grant[r], stopped |-> 0]
      /\ \A q \in Requests : q # r => row'[q] = row[q]
  <2>1. ~HasRow(r)
    BY DEF IInv, LaunchInv
  <2>2. /\ row'[r] = [status |-> "open", started |-> now, expires |-> grant[r], stopped |-> 0]
        /\ \A q \in Requests : q # r => row'[q] = row[q]
    BY <1>0 DEF InsertedRow
  <2>3. HasRow(r)'
    BY <2>2 DEF HasRow
  <2> QED BY <2>1, <2>2, <2>3
<1>2. \A q \in Requests : q # r => HasRow(q)' = HasRow(q)
  BY <1>1 DEF HasRow
<1>3. IsFiniteSet(rows')
  <2>1. rows' = rows \cup {r}
    BY <1>1, <1>2 DEF rows
  <2> QED BY <1>0, <2>1, FS_AddElement
<1>4. \A q \in Requests : RowInv(q)'
  BY <1>0, InsertedRows DEF BudgetInv, RowsInv
<1>5. \A q \in Requests : q # r => usable'[q] = usable[q]
  BY <1>1 DEF usable, Usable, Closed
<1>6. usable'[r] = grant[r] - now
  BY <1>1 DEF usable, Usable, Closed
<1>7. /\ usable'[r] <= SessionLength /\ usable'[r] <= DailyCap - used[r]
      /\ usable'[r] \in Int
  <2>1. grant[r] <= now + Least(SessionLength, DailyCap - used[r])
    BY DEF BudgetInv, GrantInv
  <2> QED BY <1>0, <1>6, <2>1 DEF Least
\* The groups and days the row is not in.
<1>8. ASSUME NEW G \in SUBSET Requests, NEW day, r \notin G \/ day # today
      PROVE  /\ OnDay(G, day)' = OnDay(G, day) /\ Total(G, day)' <= Total(G, day)
             /\ Total(G, day) \in Int /\ Total(G, day)' \in Int
  <2> DEFINE S == OnDay(G, day)
  <2>1. OnDay(G, day)' = S
    <3>1. r \notin OnDay(G, day)' /\ r \notin S
      BY <1>1, <1>8 DEF OnDay, today
    <3>2. \A q \in Requests : q # r => (q \in OnDay(G, day)' <=> q \in S)
      BY <1>1, <1>2 DEF OnDay
    <3>3. OnDay(G, day)' \subseteq Requests /\ S \subseteq Requests
      BY DEF OnDay
    <3> QED BY <3>1, <3>2, <3>3
  <2>2. S \in SUBSET Requests /\ IsFiniteSet(S) /\ r \notin S
    BY <1>0, <1>1, TotalIs DEF OnDay
  <2>3. Numbers(usable, S) /\ Numbers(usable', S)
    BY <1>0, <2>2, TableNumbers, TableNumbersNext
  <2> HIDE DEF S
  <2>4. \A x \in S : usable'[x] <= usable[x]
    BY <1>5, <2>2, <2>3 DEF Numbers
  <2>5. Sum(usable', S) <= Sum(usable, S) /\ Sum(usable, S) \in Int /\ Sum(usable', S) \in Int
    BY <2>2, <2>3, <2>4, SumMonotone
  <2>6. Total(G, day)' = Sum(usable', OnDay(G, day)')
    BY DEF Total, Sum, IsSum
  <2> QED BY <2>1, <2>5, <2>6 DEF S, Total
\* The groups it is in, on the day it starts.
<1>9. ASSUME NEW G \in SUBSET Requests, r \in G, Counted(G, used[r]), NEW day, day = today
      PROVE  Total(G, day)' <= DailyCap
  <2> DEFINE S == OnDay(G, day)
  <2>1. S \in SUBSET Requests /\ IsFiniteSet(S) /\ r \notin S /\ Total(G, day) \in Int
    BY <1>0, <1>1, TotalIs DEF OnDay
  <2>2. OnDay(G, day)' = S \cup {r}
    <3>1. r \in OnDay(G, day)'
      BY <1>1, <1>9 DEF OnDay, today
    <3>2. \A q \in Requests : q # r => (q \in OnDay(G, day)' <=> q \in S)
      BY <1>1, <1>2 DEF OnDay
    <3>3. OnDay(G, day)' \subseteq Requests /\ S \subseteq Requests
      BY DEF OnDay
    <3> QED BY <3>1, <3>2, <3>3
  <2>3. S = {} \/ Sum(usable, S) <= used[r]
    BY <1>9 DEF Counted, Total
  <2>4. Sum(usable, S) \in Int
    BY <2>1 DEF Total
  <2>5. Numbers(usable, S) /\ Numbers(usable', S) /\ Numbers(usable', S \cup {r})
    BY <1>0, <2>1, TableNumbers, TableNumbersNext
  <2> HIDE DEF S
  <2>6. \A x \in S : usable'[x] <= usable[x]
    BY <1>5, <2>1, <2>5 DEF Numbers
  <2>7. Sum(usable', S) <= Sum(usable, S) /\ Sum(usable', S) \in Int
    BY <2>1, <2>5, <2>6, SumMonotone
  <2>8. Sum(usable', S \cup {r}) = usable'[r] + Sum(usable', S)
    <3> DEFINE T == S \cup {r}
    <3>1. IsFiniteSet(T) /\ r \in T /\ T \ {r} = S /\ Numbers(usable', T)
      BY <2>1, <2>5, FS_AddElement
    <3> HIDE DEF T
    <3>2. Sum(usable', T) = usable'[r] + Sum(usable', T \ {r})
      BY <3>1, SumRemove
    <3> QED BY <3>1, <3>2 DEF T
  <2>9. Total(G, day)' = Sum(usable', OnDay(G, day)')
    BY DEF Total, Sum, IsSum
  <2>10. Total(G, day)' = usable'[r] + Sum(usable', S)
    BY <2>2, <2>8, <2>9
  <2>11. CASE S = {}
    <3>1. Sum(usable', S) = 0
      BY <2>11, SumEmpty
    <3> QED BY <1>0, <1>7, <2>10, <3>1
  <2>12. CASE Sum(usable, S) <= used[r]
    BY <1>0, <1>7, <2>4, <2>7, <2>10, <2>12
  <2> QED BY <2>3, <2>11, <2>12
<1>10. \A u : OfUser(u) \in SUBSET Requests
  BY DEF OfUser
<1>11. \A b : OfBrowser(b) \in SUBSET Requests
  BY DEF OfBrowser
<1>12. GrantInv(r)
  BY DEF BudgetInv
<1>13. pc[r] \in PastUsage /\ InFlight(r)
  BY DEF PastUsage, PastCheck, InFlight, Awaiting
<1>14. WithinCap'
  <2> SUFFICES ASSUME NEW day \in Nat
               PROVE  /\ \A u \in Users : Total(OfUser(u), day)' <= DailyCap
                      /\ \A b \in Browsers : Total(OfBrowser(b), day)' <= DailyCap
    BY DEF WithinCap
  <2>1. ASSUME NEW u \in Users PROVE Total(OfUser(u), day)' <= DailyCap
    <3>1. CASE r \in OfUser(u) /\ day = today
      <4>1. Counted(OfUser(u), used[r])
        BY <1>12, <1>13, <3>1 DEF GrantInv, OfUser
      <4> QED BY <1>9, <1>10, <3>1, <4>1
    <3>2. CASE r \notin OfUser(u) \/ day # today
      <4>1. Total(OfUser(u), day) <= DailyCap
        BY DEF BudgetInv, WithinCap
      <4>2. /\ Total(OfUser(u), day)' <= Total(OfUser(u), day)
            /\ Total(OfUser(u), day) \in Int /\ Total(OfUser(u), day)' \in Int
        BY <1>8, <1>10, <3>2
      <4> QED BY <1>0, <4>1, <4>2
    <3> QED BY <3>1, <3>2
  <2>2. ASSUME NEW b \in Browsers PROVE Total(OfBrowser(b), day)' <= DailyCap
    <3>1. CASE r \in OfBrowser(b) /\ day = today
      <4>1. Counted(OfBrowser(b), used[r])
        BY <1>12, <1>13, <3>1 DEF GrantInv, OfBrowser
      <4> QED BY <1>9, <1>11, <3>1, <4>1
    <3>2. CASE r \notin OfBrowser(b) \/ day # today
      <4>1. Total(OfBrowser(b), day) <= DailyCap
        BY DEF BudgetInv, WithinCap
      <4>2. /\ Total(OfBrowser(b), day)' <= Total(OfBrowser(b), day)
            /\ Total(OfBrowser(b), day) \in Int /\ Total(OfBrowser(b), day)' \in Int
        BY <1>8, <1>11, <3>2
      <4> QED BY <1>0, <4>1, <4>2
    <3> QED BY <3>1, <3>2
  <2> QED BY <2>1, <2>2
\* What other launches have read is about groups the row is not in.
<1>15. ASSUME NEW q \in Requests PROVE GrantInv(q)'
  <2>1. CASE q = r
    <3>1. pc'[r] = state
      BY <1>0
    <3> QED BY <2>1, <3>1 DEF GrantInv, PastUsage, PastCheck
  <2>2. CASE q # r
    <3>1. pc'[q] = pc[q] /\ GrantInv(q)
      BY <1>0, <2>2 DEF BudgetInv
    <3>2. pc[q] \in {"userUsage"} \cup PastUsage => r \notin OfUser(UserOf[q]) /\ r \notin OfBrowser(BrowserOf[q])
      BY <1>13, <2>2 DEF PastUsage, PastCheck, InFlight, Awaiting, AloneInv, Rivals, OfUser, OfBrowser
    <3>3. ASSUME NEW G \in SUBSET Requests, r \notin G, Counted(G, used[q])
          PROVE  Counted(G, used[q])'
      <4>1. PICK d : d = today
        OBVIOUS
      <4>2. OnDay(G, d)' = OnDay(G, d) /\ Total(G, d)' <= Total(G, d)
            /\ Total(G, d) \in Int /\ Total(G, d)' \in Int
        BY <1>8, <3>3
      <4>3. OnDay(G, d) = {} \/ Total(G, d) <= used[q]
        BY <3>3, <4>1 DEF Counted
      <4>4. used'[q] = used[q] /\ used[q] \in Int /\ today' = d
        BY <1>0, <4>1 DEF TypeOK, today
      <4>5. OnDay(G, d)' = {} \/ Total(G, d)' <= used[q]
        BY <4>2, <4>3, <4>4
      <4> QED BY <4>4, <4>5 DEF Counted
    <3>4. /\ Counted(OfUser(UserOf[q]), used[q])' <=> \E G : G = OfUser(UserOf[q]) /\ Counted(G, used[q])'
          /\ Counted(OfBrowser(BrowserOf[q]), used[q])' <=> \E G : G = OfBrowser(BrowserOf[q]) /\ Counted(G, used[q])'
      BY DEF OfUser, OfBrowser, Counted
    <3> QED BY <1>10, <1>11, <3>1, <3>2, <3>3, <3>4 DEF GrantInv
  <2> QED BY <2>1, <2>2
<1> QED BY <1>3, <1>4, <1>14, <1>15 DEF BudgetInv

\* Marking a row, or failing to, keeps the invariant.
LEMMA MarkBudget ==
  ASSUME TypeOK, TypeOK', BudgetInv, UNCHANGED <<now, pc, used, grant>>, NEW r \in Requests, HasRow(r),
         NEW reason \in {"expired", "ended"}, NEW at \in {now, Least(now, row[r].expires)},
         Mark(r, reason, at) \/ UNCHANGED <<row, firstEnd>>
  PROVE  BudgetInv'
<1>1. SameRows
  BY MarkedRows, UnmarkedRows DEF BudgetInv, RowsInv
<1> QED BY <1>1, CalmBudget

\* One step of the system.
LEMMA BudgetStep ==
  ASSUME IInv, TypeOK', AloneInv, BudgetInv, [Next]_vars
  PROVE  BudgetInv'
<1>0. TypeOK /\ pc \in [Requests -> RequestState]
  BY DEF IInv, TypeOK
<1>1. ASSUME UNCHANGED <<row, firstEnd, used, grant>>, now' \in {now, now + 1},
             \A q \in Requests : pc'[q] \in {"userUsage"} \cup PastUsage =>
                                   \/ pc'[q] = pc[q]
                                   \/ pc[q] \in PastUsage /\ pc'[q] \in PastUsage \ {"insert"}
      PROVE  BudgetInv'
  <2>1. SameRows
    BY <1>0, <1>1, UnmarkedRows DEF BudgetInv, RowsInv
  <2>2. \A q \in Requests : /\ pc'[q] \in PastUsage => pc[q] \in PastUsage
                            /\ pc'[q] = "userUsage" => pc[q] \in {"userUsage"} \cup PastUsage
                            /\ pc'[q] = "insert" => pc[q] = "insert"
    BY <1>1 DEF PastUsage, PastCheck
  <2> QED BY <1>0, <1>1, <2>1, <2>2, CalmBudget
<1>2. ASSUME NEW r \in Requests, FindActive(r) \/ LaunchStep(r) \/ PublicIpFound(r)
      PROVE  BudgetInv'
  <2>1. CASE ReadBrowserUsage(r) \/ ReadUserUsage(r) \/ PublicIpFound(r)
    BY <1>0, <2>1, LaunchReads
  <2>2. CASE \/ FindActive(r) \/ CheckActive(r) \/ QueryFails(r) \/ RunTaskReturns(r) \/ RunTaskFails(r)
             \/ NeverReachable(r) \/ StopUnreachable(r)
    <3>1. UNCHANGED <<row, firstEnd, used, grant, now>>
      BY <2>2 DEF FindActive, CheckActive, QueryFails, RunTaskReturns, RunTaskFails, NeverReachable,
                  StopUnreachable, NotLaunch
    <3>2. /\ \A q \in Requests : q # r => pc'[q] = pc[q]
          /\ \/ pc'[r] \notin {"userUsage"} \cup PastUsage
             \/ pc[r] \in PastUsage /\ pc'[r] \in PastUsage \ {"insert"}
      BY <1>0, <2>2
      DEF FindActive, CheckActive, QueryFails, RunTaskReturns, RunTaskFails, NeverReachable,
          StopUnreachable, Goto, PastUsage, PastCheck
    <3> QED BY <1>1, <3>1, <3>2
  <2>3. CASE InsertSession(r) \/ InsertFails(r)
    <3>1. PICK state \in {"created", "insertFailed"} :
            /\ pc' = [pc EXCEPT ![r] = state] /\ pc[r] = "insert"
            /\ row' \in {row, InsertedRow(r)} /\ UNCHANGED <<now, used, grant, firstEnd>>
      BY <2>3 DEF InsertSession, InsertFails, Goto, NotLaunch
    <3>2. state \notin {"userUsage"} \cup PastUsage
      BY DEF PastUsage, PastCheck
    <3>3. CASE row' = InsertedRow(r)
      BY <3>1, <3>2, <3>3, InsertBudget
    <3>4. CASE row' = row
      <4>1. \A q \in Requests : pc'[q] \in {"userUsage"} \cup PastUsage => pc'[q] = pc[q]
        BY <1>0, <3>1, <3>2
      <4> QED BY <1>1, <3>1, <3>4, <4>1
    <3> QED BY <3>1, <3>3, <3>4
  <2> QED BY <1>2, <2>1, <2>2, <2>3 DEF LaunchStep
<1>3. ASSUME NEW w \in Sweeps, NEW r \in Requests, SweepRow(w, r) PROVE BudgetInv'
  <2>1. CASE SweepMark(w, r) \/ SweepMarkFails(w, r)
    <3> DEFINE at == Least(now, row[r].expires)
    <3>1. HasRow(r) /\ UNCHANGED <<now, pc, used, grant>>
      BY <2>1 DEF SweepMark, SweepMarkFails, IInv, SweepInv, NotSweep, requestVars
    <3>2. Mark(r, "expired", at) \/ UNCHANGED <<row, firstEnd>>
      BY <2>1 DEF SweepMark, SweepMarkFails, MarkThrows
    <3> HIDE DEF at
    <3> QED BY <1>0, <3>1, <3>2, MarkBudget DEF at
  <2>2. CASE SweepStopOk(w, r) \/ SweepStopFails(w, r) \/ SweepCheck(w, r)
    BY <1>1, <2>2 DEF SweepStopOk, SweepStopFails, SweepCheck, NotSweep, requestVars
  <2> QED BY <1>3, <2>1, <2>2 DEF SweepRow
<1>4. ASSUME NEW e \in EndHandlers, EndStep(e) PROVE BudgetInv'
  <2>1. CASE EndMark(e) \/ EndMarkFails(e)
    <3>1. SessionOf[e] \in Requests
      BY RequestsAssumption
    <3>2. HasRow(SessionOf[e]) /\ UNCHANGED <<now, pc, used, grant>>
      BY <2>1 DEF EndMark, EndMarkFails, IInv, EndInv, NotEnd, requestVars
    <3>3. Mark(SessionOf[e], "ended", now) \/ UNCHANGED <<row, firstEnd>>
      BY <2>1 DEF EndMark, EndMarkFails, MarkThrows
    <3> QED BY <1>0, <3>1, <3>2, <3>3, MarkBudget
  <2>2. CASE EndAuthorized(e) \/ EndSelect(e) \/ EndStopOk(e) \/ EndStopFails(e) \/ EndCheck(e)
    BY <1>1, <2>2 DEF EndAuthorized, EndSelect, EndStopOk, EndStopFails, EndCheck, NotEnd, requestVars
  <2> QED BY <1>4, <2>1, <2>2 DEF EndStep
<1>5. CASE Tick
  BY <1>1, <1>5 DEF Tick, requestVars
<1>6. CASE Crash
  BY <1>0, <1>1, <1>6 DEF Crash, PastUsage, PastCheck
<1>7. CASE \/ \E r \in Requests : RunTaskArrives(r) \/ TaskStops(r)
           \/ \E w \in Sweeps : SweepSelect(w)
           \/ UNCHANGED vars
  BY <1>1, <1>7 DEF RunTaskArrives, TaskStops, SweepSelect, NotSweep, vars, requestVars
<1> QED BY <1>2, <1>3, <1>4, <1>5, <1>6, <1>7 DEF Next

LEMMA InitBudget == Init => BudgetInv
<1> SUFFICES ASSUME Init PROVE BudgetInv
  OBVIOUS
<1>1. \A r \in Requests : ~HasRow(r) /\ pc[r] = "idle"
  BY DEF Init, HasRow, NoRow
<1>2. IsFiniteSet(rows)
  <2>1. rows = {}
    BY <1>1 DEF rows
  <2> QED BY <2>1, FS_EmptySet
<1>3. \A r \in Requests : RowInv(r) /\ GrantInv(r)
  BY <1>1 DEF RowInv, GrantInv, PastUsage, PastCheck
<1>4. WithinCap
  <2>1. ASSUME NEW G \in SUBSET Requests, NEW day PROVE Total(G, day) = 0
    <3>1. OnDay(G, day) = {}
      BY <1>1 DEF OnDay
    <3> QED BY <3>1, SumEmpty DEF Total
  <2> QED BY <2>1, LimitsAssumption DEF WithinCap, OfUser, OfBrowser
<1> QED BY <1>2, <1>3, <1>4 DEF BudgetInv

\* The totals of the invariant are the sums the property speaks of.
LEMMA BudgetKept ==
  ASSUME TypeOK, BudgetInv
  PROVE  DailyBudget
<1>1. ASSUME NEW G \in SUBSET Requests, NEW day PROVE UsableOnDay(G, day) = Total(G, day)
  <2>1. OnDay(G, day) \in SUBSET Requests /\ IsFiniteSet(OnDay(G, day))
    BY TotalIs DEF BudgetInv
  <2>2. {r \in G : row[r].status # "absent" /\ row[r].started \div DayLength = day} = OnDay(G, day)
    BY DEF OnDay, HasRow
  <2> DEFINE S == OnDay(G, day)
  <2>3. MapThenSumSet(Usable, S) = Sum(usable, S)
    <3> HIDE DEF S
    <3> QED BY <2>1, UsableSum DEF S, usable
  <2> QED BY <2>2, <2>3 DEF UsableOnDay, Total
<1>2. 0..(now \div DayLength) \subseteq Nat
  OBVIOUS
<1>3. ASSUME NEW day \in Nat
      PROVE  /\ \A u \in Users : UsableOnDay({r \in Requests : UserOf[r] = u}, day) <= DailyCap
             /\ \A b \in Browsers : UsableOnDay({r \in Requests : BrowserOf[r] = b}, day) <= DailyCap
  <2>1. ASSUME NEW u \in Users PROVE UsableOnDay({r \in Requests : UserOf[r] = u}, day) <= DailyCap
    <3>1. OfUser(u) \in SUBSET Requests /\ Total(OfUser(u), day) <= DailyCap
      BY DEF OfUser, BudgetInv, WithinCap
    <3>2. UsableOnDay(OfUser(u), day) <= DailyCap
      BY <1>1, <3>1
    <3> QED BY <3>2 DEF OfUser
  <2>2. ASSUME NEW b \in Browsers PROVE UsableOnDay({r \in Requests : BrowserOf[r] = b}, day) <= DailyCap
    <3>1. OfBrowser(b) \in SUBSET Requests /\ Total(OfBrowser(b), day) <= DailyCap
      BY DEF OfBrowser, BudgetInv, WithinCap
    <3>2. UsableOnDay(OfBrowser(b), day) <= DailyCap
      BY <1>1, <3>1
    <3> QED BY <3>2 DEF OfBrowser
  <2> QED BY <2>1, <2>2
<1> QED BY <1>2, <1>3 DEF DailyBudget

\* No account and no browser is granted more than DailyCap of sessions that
\* start on one day, whatever fails, expires, is swept, ended or crashes between
\* the reading of the usage and the INSERT: for clients that wait for their
\* earlier launch.
THEOREM BudgetNeverExceeded ==
  ASSUME OneAtATime
  PROVE  Spec => []DailyBudget
<1>1. Init => BudgetInv
  BY InitBudget
<1>2. IInv /\ IInv' /\ AloneInv /\ BudgetInv /\ [Next]_vars => BudgetInv'
  BY BudgetStep DEF IInv
<1>3. IInv /\ BudgetInv => DailyBudget
  BY BudgetKept DEF IInv
<1> QED BY <1>1, <1>2, <1>3, Invariance, AloneAlways, PTL DEF Spec
=============================================================================
