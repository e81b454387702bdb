------------------------- MODULE FargateRunnerProofs -------------------------
(***************************************************************************)
(* Proofs about FargateRunner, for every run timeout and every cold start  *)
(* buffer: a run is cut off only when it deserves to be, and neither its   *)
(* output nor its objects are lost track of.                               *)
(***************************************************************************)
EXTENDS FargateRunner, TLAPS

Asking == {"runTask", "describe", "decide", "sleep", "stop"}
Holding == Asking \cup {"read"}
CleaningUp == {"check", "stopAgain", "done"}

\* The worker's clock runs no faster than the program's and the rest together,
\* until the rest has passed the buffer.
ClockInv ==
  /\ overhead > ColdStart \/ waited <= ran + overhead
  /\ pc = "stop" => waited > Deadline

\* The script reports the program's exit code only after both uploads, and the
\* worker deletes nothing it may still read.
ScriptInv ==
  /\ exit = "program" /\ pc \in Holding => Streams \subseteq objects
  /\ task = "stderr" /\ pc \in Holding => "stdout" \in objects
  /\ exit # "none" => task = "stopped"
  /\ pc = "put" => task = "none"

\* What the worker knows of the task.
WorkerInv ==
  /\ pc = "read" => task = "stopped" /\ result = exit
  /\ pc \in Asking \cup {"put"} => result = "none"
  /\ pc \in {"put", "runTask"} => seen = "none"
  /\ seen = "stopped" => task = "stopped"

Emptied == pc \in CleaningUp /\ seen = "stopped" /\ "delete" \notin failed => objects = {}

IInv == TypeOK /\ ClockInv /\ TimeoutEarned /\ ScriptInv /\ WorkerInv /\ OutputKept /\ Emptied

----------------------------------------------------------------------------
\* Rounding up to a whole second adds less than one.
LEMMA RoundingBelowSecond ==
  Rounding \in Nat /\ Rounding < Second /\ Allowance \in Nat /\ Allowance = RunTimeout + Rounding
  BY RunnerAssumption DEF RunnerAssumption, Rounding, Allowance

\* TypeOK in parts the provers can take one at a time.
Pcs == {"put", "runTask", "describe", "decide", "sleep", "stop", "read", "delete", "check",
        "stopAgain", "done", "crashed"}
Tasks == {"none", "stopped", "stdout", "stderr", "provisioning", "fetching", "compiling", "running",
          "overrunning"}
TypeControl == pc \in Pcs /\ task \in Tasks
TypeAnswers ==
  /\ seen \in {"none", "alive", "missing", "stopped"}
  /\ result \in {"none", "error", "timeout", "program", "script", "killed"}
  /\ exit \in {"none", "script", "program", "killed"}
  /\ stopping \in BOOLEAN
TypeClock == waited \in -1..(Deadline + 1) /\ ran \in 0..Allowance /\ overhead \in 0..(ColdStart + 1)
TypeObjects == output \subseteq Streams /\ objects \subseteq {"src"} \cup Streams
Failures == {"put", "arn", "stop", "get", "delete", "check", "stopAgain"}
TypeFailed == failed \subseteq Failures

LEMMA TypeParts == TypeOK <=> TypeControl /\ TypeAnswers /\ TypeClock /\ TypeObjects /\ TypeFailed
<1>1. Dead \cup Streams \cup {"provisioning", "fetching", "compiling", "running", "overrunning"} = Tasks
  BY DEF Dead, Streams, Tasks
<1> QED BY <1>1 DEF TypeOK, TypeControl, TypeAnswers, TypeClock, TypeObjects, TypeFailed, Pcs, Failures

LEMMA InitInv == Init => IInv
<1> SUFFICES ASSUME Init PROVE IInv
  OBVIOUS
<1>1. TypeControl /\ TypeAnswers
  BY DEF Init, TypeControl, TypeAnswers, Pcs, Tasks
<1>2. TypeClock /\ TypeObjects /\ TypeFailed
  BY RunnerAssumption, RoundingBelowSecond DEF RunnerAssumption, Init, TypeClock, TypeObjects, TypeFailed, Deadline
<1>3. ClockInv /\ TimeoutEarned
  BY RunnerAssumption DEF RunnerAssumption, Init, ClockInv, TimeoutEarned
<1>4. ScriptInv /\ WorkerInv
  BY DEF Init, ScriptInv, WorkerInv
<1>5. OutputKept /\ Emptied
  BY DEF Init, OutputKept, Emptied
<1> QED BY <1>1, <1>2, <1>3, <1>4, <1>5, TypeParts DEF IInv

LEMMA ControlStep == TypeControl /\ [Next]_vars => TypeControl'
<1> SUFFICES ASSUME TypeControl, [Next]_vars PROVE TypeControl'
  OBVIOUS
<1> USE DEF TypeControl, Pcs, Tasks, Streams, workerVars, taskVars
<1>1. CASE Container
  BY <1>1 DEF Container, Provisioned, FetchSource, Compiled, ProgramEnds, TimeoutFires, Upload, TaskKilled, StopsWith
<1>2. CASE PutSource \/ RunTaskArrives \/ RunTaskReturns \/ RunTaskFails
  BY <1>2 DEF PutSource, RunTaskArrives, RunTaskReturns, RunTaskFails, Fails
<1>3. CASE Describe \/ Decide \/ Sleep
  BY <1>3 DEF Describe, Decide, Sleep, Fails
<1>4. CASE StopLate \/ StopAgain \/ ReadOutput
  BY <1>4 DEF StopLate, StopAgain, ReadOutput, Fails
<1>5. CASE DeleteObjects \/ CheckTask
  BY <1>5 DEF DeleteObjects, CheckTask
<1>6. CASE Tick \/ Crash \/ UNCHANGED vars
  BY <1>6 DEF Tick, Crash, vars
<1> QED BY <1>1, <1>2, <1>3, <1>4, <1>5, <1>6 DEF Next, Worker

LEMMA AnswersStep == TypeAnswers /\ [Next]_vars => TypeAnswers'
<1> SUFFICES ASSUME TypeAnswers, [Next]_vars PROVE TypeAnswers'
  OBVIOUS
<1> USE DEF TypeAnswers, workerVars, taskVars
<1>1. CASE Container
  BY <1>1 DEF Container, Provisioned, FetchSource, Compiled, ProgramEnds, TimeoutFires, Upload, TaskKilled, StopsWith
<1>2. CASE PutSource \/ RunTaskArrives \/ RunTaskReturns \/ RunTaskFails
  BY <1>2 DEF PutSource, RunTaskArrives, RunTaskReturns, RunTaskFails, Fails
<1>3. CASE Describe
  BY <1>3 DEF Describe, Status, Dead, Fails
<1>4. CASE Decide \/ Sleep
  BY <1>4 DEF Decide, Sleep, Fails
<1>5. CASE StopLate \/ StopAgain
  BY <1>5 DEF StopLate, StopAgain, StopTask, Fails
<1>6. CASE ReadOutput \/ DeleteObjects \/ CheckTask
  BY <1>6 DEF ReadOutput, DeleteObjects, CheckTask
<1>7. CASE Tick \/ Crash \/ UNCHANGED vars
  BY <1>7 DEF Tick, Crash, vars
<1> QED BY <1>1, <1>2, <1>3, <1>4, <1>5, <1>6, <1>7 DEF Next, Worker

LEMMA NumbersStep == TypeClock /\ [Next]_vars => TypeClock'
<1> SUFFICES ASSUME TypeClock, [Next]_vars PROVE TypeClock'
  OBVIOUS
<1> USE RunnerAssumption, RoundingBelowSecond DEF RunnerAssumption, TypeClock, Deadline, workerVars, taskVars
<1>1. CASE Container
  BY <1>1 DEF Container, Provisioned, FetchSource, Compiled, ProgramEnds, TimeoutFires, Upload, TaskKilled
<1>2. CASE Worker
  BY <1>2 DEF Worker, PutSource, RunTaskArrives, RunTaskReturns, RunTaskFails, Describe, Decide, Sleep,
     StopLate, ReadOutput, DeleteObjects, CheckTask, StopAgain
<1>3. CASE Tick
  BY <1>3 DEF Tick
<1>4. CASE Crash \/ UNCHANGED vars
  BY <1>4 DEF Crash, vars
<1> QED BY <1>1, <1>2, <1>3, <1>4 DEF Next

LEMMA ObjectsStep == TypeObjects /\ [Next]_vars => TypeObjects'
<1> SUFFICES ASSUME TypeObjects, [Next]_vars PROVE TypeObjects'
  OBVIOUS
<1> USE DEF TypeObjects, workerVars, taskVars
<1>1. CASE Upload
  BY <1>1 DEF Upload
<1>2. CASE Provisioned \/ FetchSource \/ Compiled \/ ProgramEnds \/ TimeoutFires \/ TaskKilled
  BY <1>2 DEF Provisioned, FetchSource, Compiled, ProgramEnds, TimeoutFires, TaskKilled
<1>3. CASE PutSource \/ ReadOutput \/ DeleteObjects
  BY <1>3 DEF PutSource, ReadOutput, DeleteObjects
<1>4. CASE RunTaskArrives \/ RunTaskReturns \/ RunTaskFails \/ Describe \/ Decide \/ Sleep
  BY <1>4 DEF RunTaskArrives, RunTaskReturns, RunTaskFails, Describe, Decide, Sleep
<1>5. CASE StopLate \/ CheckTask \/ StopAgain \/ Tick \/ Crash \/ UNCHANGED vars
  BY <1>5 DEF StopLate, CheckTask, StopAgain, Tick, Crash, vars
<1> QED BY <1>1, <1>2, <1>3, <1>4, <1>5 DEF Next, Worker, Container

LEMMA FailedStep == TypeFailed /\ [Next]_vars => TypeFailed'
<1> SUFFICES ASSUME TypeFailed, [Next]_vars PROVE TypeFailed'
  OBVIOUS
<1>1. failed' = failed \/ \E f \in Failures : failed' = failed \cup {f}
  <2> USE DEF Failures, workerVars, taskVars
  <2>1. CASE Container
    BY <2>1 DEF Container, Provisioned, FetchSource, Compiled, ProgramEnds, TimeoutFires, Upload, TaskKilled
  <2>2. CASE PutSource \/ RunTaskArrives \/ RunTaskReturns \/ RunTaskFails
    BY <2>2 DEF PutSource, RunTaskArrives, RunTaskReturns, RunTaskFails
  <2>3. CASE Describe \/ Decide \/ Sleep
    BY <2>3 DEF Describe, Decide, Sleep
  <2>4. CASE StopLate \/ StopAgain
    BY <2>4 DEF StopLate, StopAgain, StopTask
  <2>5. CASE ReadOutput \/ DeleteObjects \/ CheckTask
    BY <2>5 DEF ReadOutput, DeleteObjects, CheckTask
  <2>6. CASE Tick \/ Crash \/ UNCHANGED vars
    BY <2>6 DEF Tick, Crash, vars
  <2> QED BY <2>1, <2>2, <2>3, <2>4, <2>5, <2>6 DEF Next, Worker
<1> QED BY <1>1 DEF TypeFailed

LEMMA TypeStep == TypeOK /\ [Next]_vars => TypeOK'
  BY TypeParts, ControlStep, AnswersStep, NumbersStep, ObjectsStep, FailedStep, PTL

LEMMA ClockStep ==
  TypeOK /\ ClockInv /\ TimeoutEarned /\ [Next]_vars => ClockInv' /\ TimeoutEarned'
<1> SUFFICES ASSUME TypeOK, ClockInv, TimeoutEarned, [Next]_vars PROVE ClockInv' /\ TimeoutEarned'
  OBVIOUS
<1> USE RunnerAssumption, RoundingBelowSecond DEF RunnerAssumption, TypeOK, ClockInv, TimeoutEarned, Deadline, workerVars, taskVars
<1>1. CASE Container
  BY <1>1 DEF Container, Provisioned, FetchSource, Compiled, ProgramEnds, TimeoutFires, Upload, TaskKilled
<1>2. CASE PutSource
  BY <1>2 DEF PutSource
<1>3. CASE RunTaskArrives \/ RunTaskReturns \/ RunTaskFails
  BY <1>3 DEF RunTaskArrives, RunTaskReturns, RunTaskFails, Fails
<1>4. CASE Describe \/ Decide \/ Sleep
  BY <1>4 DEF Describe, Decide, Late, Sleep, Fails
<1>5. CASE StopLate
  BY <1>5 DEF StopLate, StopTask, Fails
<1>6. CASE ReadOutput \/ DeleteObjects \/ CheckTask \/ StopAgain \/ Crash \/ UNCHANGED vars
  BY <1>6 DEF ReadOutput, DeleteObjects, CheckTask, StopAgain, Crash, vars
<1>7. CASE Tick
  BY <1>7 DEF Tick
<1> QED BY <1>1, <1>2, <1>3, <1>4, <1>5, <1>6, <1>7 DEF Next, Worker

LEMMA ScriptStep ==
  TypeOK /\ ScriptInv /\ WorkerInv /\ [Next]_vars => ScriptInv' /\ WorkerInv'
<1> SUFFICES ASSUME TypeOK, ScriptInv, WorkerInv, [Next]_vars PROVE ScriptInv' /\ WorkerInv'
  OBVIOUS
<1> USE DEF TypeOK, ScriptInv, WorkerInv, Streams, Dead, Holding, Asking, workerVars, taskVars
<1>1. CASE Upload
  BY <1>1 DEF Upload, StopsWith
<1>2. CASE Provisioned \/ FetchSource \/ Compiled \/ ProgramEnds \/ TimeoutFires \/ TaskKilled
  BY <1>2 DEF Provisioned, FetchSource, Compiled, ProgramEnds, TimeoutFires, TaskKilled, StopsWith
<1>3. CASE PutSource
  BY <1>3 DEF PutSource
<1>4. CASE RunTaskArrives \/ RunTaskReturns \/ RunTaskFails
  BY <1>4 DEF RunTaskArrives, RunTaskReturns, RunTaskFails, Fails
<1>5. CASE Describe
  BY <1>5 DEF Describe, Status, Fails
<1>6. CASE Decide \/ Sleep
  BY <1>6 DEF Decide, Sleep, Fails
<1>7. CASE StopLate \/ StopAgain
  BY <1>7 DEF StopLate, StopAgain, StopTask, Fails
<1>8. CASE ReadOutput \/ DeleteObjects \/ CheckTask
  BY <1>8 DEF ReadOutput, DeleteObjects, CheckTask
<1>9. CASE Tick \/ Crash \/ UNCHANGED vars
  BY <1>9 DEF Tick, Crash, vars
<1> QED BY <1>1, <1>2, <1>3, <1>4, <1>5, <1>6, <1>7, <1>8, <1>9 DEF Next, Worker, Container

LEMMA OutputStep ==
  TypeOK /\ ScriptInv /\ WorkerInv /\ OutputKept /\ [Next]_vars => OutputKept'
<1> SUFFICES ASSUME TypeOK, ScriptInv, WorkerInv, OutputKept, [Next]_vars PROVE OutputKept'
  OBVIOUS
<1> USE DEF OutputKept, workerVars, taskVars
<1>1. CASE ReadOutput
  <2>1. result = "program" => Streams \cap objects = Streams
    BY <1>1 DEF ReadOutput, ScriptInv, WorkerInv, Holding
  <2> QED BY <1>1, <2>1 DEF ReadOutput
<1>2. CASE Container \/ Tick \/ Crash \/ UNCHANGED vars
  BY <1>2 DEF Container, Provisioned, FetchSource, Compiled, ProgramEnds, TimeoutFires, Upload,
     TaskKilled, Tick, Crash, vars
<1>3. CASE PutSource \/ RunTaskArrives \/ RunTaskReturns \/ RunTaskFails
  BY <1>3 DEF PutSource, RunTaskArrives, RunTaskReturns, RunTaskFails, Fails
<1>4. CASE Describe \/ Decide \/ Sleep \/ StopLate
  BY <1>4 DEF Describe, Decide, Sleep, StopLate, Fails
<1>5. CASE DeleteObjects \/ CheckTask \/ StopAgain
  BY <1>5 DEF DeleteObjects, CheckTask, StopAgain, StopTask
<1> QED BY <1>1, <1>2, <1>3, <1>4, <1>5 DEF Next, Worker

LEMMA EmptiedStep ==
  TypeOK /\ WorkerInv /\ Emptied /\ [Next]_vars => Emptied'
<1> SUFFICES ASSUME TypeOK, WorkerInv, Emptied, [Next]_vars PROVE Emptied'
  OBVIOUS
<1> USE DEF Emptied, WorkerInv, CleaningUp, Streams, workerVars, taskVars
<1>1. CASE Container
  BY <1>1 DEF Container, Provisioned, FetchSource, Compiled, ProgramEnds, TimeoutFires, Upload, TaskKilled
<1>2. CASE PutSource \/ RunTaskArrives \/ RunTaskReturns \/ RunTaskFails
  BY <1>2 DEF PutSource, RunTaskArrives, RunTaskReturns, RunTaskFails, Fails
<1>3. CASE Describe \/ Decide \/ Sleep \/ StopLate \/ ReadOutput
  BY <1>3 DEF Describe, Decide, Sleep, StopLate, ReadOutput, Fails
<1>4. CASE DeleteObjects
  BY <1>4 DEF DeleteObjects
<1>5. CASE CheckTask \/ StopAgain
  BY <1>5 DEF CheckTask, StopAgain, StopTask
<1>6. CASE Tick \/ Crash \/ UNCHANGED vars
  BY <1>6 DEF Tick, Crash, vars
<1> QED BY <1>1, <1>2, <1>3, <1>4, <1>5, <1>6 DEF Next, Worker

----------------------------------------------------------------------------
\* The inductive invariant behind the theorems.
THEOREM Invariance == Spec => []IInv
<1>1. IInv /\ [Next]_vars => IInv'
  BY TypeStep, ClockStep, ScriptStep, OutputStep, EmptiedStep DEF IInv
<1> QED BY InitInv, <1>1, PTL DEF Spec

\* Every variable of the Fargate runner keeps its type.
THEOREM TypeCorrect == Spec => []TypeOK
<1>1. IInv => TypeOK
  BY DEF IInv
<1> QED BY <1>1, Invariance, PTL

\* A run is cut off only when the rest took longer than the cold start buffer
\* less the rounding, hence less than a second short of the buffer.
THEOREM CutOffOnlyWhenEarned ==
  Spec => [](TimeoutEarned /\ (result = "timeout" => overhead > ColdStart - Second))
<1>1. IInv => TimeoutEarned /\ (result = "timeout" => overhead > ColdStart - Second)
  BY RunnerAssumption, RoundingBelowSecond DEF RunnerAssumption, IInv, TypeOK, TimeoutEarned
<1> QED BY <1>1, Invariance, PTL

\* The program's own exit code comes with both its streams.
THEOREM OutputAlwaysKept == Spec => []OutputKept
<1>1. IInv => OutputKept
  BY DEF IInv
<1> QED BY <1>1, Invariance, PTL

\* Nothing of a run that was seen to stop stays in the bucket.
THEOREM NothingStaysStored == Spec => []NothingStored
<1>1. IInv => NothingStored
  BY DEF IInv, Emptied, NothingStored, CleaningUp
<1> QED BY <1>1, Invariance, PTL
=============================================================================
