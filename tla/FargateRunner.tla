---------------------------- MODULE FargateRunner ----------------------------
(***************************************************************************)
(* apps/worker, ecs-runner.ts: one run of a user's program as a Fargate    *)
(* task.  The source goes in and the output comes back through objects of  *)
(* an S3 bucket; the worker polls ECS until the task has stopped or its    *)
(* deadline has passed.  Worker, ECS, the container's script and the       *)
(* clock take their steps in any order, and any call may fail.             *)
(***************************************************************************)
EXTENDS Integers

CONSTANTS
  RunTimeout,  \* runTimeoutMs, in ticks: not always whole seconds
  Second,      \* ticks in a second
  ColdStart    \* COLD_START_BUFFER_MS, in ticks

ASSUME RunnerAssumption ==
  /\ RunTimeout \in Nat
  /\ Second \in Nat \ {0}
  /\ ColdStart \in Nat

VARIABLES
  pc,       \* where runOnFargate is
  seen,     \* the status the last DescribeTasks of the polling answered
  waited,   \* ticks since RunTask answered
  result,   \* what the caller is told
  output,   \* the streams that reached the caller
  task,     \* the task, as ECS and the container's script move it
  ran,      \* ticks the program has run
  overhead, \* history: ticks spent on anything but the program
  exit,     \* what the container's exit code says
  stopping, \* ECS has accepted a StopTask
  objects,  \* the run's objects in the bucket
  failed    \* history: what failed without the caller being told

workerVars == <<pc, seen, waited, result, output>>
taskVars == <<task, ran, exit, stopping>>
vars == <<workerVars, taskVars, overhead, objects, failed>>

Streams == {"stdout", "stderr"}
Dead == {"none", "stopped"}

\* What Math.ceil(runTimeoutMs / 1000) adds to reach a whole second.
Rounding == (-RunTimeout) % Second

\* RUN_TIMEOUT, the whole seconds the container gives the program, in ticks.
Allowance == RunTimeout + Rounding

\* The deadline of pollUntilStopped, which is not rounded.
Deadline == RunTimeout + ColdStart

\* Mutant: the cold start is not allowed for.
Late_NoBuffer == waited > RunTimeout

\* Mutant: the deadline is never looked at.
Late_Never == FALSE

Late == waited > Deadline

----------------------------------------------------------------------------
(* ECS and the container's script, infra/runner/knox-run *)

StopsWith(code) == task' = "stopped" /\ exit' = code

\* The container is up, or the task never gets one (no image, no capacity).
Provisioned ==
  /\ task = "provisioning"
  /\ \/ task' = "fetching" /\ UNCHANGED exit
     \/ StopsWith("none")
  /\ UNCHANGED <<workerVars, ran, stopping, overhead, objects, failed>>

FetchSource ==
  /\ task = "fetching"
  /\ \/ "src" \in objects /\ task' = "compiling" /\ UNCHANGED exit
     \/ StopsWith("script")
  /\ UNCHANGED <<workerVars, ran, stopping, overhead, objects, failed>>

\* A compile error is the program's result; the compiler has no timeout.
Compiled ==
  /\ task = "compiling"
  /\ task' \in {"running", "stdout"}
  /\ UNCHANGED <<workerVars, ran, exit, stopping, overhead, objects, failed>>

ProgramEnds ==
  /\ task \in {"running", "overrunning"}
  /\ task' = "stdout"
  /\ UNCHANGED <<workerVars, ran, exit, stopping, overhead, objects, failed>>

\* `timeout` sends one SIGTERM, which the program may ignore.
TimeoutFires ==
  /\ task = "running" /\ ran = Allowance
  /\ task' \in {"stdout", "overrunning"}
  /\ UNCHANGED <<workerVars, ran, exit, stopping, overhead, objects, failed>>

\* Mutant: the script goes on when an upload fails.
Upload_KeepGoing ==
  /\ task \in Streams
  /\ objects' = objects \cup {task} \/ UNCHANGED objects
  /\ IF task = "stdout" THEN task' = "stderr" /\ UNCHANGED exit ELSE StopsWith("program")
  /\ UNCHANGED <<workerVars, ran, stopping, overhead, failed>>

\* task = s: the script uploads stream s, stdout before stderr.  `set -e` ends
\* the script on a failed upload.
Upload ==
  /\ task \in Streams
  /\ \/ /\ objects' = objects \cup {task}
        /\ IF task = "stdout" THEN task' = "stderr" /\ UNCHANGED exit ELSE StopsWith("program")
     \/ StopsWith("script") /\ UNCHANGED objects
  /\ UNCHANGED <<workerVars, ran, stopping, overhead, failed>>

\* A stopped task's container is killed.
TaskKilled ==
  /\ stopping /\ task \notin Dead
  /\ StopsWith("killed")
  /\ UNCHANGED <<workerVars, ran, stopping, overhead, objects, failed>>

Container ==
  Provisioned \/ FetchSource \/ Compiled \/ ProgramEnds \/ TimeoutFires \/ Upload \/ TaskKilled

----------------------------------------------------------------------------
(* runOnFargate *)

Fails(reason) == result' = reason /\ pc' = "delete"

PutSource ==
  /\ pc = "put"
  /\ \/ pc' = "runTask" /\ objects' = objects \cup {"src"} /\ UNCHANGED <<result, failed>>
     \* the PutObject rejects, before the try: nothing is cleaned up
     \/ /\ pc' = "done" /\ result' = "error"
        /\ \/ UNCHANGED <<objects, failed>>
           \/ objects' = objects \cup {"src"} /\ failed' = failed \cup {"put"}
  /\ UNCHANGED <<seen, waited, output, taskVars, overhead>>

RunTaskArrives ==
  /\ pc = "runTask" /\ task = "none"
  /\ task' = "provisioning"
  /\ UNCHANGED <<workerVars, ran, exit, stopping, overhead, objects, failed>>

RunTaskReturns ==
  /\ pc = "runTask" /\ task # "none"
  /\ pc' = "describe"
  /\ waited' = 0
  /\ UNCHANGED <<seen, result, output, taskVars, overhead, objects, failed>>

\* It rejects, or answers with failures: taskArn stays undefined.  When the
\* task was started all the same nobody knows its ARN.
RunTaskFails ==
  /\ pc = "runTask"
  /\ Fails("error")
  /\ failed' = IF task = "none" THEN failed ELSE failed \cup {"arn"}
  /\ UNCHANGED <<seen, waited, output, taskVars, overhead, objects>>

\* What DescribeTasks says: a new task may not be listed yet.
Status == IF task \in Dead THEN {task} ELSE IF task = "provisioning" THEN {"alive", "missing"} ELSE {"alive"}

Describe ==
  /\ pc = "describe"
  /\ \/ seen' \in Status /\ pc' = "decide" /\ UNCHANGED result
     \/ Fails("error") /\ UNCHANGED seen
  /\ UNCHANGED <<waited, output, taskVars, overhead, objects, failed>>

\* The answer has arrived.
Decide ==
  /\ pc = "decide"
  /\ \/ /\ seen = "stopped" /\ exit # "none"
        /\ pc' = "read" /\ result' = exit
     \/ seen = "stopped" /\ exit = "none" /\ Fails("error")
     \/ seen # "stopped" /\ Late /\ pc' = "stop" /\ UNCHANGED result
     \/ seen # "stopped" /\ ~Late /\ pc' = "sleep" /\ UNCHANGED result
  /\ UNCHANGED <<seen, waited, output, taskVars, overhead, objects, failed>>

Sleep ==
  /\ pc = "sleep"
  /\ pc' = "describe"
  /\ UNCHANGED <<seen, waited, result, output, taskVars, overhead, objects, failed>>

\* StopTask, whose failure is swallowed wherever it is called.
StopTask(cause) ==
  \/ stopping' = (IF task \in Dead THEN stopping ELSE TRUE) /\ UNCHANGED failed
  \/ UNCHANGED stopping /\ failed' = failed \cup {cause}

StopLate ==
  /\ pc = "stop"
  /\ StopTask("stop")
  /\ Fails("timeout")
  /\ UNCHANGED <<seen, waited, output, task, ran, exit, overhead, objects>>

\* readOutputObject: missing or failed, a stream is just empty.
ReadOutput ==
  /\ pc = "read"
  /\ \E got \in SUBSET (Streams \cap objects) :
       /\ output' = got
       /\ failed' = IF got = Streams \cap objects THEN failed ELSE failed \cup {"get"}
  /\ pc' = "delete"
  /\ UNCHANGED <<seen, waited, result, taskVars, overhead, objects>>

----------------------------------------------------------------------------
(* cleanup, from the finally block *)

ArnKnown == waited >= 0

\* Mutant: the keys are those of stdout and the source.
DeleteObjects_NoStderr ==
  /\ pc = "delete"
  /\ \E left \in SUBSET objects :
       /\ objects' = left \cup (objects \cap {"stderr"})
       /\ failed' = IF left = {} THEN failed ELSE failed \cup {"delete"}
  /\ pc' = IF ArnKnown THEN "check" ELSE "done"
  /\ UNCHANGED <<seen, waited, result, output, taskVars, overhead>>

\* The three deletes, each swallowing its failure, then on to the task if its
\* ARN is known.
DeleteObjects ==
  /\ pc = "delete"
  /\ \E left \in SUBSET objects :
       /\ objects' = left
       /\ failed' = IF left = {} THEN failed ELSE failed \cup {"delete"}
  /\ pc' = IF ArnKnown THEN "check" ELSE "done"
  /\ UNCHANGED <<seen, waited, result, output, taskVars, overhead>>

\* Mutant: only a task that runs is stopped.
CheckTask_OnlyRunning ==
  /\ pc = "check"
  /\ \/ \E status \in Status :
          /\ pc' = IF status = "alive" /\ task # "provisioning" THEN "stopAgain" ELSE "done"
          /\ failed' = IF status = "missing" THEN failed \cup {"check"} ELSE failed
     \/ pc' = "done" /\ failed' = failed \cup {"check"}
  /\ UNCHANGED <<seen, waited, result, output, taskVars, overhead, objects>>

CheckTask ==
  /\ pc = "check"
  /\ \/ \E status \in Status :
          /\ pc' = IF status = "alive" THEN "stopAgain" ELSE "done"
          /\ failed' = IF status = "missing" THEN failed \cup {"check"} ELSE failed
     \/ pc' = "done" /\ failed' = failed \cup {"check"}
  /\ UNCHANGED <<seen, waited, result, output, taskVars, overhead, objects>>

StopAgain ==
  /\ pc = "stopAgain"
  /\ StopTask("stopAgain")
  /\ pc' = "done"
  /\ UNCHANGED <<seen, waited, result, output, task, ran, exit, overhead, objects>>

\* The worker's process dies; nothing remembers the run.
Crash ==
  /\ pc \notin {"done", "crashed"}
  /\ pc' = "crashed"
  /\ UNCHANGED <<seen, waited, result, output, taskVars, overhead, objects, failed>>

Worker ==
  \/ PutSource \/ RunTaskArrives \/ RunTaskReturns \/ RunTaskFails
  \/ Describe \/ Decide \/ Sleep \/ StopLate \/ ReadOutput
  \/ DeleteObjects \/ CheckTask \/ StopAgain

----------------------------------------------------------------------------
\* The clock, which stops at what nothing compares with any more.  A program
\* is not run past its timeout before the timeout has fired.
Tick ==
  /\ ~(task = "running" /\ ran = Allowance)
  /\ waited' = IF waited \in 0..Deadline THEN waited + 1 ELSE waited
  /\ \/ task = "running" /\ ran' = ran + 1 /\ UNCHANGED overhead
     \/ /\ task # "running" /\ UNCHANGED ran
        /\ overhead' = IF overhead > ColdStart THEN overhead ELSE overhead + 1
  /\ UNCHANGED <<pc, seen, result, output, task, exit, stopping, objects, failed>>

Init ==
  /\ pc = "put" /\ seen = "none" /\ waited = -1 /\ result = "none" /\ output = {}
  /\ task = "none" /\ ran = 0 /\ overhead = 0 /\ exit = "none" /\ stopping = FALSE
  /\ objects = {} /\ failed = {}

Next == Worker \/ Container \/ Tick \/ Crash

\* Calls return or fail, the clock runs, ECS carries out a stop it has
\* accepted and `timeout` fires.  Nothing says a compiler or program ends.
Fairness == WF_vars(Worker) /\ WF_vars(Tick) /\ WF_vars(TaskKilled) /\ WF_vars(TimeoutFires)

Spec == Init /\ [][Next]_vars /\ Fairness

----------------------------------------------------------------------------
TypeOK ==
  /\ pc \in {"put", "runTask", "describe", "decide", "sleep", "stop", "read", "delete", "check",
             "stopAgain", "done", "crashed"}
  /\ seen \in {"none", "alive", "missing", "stopped"}
  /\ waited \in -1..(Deadline + 1)
  /\ result \in {"none", "error", "timeout", "program", "script", "killed"}
  /\ output \subseteq Streams
  /\ task \in Dead \cup Streams \cup {"provisioning", "fetching", "compiling", "running", "overrunning"}
  /\ ran \in 0..Allowance
  /\ overhead \in 0..(ColdStart + 1)
  /\ exit \in {"none", "script", "program", "killed"}
  /\ stopping \in BOOLEAN
  /\ objects \subseteq {"src"} \cup Streams
  /\ failed \subseteq {"put", "arn", "stop", "get", "delete", "check", "stopAgain"}

\* A caller who gets the program's own exit code gets both its streams, unless
\* reading one back failed.
OutputKept ==
  pc \in {"delete", "check", "stopAgain", "done"} /\ result = "program" /\ "get" \notin failed
    => output = Streams

\* A run is cut off at the server only when everything but the program's own
\* allowance (cold start, compiler, uploads, calls, a program deaf to SIGTERM)
\* took longer than the cold start buffer less what the container's timeout was
\* rounded up by: the program may use the whole second it was given, which the
\* server's deadline does not allow for.
TimeoutEarned ==
  result = "timeout" => overhead + Rounding > ColdStart

\* Once the worker is done with a task it saw stopped, none of the run's
\* objects is left unless a delete failed.
NothingStored ==
  pc = "done" /\ seen = "stopped" /\ "delete" \notin failed => objects = {}

\* The run is answered, whatever the program does and however often ECS fails.
Answered == <>(pc \in {"done", "crashed"})

\* A task is not left running behind a finished run, not even by a program
\* that never ends, when the last look at it and the last stop went through.
TaskEnds ==
  pc = "done" /\ failed \cap {"arn", "check", "stopAgain"} = {} ~> task \in Dead
=============================================================================
