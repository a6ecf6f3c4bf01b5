------------------------------ MODULE Executor ------------------------------
(***************************************************************************)
(* pkg/executor/executor.go over pkg/runtime/docker.go: one worker, the    *)
(* executeJob goroutine of each job it accepts, the goroutine that streams *)
(* the job's logs, the job's deadline and the container daemon.            *)
(*                                                                         *)
(* A call of the runtime is one action, taken when the call returns.  It   *)
(* succeeds or it returns an error; an error can hide that the daemon did  *)
(* carry the request out (the reply was lost, or the context ended while   *)
(* the request was in flight).  Output is counted in units, so a stream is *)
(* the number of units written to it and a captured output the set of unit *)
(* numbers it holds.                                                       *)
(***************************************************************************)
EXTENDS Integers, Sequences, FiniteSets

CONSTANTS
  Jobs,            \* job IDs; generateJobID never repeats one
  NoJob,           \* e.current == nil
  ExitCodes,       \* exit codes of a container
  MaxOutputBytes,  \* config.MaxOutputBytes, in units
  MaxOutput,       \* bound on the units a container writes per stream
  MaxFailures      \* bound on the errors the daemon returns per job

ASSUME ExecutorConstants ==
  /\ NoJob \notin Jobs
  /\ ExitCodes \subseteq Nat
  /\ MaxOutputBytes \in Nat
  /\ MaxOutput \in Nat
  /\ MaxFailures \in Nat

VARIABLES
  current,     \* e.current
  pc,          \* per job: the call executeJob is in
  expired,     \* per job: the deadline of timeoutCtx has passed
  cancelled,   \* per job: timeoutCancel and job.Cancel were called
  verdict,     \* per job: how WaitContainer ended (waitErr and timedOut)
  exitCode,    \* per job: the local variable exitCode
  result,      \* per job: job.Result
  done,        \* per job: job.Done is closed
  lines,       \* per job: the lines of job.LogBuffer
  closed,      \* per job: job.LogBuffer is closed
  streamer,    \* per job: where streamContainerLogs is
  snapshot,    \* per job: the output streamContainerLogs has read
  container,   \* per job: its container, in the daemon
  code,        \* per job: the code its container exited with by itself
  output,      \* per job: units written to each stream
  failed       \* per job: the runtime calls that returned an error

vars == <<current, pc, expired, cancelled, verdict, exitCode, result, done,
          lines, closed, streamer, snapshot, container, code, output, failed>>

slotVars   == <<current, done>>
ctxVars    == <<expired, cancelled>>
localVars  == <<verdict, exitCode>>
bufVars    == <<lines, closed>>
streamVars == <<streamer, snapshot>>
daemonVars == <<container, code, output>>

Streams == {"stdout", "stderr"}
Nothing == [s \in Streams |-> 0]
NoExit  == -2     \* result.ExitCode == nil
Aborted == -1     \* what WaitContainer returns with an error

Calls == {"ImageExists", "PullImage", "CreateContainer", "StartContainer",
          "WaitContainer", "StopContainer", "KillContainer", "GetLogs",
          "RemoveContainer", "StreamLogs"}

NoResult ==
  [status |-> "none", exit |-> NoExit, error |-> "none",
   out |-> [s \in Streams |-> {}], truncated |-> [s \in Streams |-> FALSE]]

Goto(j, label) == pc' = [pc EXCEPT ![j] = label]

(* NewExecutor, and a daemon without containers. *)
Init ==
  /\ current = NoJob
  /\ pc = [j \in Jobs |-> "none"]
  /\ expired = [j \in Jobs |-> FALSE]
  /\ cancelled = [j \in Jobs |-> FALSE]
  /\ verdict = [j \in Jobs |-> "none"]
  /\ exitCode = [j \in Jobs |-> NoExit]
  /\ result = [j \in Jobs |-> NoResult]
  /\ done = [j \in Jobs |-> FALSE]
  /\ lines = [j \in Jobs |-> <<>>]
  /\ closed = [j \in Jobs |-> FALSE]
  /\ streamer = [j \in Jobs |-> "none"]
  /\ snapshot = [j \in Jobs |-> Nothing]
  /\ container = [j \in Jobs |-> "absent"]
  /\ code = [j \in Jobs |-> NoExit]
  /\ output = [j \in Jobs |-> Nothing]
  /\ failed = [j \in Jobs |-> {}]

-----------------------------------------------------------------------------
(* The methods of Executor.                                                *)

IsReady == current # NoJob => done[current]

GetResult(id) == IF current = id /\ done[id] THEN result[id] ELSE NoResult

(* Mutant: a new job is accepted as soon as the old one has a result. *)
SubmitEarly(j) ==
  /\ pc[j] = "none"
  /\ current # NoJob => result[current] # NoResult
  /\ current' = j
  /\ Goto(j, "ImageExists")
  /\ UNCHANGED <<done, ctxVars, localVars, result, bufVars, streamVars,
                 daemonVars, failed>>

(* A Submit that finds the worker busy changes nothing. *)
Submit(j) ==
  /\ pc[j] = "none"
  /\ IsReady
  /\ current' = j
  /\ Goto(j, "ImageExists")
  /\ UNCHANGED <<done, ctxVars, localVars, result, bufVars, streamVars,
                 daemonVars, failed>>

-----------------------------------------------------------------------------
(* executeJob: one action per runtime call and per deferred call.          *)

ErrorResult(step) == [NoResult EXCEPT !.status = "error", !.error = step]

(* The daemon may fail any call; errors it need not be blamed for (a done  *)
(* context, a kill of a container that does not run) are not bounded.      *)
Faulty(j) == Cardinality(failed[j]) < MaxFailures

Fails(j, call) == failed' = [failed EXCEPT ![j] = @ \cup {call}]

(* The early returns of executeJob, up to the first deferred call. *)
Abort(j, call, step, label) ==
  /\ Fails(j, call)
  /\ result' = [result EXCEPT ![j] = ErrorResult(step)]
  /\ Goto(j, label)

(* pullImageIfNeeded; neither call looks at the deadline of the job. *)
ImageExists(j) ==
  /\ pc[j] = "ImageExists"
  /\ \/ /\ \/ Goto(j, "CreateContainer")
           \/ Goto(j, "PullImage")
        /\ UNCHANGED <<result, failed>>
     \/ Faulty(j) /\ Abort(j, "ImageExists", "pull", "Cancel")
  /\ UNCHANGED <<slotVars, ctxVars, localVars, bufVars, streamVars, daemonVars>>

PullImage(j) ==
  /\ pc[j] = "PullImage"
  /\ \/ Goto(j, "CreateContainer") /\ UNCHANGED <<result, failed>>
     \/ Faulty(j) /\ Abort(j, "PullImage", "pull", "Cancel")
  /\ UNCHANGED <<slotVars, ctxVars, localVars, bufVars, streamVars, daemonVars>>

CreateContainer(j) ==
  /\ pc[j] = "CreateContainer"
  /\ \/ /\ ~expired[j]
        /\ container' = [container EXCEPT ![j] = "created"]
        /\ Goto(j, "StartContainer")
        /\ UNCHANGED <<result, failed>>
     \/ /\ expired[j] \/ Faulty(j)
        /\ \E c \in {"absent", "created"} :
             container' = [container EXCEPT ![j] = c]
        /\ Abort(j, "CreateContainer", "create", "Cancel")
  /\ UNCHANGED <<slotVars, ctxVars, localVars, bufVars, streamVars, code, output>>

(* Mutant: the removal is deferred only once the container has started. *)
StartContainerNoCleanup(j) ==
  /\ pc[j] = "StartContainer"
  /\ \/ /\ ~expired[j]
        /\ container' = [container EXCEPT ![j] = "running"]
        /\ streamer' = [streamer EXCEPT ![j] = "GetLogs"]
        /\ Goto(j, "WaitContainer")
        /\ UNCHANGED <<result, failed>>
     \/ /\ expired[j] \/ Faulty(j)
        /\ \E c \in {"created", "running"} :
             container' = [container EXCEPT ![j] = c]
        /\ Abort(j, "StartContainer", "start", "Cancel")
        /\ UNCHANGED streamer
  /\ UNCHANGED <<slotVars, ctxVars, localVars, bufVars, snapshot, code, output>>

(* A started container gets its streaming goroutine. *)
StartContainer(j) ==
  /\ pc[j] = "StartContainer"
  /\ \/ /\ ~expired[j]
        /\ container' = [container EXCEPT ![j] = "running"]
        /\ streamer' = [streamer EXCEPT ![j] = "GetLogs"]
        /\ Goto(j, "WaitContainer")
        /\ UNCHANGED <<result, failed>>
     \/ /\ expired[j] \/ Faulty(j)
        /\ \E c \in {"created", "running"} :
             container' = [container EXCEPT ![j] = c]
        /\ Abort(j, "StartContainer", "start", "RemoveContainer")
        /\ UNCHANGED streamer
  /\ UNCHANGED <<slotVars, ctxVars, localVars, bufVars, snapshot, code, output>>

Waited(j, v, c, label) ==
  /\ pc[j] = "WaitContainer"
  /\ verdict' = [verdict EXCEPT ![j] = v]
  /\ exitCode' = [exitCode EXCEPT ![j] = c]
  /\ Goto(j, label)
  /\ UNCHANGED <<slotVars, ctxVars, result, bufVars, streamVars, daemonVars>>

WaitExited(j) ==
  /\ container[j] = "exited"
  /\ Waited(j, "exited", code[j], "GetLogs")
  /\ UNCHANGED failed

(* Mutant: the wait does not look at the deadline. *)
WaitForExit(j) ==
  /\ expired[j] /\ container[j] = "exited"
  /\ Waited(j, "timedOut", Aborted, "StopContainer")
  /\ UNCHANGED failed

(* waitErr != nil with timeoutCtx.Err() != nil. *)
WaitExpired(j) ==
  /\ expired[j]
  /\ \E c \in {Aborted} \cup ExitCodes :
       Waited(j, "timedOut", c, "StopContainer")
  /\ UNCHANGED failed

(* waitErr != nil before the deadline: the container may well be running. *)
WaitFault(j) ==
  /\ ~expired[j]
  /\ Faulty(j)
  /\ Fails(j, "WaitContainer")
  /\ \E c \in {Aborted} \cup ExitCodes :
       Waited(j, "waitFailed", c, "GetLogs")

Halted(j) == IF container[j] = "running" THEN "exited" ELSE container[j]

(* Mutant: a failed stop is only logged. *)
StopWithoutKill(j) ==
  /\ pc[j] = "StopContainer"
  /\ \/ /\ container' = [container EXCEPT ![j] = Halted(j)]
        /\ UNCHANGED failed
     \/ /\ Faulty(j)
        /\ Fails(j, "StopContainer")
        /\ UNCHANGED container
  /\ Goto(j, "GetLogs")
  /\ UNCHANGED <<slotVars, ctxVars, localVars, result, bufVars, streamVars,
                 code, output>>

(* handleTimeout: stop, and kill when stop fails. *)
StopContainer(j) ==
  /\ pc[j] = "StopContainer"
  /\ \/ /\ container' = [container EXCEPT ![j] = Halted(j)]
        /\ Goto(j, "GetLogs")
        /\ UNCHANGED failed
     \/ /\ Faulty(j)
        /\ \E c \in {container[j], Halted(j)} :
             container' = [container EXCEPT ![j] = c]
        /\ Fails(j, "StopContainer")
        /\ Goto(j, "KillContainer")
  /\ UNCHANGED <<slotVars, ctxVars, localVars, result, bufVars, streamVars,
                 code, output>>

KillContainer(j) ==
  /\ pc[j] = "KillContainer"
  /\ \/ /\ container[j] = "running"
        /\ container' = [container EXCEPT ![j] = "exited"]
        /\ UNCHANGED failed
     \/ /\ container[j] # "running" \/ Faulty(j)
        /\ \E c \in {container[j], Halted(j)} :
             container' = [container EXCEPT ![j] = c]
        /\ Fails(j, "KillContainer")
  /\ Goto(j, "GetLogs")
  /\ UNCHANGED <<slotVars, ctxVars, localVars, result, bufVars, streamVars,
                 code, output>>

(* Mutants: the offset is one too small; the head is kept. *)
truncateOffByOne(n) ==
  IF n <= MaxOutputBytes THEN 0 .. n ELSE (n - MaxOutputBytes) .. n

truncateHead(n) == {u \in 1 .. n : u <= MaxOutputBytes}

(* The last maxBytes of n units. *)
truncateTail(n) ==
  IF n <= MaxOutputBytes THEN 1 .. n ELSE (n - MaxOutputBytes + 1) .. n

(* Mutant: an error of WaitContainer is not told from an exit. *)
StatusBlind(j) ==
  IF verdict[j] = "timedOut" THEN "timeout"
  ELSE IF exitCode[j] = 0 THEN "success" ELSE "failed"

Status(j) ==
  IF verdict[j] = "timedOut" THEN "timeout"
  ELSE IF verdict[j] = "waitFailed" THEN "error"
  ELSE IF exitCode[j] = 0 THEN "success" ELSE "failed"

(* CaptureOutput and the result that executeJob builds from it. *)
Captured(j, logs) ==
  [status |-> Status(j),
   exit |-> IF verdict[j] = "waitFailed" THEN NoExit ELSE exitCode[j],
   error |-> IF verdict[j] = "waitFailed" THEN "wait" ELSE "none",
   out |-> [s \in Streams |-> truncateTail(logs[s])],
   truncated |-> [s \in Streams |-> logs[s] > MaxOutputBytes]]

(* Logs that cannot be collected are reported as empty. *)
GetLogs(j) ==
  /\ pc[j] = "GetLogs"
  /\ \/ /\ result' = [result EXCEPT ![j] = Captured(j, output[j])]
        /\ UNCHANGED failed
     \/ /\ Faulty(j)
        /\ Fails(j, "GetLogs")
        /\ result' = [result EXCEPT ![j] = Captured(j, Nothing)]
  /\ Goto(j, "RemoveContainer")
  /\ UNCHANGED <<slotVars, ctxVars, localVars, bufVars, streamVars, daemonVars>>

(* The deferred calls, last registered first.                              *)
RemoveContainer(j) ==
  /\ pc[j] = "RemoveContainer"
  /\ \/ /\ container' = [container EXCEPT ![j] = "removed"]
        /\ UNCHANGED failed
     \/ /\ Faulty(j)
        /\ Fails(j, "RemoveContainer")
        /\ \E c \in {container[j], "removed"} :
             container' = [container EXCEPT ![j] = c]
  /\ Goto(j, "Cancel")
  /\ UNCHANGED <<slotVars, ctxVars, localVars, result, bufVars, streamVars,
                 code, output>>

(* Mutant: the close of the log buffer is not deferred. *)
CancelOnly(j) ==
  /\ pc[j] = "Cancel"
  /\ cancelled' = [cancelled EXCEPT ![j] = TRUE]
  /\ Goto(j, "CloseDone")
  /\ UNCHANGED <<slotVars, expired, localVars, result, bufVars, streamVars,
                 daemonVars, failed>>

(* timeoutCancel, then job.Cancel. *)
Cancel(j) ==
  /\ pc[j] = "Cancel"
  /\ cancelled' = [cancelled EXCEPT ![j] = TRUE]
  /\ Goto(j, "CloseLogs")
  /\ UNCHANGED <<slotVars, expired, localVars, result, bufVars, streamVars,
                 daemonVars, failed>>

CloseLogs(j) ==
  /\ pc[j] = "CloseLogs"
  /\ closed' = [closed EXCEPT ![j] = TRUE]
  /\ Goto(j, "CloseDone")
  /\ UNCHANGED <<slotVars, ctxVars, localVars, result, lines, streamVars,
                 daemonVars, failed>>

CloseDone(j) ==
  /\ pc[j] = "CloseDone"
  /\ done' = [done EXCEPT ![j] = TRUE]
  /\ Goto(j, "ended")
  /\ UNCHANGED <<current, ctxVars, localVars, result, bufVars, streamVars,
                 daemonVars, failed>>

-----------------------------------------------------------------------------
(* streamContainerLogs: one read of the logs so far, then two writes.      *)

(* Mutant: the logs are followed to the end of the container, without the  *)
(* context of the job.                                                     *)
FollowLogs(j) ==
  /\ streamer[j] = "GetLogs"
  /\ container[j] # "running"
  /\ snapshot' = [snapshot EXCEPT ![j] = output[j]]
  /\ streamer' = [streamer EXCEPT ![j] = "WriteStdout"]
  /\ UNCHANGED <<slotVars, pc, ctxVars, localVars, result, bufVars, daemonVars,
                 failed>>

(* One GetLogs under timeoutCtx, without following. *)
ReadLogs(j) ==
  /\ streamer[j] = "GetLogs"
  /\ \/ /\ ~expired[j] /\ ~cancelled[j]
        /\ container[j] \in {"running", "exited"}
        /\ snapshot' = [snapshot EXCEPT ![j] = output[j]]
        /\ streamer' = [streamer EXCEPT ![j] = "WriteStdout"]
        /\ UNCHANGED failed
     \/ /\ \/ expired[j] \/ cancelled[j] \/ container[j] = "removed"
           \/ Faulty(j)
        /\ Fails(j, "StreamLogs")
        /\ streamer' = [streamer EXCEPT ![j] = "ended"]
        /\ UNCHANGED snapshot
  /\ UNCHANGED <<slotVars, pc, ctxVars, localVars, result, bufVars, daemonVars>>

(* Mutant: a line is appended whether or not the buffer is closed. *)
BufferAfterClose(j, s) ==
  \/ /\ snapshot[j][s] > 0
     /\ lines' = [lines EXCEPT ![j] =
                    Append(@, [stream |-> s, upto |-> snapshot[j][s]])]
  \/ snapshot[j][s] = 0 /\ UNCHANGED lines

(* LogBuffer.Write of what was read, unless it is empty. *)
Buffer(j, s) ==
  \/ /\ snapshot[j][s] > 0 /\ ~closed[j]
     /\ lines' = [lines EXCEPT ![j] =
                    Append(@, [stream |-> s, upto |-> snapshot[j][s]])]
  \/ /\ snapshot[j][s] = 0 \/ closed[j]
     /\ UNCHANGED lines

WriteStdout(j) ==
  /\ streamer[j] = "WriteStdout"
  /\ Buffer(j, "stdout")
  /\ streamer' = [streamer EXCEPT ![j] = "WriteStderr"]
  /\ UNCHANGED <<slotVars, pc, ctxVars, localVars, result, closed, snapshot,
                 daemonVars, failed>>

WriteStderr(j) ==
  /\ streamer[j] = "WriteStderr"
  /\ Buffer(j, "stderr")
  /\ streamer' = [streamer EXCEPT ![j] = "ended"]
  /\ UNCHANGED <<slotVars, pc, ctxVars, localVars, result, closed, snapshot,
                 daemonVars, failed>>

-----------------------------------------------------------------------------
(* The deadline and the container.                                         *)

Deadline(j) ==
  /\ pc[j] # "none"
  /\ ~expired[j] /\ ~cancelled[j]
  /\ expired' = [expired EXCEPT ![j] = TRUE]
  /\ UNCHANGED <<slotVars, pc, cancelled, localVars, result, bufVars,
                 streamVars, daemonVars, failed>>

Emit(j, s) ==
  /\ container[j] = "running"
  /\ output[j][s] < MaxOutput
  /\ output' = [output EXCEPT ![j][s] = @ + 1]
  /\ UNCHANGED <<slotVars, pc, ctxVars, localVars, result, bufVars,
                 streamVars, container, code, failed>>

Exit(j) ==
  /\ container[j] = "running"
  /\ container' = [container EXCEPT ![j] = "exited"]
  /\ \E c \in ExitCodes : code' = [code EXCEPT ![j] = c]
  /\ UNCHANGED <<slotVars, pc, ctxVars, localVars, result, bufVars,
                 streamVars, output, failed>>

-----------------------------------------------------------------------------
(* The calls that a context bounds, and the deferred ones. *)
BoundedStep(j) ==
  \/ PullImage(j) \/ CreateContainer(j) \/ StartContainer(j)
  \/ WaitExited(j) \/ WaitExpired(j)
  \/ StopContainer(j) \/ KillContainer(j) \/ GetLogs(j)
  \/ RemoveContainer(j) \/ Cancel(j) \/ CloseLogs(j) \/ CloseDone(j)

Next ==
  \E j \in Jobs :
    \/ Submit(j)
    \/ ImageExists(j) \/ BoundedStep(j) \/ WaitFault(j)
    \/ ReadLogs(j) \/ WriteStdout(j) \/ WriteStderr(j)
    \/ Deadline(j) \/ Exit(j)
    \/ \E s \in Streams : Emit(j, s)

Spec == Init /\ [][Next]_vars

Streaming(j) == ReadLogs(j) \/ WriteStdout(j) \/ WriteStderr(j)

(* Goroutines are scheduled, a call with a deadline returns, and deadlines *)
(* pass.  ImageExists has no deadline and may never return.                *)
Fairness ==
  \A j \in Jobs :
    /\ WF_vars(BoundedStep(j)) /\ WF_vars(Streaming(j))
    /\ WF_vars(Deadline(j))

FairSpec == Spec /\ Fairness

-----------------------------------------------------------------------------
(* Properties.                                                             *)

PCs == (Calls \ {"StreamLogs"})
         \cup {"none", "Cancel", "CloseLogs", "CloseDone", "ended"}

Results ==
  [status : {"none", "success", "failed", "timeout", "error"},
   exit : {NoExit, Aborted} \cup ExitCodes,
   error : {"none", "pull", "create", "start", "wait"},
   out : [Streams -> SUBSET (1 .. MaxOutput)],
   truncated : [Streams -> BOOLEAN]]

LogLines == [stream : Streams, upto : 1 .. MaxOutput]

(* Type invariant of the executor, its jobs and the daemon.                *)
TypeOK ==
  /\ current \in Jobs \cup {NoJob}
  /\ pc \in [Jobs -> PCs]
  /\ expired \in [Jobs -> BOOLEAN]
  /\ cancelled \in [Jobs -> BOOLEAN]
  /\ verdict \in [Jobs -> {"none", "exited", "timedOut", "waitFailed"}]
  /\ exitCode \in [Jobs -> {NoExit, Aborted} \cup ExitCodes]
  /\ result \in [Jobs -> Results]
  /\ done \in [Jobs -> BOOLEAN]
  /\ lines \in [Jobs -> Seq(LogLines)]
  /\ closed \in [Jobs -> BOOLEAN]
  /\ streamer \in
       [Jobs -> {"none", "GetLogs", "WriteStdout", "WriteStderr", "ended"}]
  /\ snapshot \in [Jobs -> [Streams -> 0 .. MaxOutput]]
  /\ container \in
       [Jobs -> {"absent", "created", "running", "exited", "removed"}]
  /\ code \in [Jobs -> {NoExit} \cup ExitCodes]
  /\ output \in [Jobs -> [Streams -> 0 .. MaxOutput]]
  /\ failed \in [Jobs -> SUBSET Calls]

Active(j) == pc[j] \notin {"none", "ended"}

(* "It processes exactly one job at a time" (executor.go:26): two          *)
(* executeJob goroutines never overlap, and the live one is the current.   *)
OneJobAtATime ==
  \A j \in Jobs : Active(j) => current = j /\ ~done[j]

(* When Done is closed, everything GetResult and StreamLogs give out is    *)
(* final: there is a result, the log buffer is closed, the contexts ended. *)
DoneIsFinal ==
  \A j \in Jobs :
    done[j] => /\ closed[j] /\ cancelled[j]
               /\ current = j => GetResult(j).status # "none"

(* The status tells what happened to the container: success and failed     *)
(* report the code it exited with, timeout needs the deadline to have      *)
(* passed, and error needs a runtime call that returned an error.          *)
ResultTruthful ==
  \A j \in Jobs :
    /\ result[j].status = "success" => result[j].exit = 0 /\ code[j] = 0
    /\ result[j].status = "failed" =>
         result[j].exit = code[j] /\ code[j] \in ExitCodes \ {0}
    /\ result[j].status = "timeout" => expired[j]
    /\ result[j].status = "error" => failed[j] # {}

(* A job reported as success, failed or timeout has no running container,  *)
(* unless both the stop and the kill of a timeout failed.                  *)
ReportedIsStopped ==
  \A j \in Jobs :
    result[j].status \in {"success", "failed", "timeout"}
      /\ container[j] = "running"
        => {"StopContainer", "KillContainer"} \subseteq failed[j]

(* A finished job leaves a container behind only if its removal failed, or *)
(* if CreateContainer reported an error.                                   *)
LeakNeedsFailure ==
  \A j \in Jobs :
    done[j] /\ container[j] \notin {"absent", "removed"} =>
      failed[j] \cap {"CreateContainer", "RemoveContainer"} # {}

(* Containers of two jobs run side by side only after a failed removal.    *)
OneContainerRunning ==
  \A j, k \in Jobs :
    j # k /\ container[j] = "running" /\ container[k] = "running" =>
      \E i \in {j, k} : "RemoveContainer" \in failed[i]

(* The output of a job that ran to its exit ends with the last unit the    *)
(* container wrote, and is marked truncated exactly if it lacks any.       *)
OutputHonest ==
  \A j \in Jobs : \A s \in Streams :
    result[j].status \in {"success", "failed"} /\ "GetLogs" \notin failed[j] =>
      /\ Cardinality(result[j].out[s]) <= MaxOutputBytes
      /\ MaxOutputBytes > 0 /\ output[j][s] > 0 =>
           output[j][s] \in result[j].out[s]
      /\ result[j].truncated[s] <=> result[j].out[s] # 1 .. output[j][s]

(* Once its image is known to exist or to need a pull, every job ends.     *)
JobEnds ==
  \A j \in Jobs : pc[j] \notin {"none", "ImageExists"} ~> done[j]

(* The streaming goroutine of a finished job ends too.                     *)
StreamerEnds ==
  \A j \in Jobs : done[j] ~> streamer[j] \in {"none", "ended"}

(* "This prevents container leaks regardless of success, failure, timeout, *)
(* or panic" (design.md:436).                                              *)
NoContainerLeft ==
  \A j \in Jobs : done[j] => container[j] \in {"absent", "removed"}

(* "WHEN a job is terminated due to timeout" its status is "timeout"       *)
(* (requirements.md:58).  Where no call is failed by the daemon, only the  *)
(* deadline can end a job early.                                           *)
TimeoutReported ==
  \A j \in Jobs : done[j] /\ expired[j] => result[j].status # "error"

Streamed(j, s) == {u \in 1 .. MaxOutput :
                     \E i \in 1 .. Len(lines[j]) :
                       lines[j][i].stream = s /\ u <= lines[j][i].upto}

(* The stream "emits stdout and stderr lines within 2 seconds of the       *)
(* output being produced" (requirements.md:118): a job that ran without    *)
(* any error has streamed all its output by the time the stream is closed. *)
StreamComplete ==
  \A j \in Jobs : \A s \in Streams :
    done[j] /\ failed[j] = {} /\ ~expired[j] /\ streamer[j] = "ended" =>
      Streamed(j, s) = 1 .. output[j][s]

(* Refinement: a job is finished when Done is closed. *)
Slot == INSTANCE JobSlot WITH
  Answers <- Results \ {NoResult},
  NoAnswer <- NoResult,
  Entries <- LogLines,
  slot <- current,
  phase <- [j \in Jobs |-> IF done[j] THEN "finished"
                           ELSE IF closed[j] THEN "closed"
                           ELSE IF pc[j] = "none" THEN "new" ELSE "running"],
  answer <- [j \in Jobs |-> IF done[j] THEN result[j] ELSE NoResult],
  log <- lines

(* The executor implements the single job slot of JobSlot.                 *)
ImplementsSlot == Slot!Spec

=============================================================================
