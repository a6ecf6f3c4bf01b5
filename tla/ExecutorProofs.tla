--------------------------- MODULE ExecutorProofs ---------------------------
(***************************************************************************)
(* Proofs about Executor, for any number of jobs, any set of exit codes,   *)
(* any output limit and any number of daemon faults.                       *)
(***************************************************************************)
EXTENDS Executor, TLAPS, FiniteSetTheorems

Deferred == {"RemoveContainer", "Cancel", "CloseLogs", "CloseDone", "ended"}

(* The deferred calls run in the order the flags they set say, and only    *)
(* after job.Result is set.                                                *)
Unwinding(j) ==
  /\ done[j] <=> pc[j] = "ended"
  /\ closed[j] <=> pc[j] \in {"CloseDone", "ended"}
  /\ cancelled[j] <=> pc[j] \in {"CloseLogs", "CloseDone", "ended"}
  /\ result[j].status # "none" <=> pc[j] \in Deferred
  /\ pc[j] = "none" => streamer[j] = "none"

(* What the daemon holds for the job at each call of executeJob. *)
Holding(j) ==
  /\ pc[j] \in {"none", "ImageExists", "PullImage", "CreateContainer"} =>
       container[j] = "absent"
  /\ pc[j] = "StartContainer" => container[j] = "created"
  /\ pc[j] \in {"WaitContainer", "StopContainer", "KillContainer", "GetLogs"} =>
       container[j] \in {"running", "exited"}
  /\ pc[j] = "WaitContainer" /\ container[j] = "exited" =>
       code[j] \in ExitCodes
  /\ pc[j] \in Deferred \ {"RemoveContainer"} =>
       /\ \/ container[j] \in {"absent", "removed"}
          \/ failed[j] \cap {"CreateContainer", "RemoveContainer"} # {}
       /\ container[j] = "running" => "RemoveContainer" \in failed[j]

(* What the outcome of WaitContainer stands for. *)
Verdict(j) ==
  /\ pc[j] \in {"none", "ImageExists", "PullImage", "CreateContainer",
                "StartContainer", "WaitContainer"} => verdict[j] = "none"
  /\ pc[j] \in {"StopContainer", "KillContainer"} => verdict[j] = "timedOut"
  /\ pc[j] = "GetLogs" => verdict[j] # "none"
  /\ verdict[j] = "exited" =>
       /\ container[j] \in {"exited", "removed"}
       /\ code[j] \in ExitCodes /\ exitCode[j] = code[j]
  /\ verdict[j] = "timedOut" => expired[j]
  /\ verdict[j] = "waitFailed" => "WaitContainer" \in failed[j]
  /\ pc[j] = "KillContainer" => "StopContainer" \in failed[j]
  /\ verdict[j] = "timedOut" /\ container[j] = "running" =>
       \/ pc[j] \in {"StopContainer", "KillContainer"}
       \/ {"StopContainer", "KillContainer"} \subseteq failed[j]

(* What the result says of the verdict and of the output. *)
Report(j) ==
  /\ result[j].status \in {"success", "failed"} =>
       /\ verdict[j] = "exited" /\ result[j].exit = exitCode[j]
       /\ result[j].status = "success" <=> exitCode[j] = 0
       /\ "GetLogs" \notin failed[j] =>
            \A s \in Streams :
              /\ result[j].out[s] = truncateTail(output[j][s])
              /\ result[j].truncated[s] = (output[j][s] > MaxOutputBytes)
  /\ result[j].status = "timeout" => verdict[j] = "timedOut"
  /\ result[j].status = "error" => failed[j] # {}

JobInv(j) == Unwinding(j) /\ Holding(j) /\ Verdict(j) /\ Report(j)

(* The inductive invariant. *)
IInv == TypeOK /\ OneJobAtATime /\ \A j \in Jobs : JobInv(j)

-----------------------------------------------------------------------------
(* Results have their type.                                                *)

(* A captured output is a set of units the container has written.          *)
LEMMA TruncateType ==
  ASSUME NEW n \in 0 .. MaxOutput PROVE truncateTail(n) \in SUBSET (1 .. MaxOutput)
BY ExecutorConstants DEF truncateTail

(* The value before any result is one of the result records.               *)
LEMMA NoResultType == NoResult \in Results
BY DEF NoResult, Results

(* The early returns build a result record.                                *)
LEMMA ErrorResultType ==
  ASSUME NEW step \in {"pull", "create", "start"}
  PROVE  ErrorResult(step) \in Results /\ ErrorResult(step).status = "error"
BY DEF ErrorResult, NoResult, Results

(* So does the end of executeJob, whatever WaitContainer returned.         *)
LEMMA CapturedType ==
  ASSUME TypeOK, NEW j \in Jobs, NEW logs \in [Streams -> 0 .. MaxOutput]
  PROVE  Captured(j, logs) \in Results
<1>1. Status(j) \in {"success", "failed", "timeout", "error"}
  BY DEF Status
<1>2. [s \in Streams |-> truncateTail(logs[s])] \in [Streams -> SUBSET (1 .. MaxOutput)]
  BY TruncateType
<1>3. [s \in Streams |-> logs[s] > MaxOutputBytes] \in [Streams -> BOOLEAN]
  OBVIOUS
<1>4. exitCode[j] \in {NoExit, Aborted} \cup ExitCodes
  BY DEF TypeOK
<1> QED BY <1>1, <1>2, <1>3, <1>4 DEF Captured, Results

(* A container that wrote nothing. *)
LEMMA NothingType == Nothing \in [Streams -> 0 .. MaxOutput]
BY ExecutorConstants DEF Nothing

-----------------------------------------------------------------------------
(* NewExecutor starts in a state of the inductive invariant.               *)
LEMMA InitIInv == Init => IInv
<1> SUFFICES ASSUME Init PROVE IInv
  OBVIOUS
<1>1. TypeOK
  <2>1. /\ current \in Jobs \cup {NoJob}
        /\ pc \in [Jobs -> PCs]
        /\ failed \in [Jobs -> SUBSET Calls]
        /\ verdict \in [Jobs -> {"none", "exited", "timedOut", "waitFailed"}]
        /\ streamer \in
             [Jobs -> {"none", "GetLogs", "WriteStdout", "WriteStderr", "ended"}]
        /\ container \in
             [Jobs -> {"absent", "created", "running", "exited", "removed"}]
    BY DEF Init, PCs
  <2>2. /\ expired \in [Jobs -> BOOLEAN] /\ cancelled \in [Jobs -> BOOLEAN]
        /\ done \in [Jobs -> BOOLEAN] /\ closed \in [Jobs -> BOOLEAN]
    BY DEF Init
  <2>3. /\ exitCode \in [Jobs -> {NoExit, Aborted} \cup ExitCodes]
        /\ code \in [Jobs -> {NoExit} \cup ExitCodes]
    BY DEF Init
  <2>4. result \in [Jobs -> Results]
    BY NoResultType DEF Init
  <2>5. /\ snapshot \in [Jobs -> [Streams -> 0 .. MaxOutput]]
        /\ output \in [Jobs -> [Streams -> 0 .. MaxOutput]]
    BY NothingType DEF Init
  <2>6. lines \in [Jobs -> Seq(LogLines)]
    BY DEF Init
  <2> QED BY <2>1, <2>2, <2>3, <2>4, <2>5, <2>6 DEF TypeOK
<1>2. OneJobAtATime
  BY DEF Init, OneJobAtATime, Active
<1>3. ASSUME NEW j \in Jobs PROVE JobInv(j)
  BY DEF Init, JobInv, Unwinding, Holding, Verdict, Report, Deferred, NoResult
<1> QED BY <1>1, <1>2, <1>3 DEF IInv

(* What a step that leaves job k alone leaves alone. *)
Untouched(k) ==
  /\ pc'[k] = pc[k] /\ expired'[k] = expired[k] /\ cancelled'[k] = cancelled[k]
  /\ verdict'[k] = verdict[k] /\ exitCode'[k] = exitCode[k]
  /\ result'[k] = result[k] /\ done'[k] = done[k] /\ closed'[k] = closed[k]
  /\ streamer'[k] = streamer[k] /\ container'[k] = container[k]
  /\ code'[k] = code[k] /\ output'[k] = output[k] /\ failed'[k] = failed[k]

(* The invariant of a job depends on that job alone.                       *)
LEMMA Frame ==
  ASSUME NEW k \in Jobs, JobInv(k), Untouched(k) PROVE JobInv(k)'
BY DEF JobInv, Unwinding, Holding, Verdict, Report, Untouched

-----------------------------------------------------------------------------
(* One lemma per group of actions, with a case per action.         *)

(* Moving to a label of executeJob.                                        *)
LEMMA GotoType ==
  ASSUME TypeOK, NEW j \in Jobs, NEW label \in PCs, Goto(j, label)
  PROVE  pc' \in [Jobs -> PCs]
BY DEF Goto, TypeOK

(* Recording a failed call.                                                *)
LEMMA FailsType ==
  ASSUME TypeOK, NEW j \in Jobs, NEW call \in Calls, Fails(j, call)
  PROVE  failed' \in [Jobs -> SUBSET Calls]
BY DEF Fails, TypeOK

(* Any step on the container of job j.                                     *)
LEMMA ContainerType ==
  ASSUME TypeOK, NEW j \in Jobs,
         NEW c \in {"absent", "created", "running", "exited", "removed"},
         container' = [container EXCEPT ![j] = c]
  PROVE  container' \in
           [Jobs -> {"absent", "created", "running", "exited", "removed"}]
BY DEF TypeOK

(* Accepting a job: the slot is free, so no other executeJob is live.      *)
LEMMA SubmitIInv == ASSUME IInv, NEW j \in Jobs, Submit(j) PROVE IInv'
<1>0. TypeOK /\ OneJobAtATime /\ JobInv(j)
  BY DEF IInv
<1> USE DEF Submit, Goto, slotVars, ctxVars, localVars, bufVars, streamVars,
            daemonVars
<1>1. TypeOK'
  BY <1>0 DEF TypeOK, PCs, Calls
<1>2. JobInv(j)'
  BY <1>0 DEF TypeOK, JobInv, Unwinding, Holding, Verdict, Report, Deferred
<1>3. \A k \in Jobs \ {j} : Untouched(k)
  BY <1>0 DEF TypeOK, Untouched
<1>4. OneJobAtATime'
  <2> SUFFICES ASSUME NEW k \in Jobs, Active(k)'
               PROVE  j = k /\ ~done'[k]
    BY DEF OneJobAtATime
  <2>1. CASE k = j
    BY <1>0, <2>1 DEF JobInv, Unwinding
  <2>2. CASE k # j
    <3>1. Active(k) /\ current = k /\ ~done[k]
      BY <1>0, <1>3, <2>2 DEF Active, Untouched, OneJobAtATime
    <3> QED BY <3>1, ExecutorConstants DEF IsReady
  <2> QED BY <2>1, <2>2
<1> QED BY <1>1, <1>2, <1>3, <1>4, Frame DEF IInv

(* An early return of executeJob: an error result and the deferred calls   *)
(* registered so far.  The container is known to be absent, or created     *)
(* behind a lost reply, or about to be removed.                            *)
LEMMA AbortIInv ==
  ASSUME IInv, NEW j \in Jobs,
         pc[j] \in {"ImageExists", "PullImage", "CreateContainer",
            "StartContainer"},
         NEW call \in Calls, NEW step \in {"pull", "create", "start"},
         NEW label, NEW c, Abort(j, call, step, label),
         container' = [container EXCEPT ![j] = c],
         \/ label = "Cancel" /\ c = "absent"
         \/ label = "Cancel" /\ c = "created" /\ call = "CreateContainer"
         \/ label = "RemoveContainer" /\ c \in {"created", "running"},
         UNCHANGED <<slotVars, ctxVars, localVars, bufVars, streamVars, code,
            output>>
  PROVE  IInv'
<1>0. TypeOK /\ OneJobAtATime /\ JobInv(j)
  BY DEF IInv
<1> USE DEF Abort, Goto, Fails, slotVars, ctxVars, localVars, bufVars,
   streamVars
<1>1. /\ pc' \in [Jobs -> PCs]
      /\ container' \in
           [Jobs -> {"absent", "created", "running", "exited", "removed"}]
  BY <1>0 DEF TypeOK, PCs, Calls
<1>2. failed' \in [Jobs -> SUBSET Calls]
  BY <1>0 DEF TypeOK
<1>3. /\ result' \in [Jobs -> Results]
      /\ result'[j].status = "error"
  BY <1>0, ErrorResultType DEF TypeOK
<1>4. TypeOK'
  BY <1>0, <1>1, <1>2, <1>3 DEF TypeOK
<1>5. pc'[j] = label /\ container'[j] = c /\ failed'[j] = failed[j] \cup {call}
  BY <1>0 DEF TypeOK
<1>6. JobInv(j)'
  <2>1. Unwinding(j)' /\ Report(j)'
    BY <1>0, <1>3, <1>5 DEF JobInv, Unwinding, Report, Deferred
  <2>2. Holding(j)'
    BY <1>0, <1>5 DEF JobInv, Holding, Deferred
  <2>3. Verdict(j)'
    BY <1>0, <1>5 DEF JobInv, Verdict
  <2> QED BY <2>1, <2>2, <2>3 DEF JobInv
<1>7. \A k \in Jobs \ {j} : Untouched(k)
  BY <1>0 DEF TypeOK, Untouched
<1>8. OneJobAtATime'
  BY <1>0, <1>5, <1>7 DEF OneJobAtATime, Active, Untouched, JobInv, Unwinding
<1> QED BY <1>4, <1>6, <1>7, <1>8, Frame DEF IInv

(* The calls up to a started container, with their early returns.          *)
LEMMA PrepareIInv ==
  ASSUME IInv, NEW j \in Jobs,
         ImageExists(j) \/ PullImage(j) \/ CreateContainer(j) \/
            StartContainer(j)
  PROVE  IInv'
<1>0. TypeOK /\ OneJobAtATime /\ JobInv(j)
  BY DEF IInv
<1>1. CASE ImageExists(j)
  <2>1. CASE (Goto(j, "CreateContainer") \/ Goto(j, "PullImage"))
            /\ UNCHANGED <<result, failed>>
    <3>1. TypeOK'
      BY <1>0, <1>1, <2>1 DEF ImageExists, Goto, slotVars, ctxVars, localVars,
         bufVars, streamVars, daemonVars, TypeOK, PCs, Calls
    <3>2. JobInv(j)'
      BY <1>0, <1>1, <2>1 DEF ImageExists, Goto, slotVars, ctxVars, localVars,
         bufVars, streamVars, daemonVars, TypeOK, JobInv, Unwinding, Holding,
         Verdict, Report, Deferred
    <3>3. \A k \in Jobs \ {j} : Untouched(k)
      BY <1>0, <1>1, <2>1 DEF ImageExists, Goto, slotVars, ctxVars, localVars,
         bufVars, streamVars, daemonVars, TypeOK, Untouched
    <3>4. OneJobAtATime'
      BY <1>0, <1>1, <2>1 DEF ImageExists, Goto, slotVars, ctxVars, localVars,
         bufVars, streamVars, daemonVars, TypeOK, OneJobAtATime, Active,
         JobInv, Unwinding
    <3> QED BY <3>1, <3>2, <3>3, <3>4, Frame DEF IInv
  <2>2. CASE Abort(j, "ImageExists", "pull", "Cancel")
    <3>1. container' = [container EXCEPT ![j] = "absent"]
      BY <1>0, <1>1 DEF ImageExists, daemonVars, JobInv, Holding, TypeOK
    <3>2. "ImageExists" \in Calls /\ pc[j] = "ImageExists"
      BY <1>1 DEF ImageExists, Calls
    <3> QED BY <1>1, <2>2, <3>1, <3>2, AbortIInv DEF ImageExists, daemonVars
  <2> QED BY <1>1, <2>1, <2>2 DEF ImageExists
<1>2. CASE PullImage(j)
  <2>1. CASE Goto(j, "CreateContainer") /\ UNCHANGED <<result, failed>>
    <3>1. TypeOK'
      BY <1>0, <1>2, <2>1 DEF PullImage, Goto, slotVars, ctxVars, localVars,
         bufVars, streamVars, daemonVars, TypeOK, PCs, Calls
    <3>2. JobInv(j)'
      BY <1>0, <1>2, <2>1 DEF PullImage, Goto, slotVars, ctxVars, localVars,
         bufVars, streamVars, daemonVars, TypeOK, JobInv, Unwinding, Holding,
         Verdict, Report, Deferred
    <3>3. \A k \in Jobs \ {j} : Untouched(k)
      BY <1>0, <1>2, <2>1 DEF PullImage, Goto, slotVars, ctxVars, localVars,
         bufVars, streamVars, daemonVars, TypeOK, Untouched
    <3>4. OneJobAtATime'
      BY <1>0, <1>2, <2>1 DEF PullImage, Goto, slotVars, ctxVars, localVars,
         bufVars, streamVars, daemonVars, TypeOK, OneJobAtATime, Active,
         JobInv, Unwinding
    <3> QED BY <3>1, <3>2, <3>3, <3>4, Frame DEF IInv
  <2>2. CASE Abort(j, "PullImage", "pull", "Cancel")
    <3>1. container' = [container EXCEPT ![j] = "absent"]
      BY <1>0, <1>2 DEF PullImage, daemonVars, JobInv, Holding, TypeOK
    <3>2. "PullImage" \in Calls /\ pc[j] = "PullImage"
      BY <1>2 DEF PullImage, Calls
    <3> QED BY <1>2, <2>2, <3>1, <3>2, AbortIInv DEF PullImage, daemonVars
  <2> QED BY <1>2, <2>1, <2>2 DEF PullImage
<1>3. CASE CreateContainer(j)
  <2>1. CASE /\ container' = [container EXCEPT ![j] = "created"]
            /\ Goto(j, "StartContainer") /\ UNCHANGED <<result, failed>>
    <3>1. TypeOK'
      BY <1>0, <1>3, <2>1 DEF CreateContainer, Goto, slotVars, ctxVars,
         localVars, bufVars, streamVars, daemonVars, TypeOK, PCs, Calls
    <3>2. JobInv(j)'
      BY <1>0, <1>3, <2>1 DEF CreateContainer, Goto, slotVars, ctxVars,
         localVars, bufVars, streamVars, daemonVars, TypeOK, JobInv, Unwinding,
         Holding, Verdict, Report, Deferred
    <3>3. \A k \in Jobs \ {j} : Untouched(k)
      BY <1>0, <1>3, <2>1 DEF CreateContainer, Goto, slotVars, ctxVars,
         localVars, bufVars, streamVars, daemonVars, TypeOK, Untouched
    <3>4. OneJobAtATime'
      BY <1>0, <1>3, <2>1 DEF CreateContainer, Goto, slotVars, ctxVars,
         localVars, bufVars, streamVars, daemonVars, TypeOK, OneJobAtATime,
         Active, JobInv, Unwinding
    <3> QED BY <3>1, <3>2, <3>3, <3>4, Frame DEF IInv
  <2>2. CASE Abort(j, "CreateContainer", "create", "Cancel")
            /\ \E c \in {"absent", "created"} :
                 container' = [container EXCEPT ![j] = c]
    <3>1. PICK c \in {"absent", "created"} : container' = [container EXCEPT
       ![j] = c]
      BY <2>2
    <3>2. "CreateContainer" \in Calls /\ pc[j] = "CreateContainer"
      BY <1>3 DEF CreateContainer, Calls
    <3> QED BY <1>3, <2>2, <3>1, <3>2, AbortIInv DEF CreateContainer, streamVars
  <2> QED BY <1>3, <2>1, <2>2 DEF CreateContainer
<1>4. CASE StartContainer(j)
  <2>1. CASE /\ container' = [container EXCEPT ![j] = "running"]
            /\ streamer' = [streamer EXCEPT ![j] = "GetLogs"]
            /\ Goto(j, "WaitContainer") /\ UNCHANGED <<result, failed>>
    <3>1. TypeOK'
      BY <1>0, <1>4, <2>1 DEF StartContainer, Goto, slotVars, ctxVars,
         localVars, bufVars, streamVars, daemonVars, TypeOK, PCs, Calls
    <3>2. JobInv(j)'
      BY <1>0, <1>4, <2>1 DEF StartContainer, Goto, slotVars, ctxVars,
         localVars, bufVars, streamVars, daemonVars, TypeOK, JobInv, Unwinding,
         Holding, Verdict, Report, Deferred
    <3>3. \A k \in Jobs \ {j} : Untouched(k)
      BY <1>0, <1>4, <2>1 DEF StartContainer, Goto, slotVars, ctxVars,
         localVars, bufVars, streamVars, daemonVars, TypeOK, Untouched
    <3>4. OneJobAtATime'
      BY <1>0, <1>4, <2>1 DEF StartContainer, Goto, slotVars, ctxVars,
         localVars, bufVars, streamVars, daemonVars, TypeOK, OneJobAtATime,
         Active, JobInv, Unwinding
    <3> QED BY <3>1, <3>2, <3>3, <3>4, Frame DEF IInv
  <2>2. CASE Abort(j, "StartContainer", "start", "RemoveContainer") /\
     UNCHANGED streamer
            /\ \E c \in {"created", "running"} :
                 container' = [container EXCEPT ![j] = c]
    <3>1. PICK c \in {"created", "running"} : container' = [container EXCEPT
       ![j] = c]
      BY <2>2
    <3>2. "StartContainer" \in Calls /\ pc[j] = "StartContainer"
      BY <1>4 DEF StartContainer, Calls
    <3> QED BY <1>4, <2>2, <3>1, <3>2, AbortIInv DEF StartContainer, streamVars
  <2> QED BY <1>4, <2>1, <2>2 DEF StartContainer
<1> QED BY <1>1, <1>2, <1>3, <1>4

(* The ways WaitContainer returns.                                         *)
LEMMA WaitIInv ==
  ASSUME IInv, NEW j \in Jobs,
         WaitExited(j) \/ WaitExpired(j) \/ WaitFault(j)
  PROVE  IInv'
<1>0. TypeOK /\ OneJobAtATime /\ JobInv(j)
  BY DEF IInv
<1>1. CASE WaitExited(j)
  <2>1. TypeOK'
    BY <1>0, <1>1 DEF WaitExited, Waited, Goto, slotVars, ctxVars, localVars,
       bufVars, streamVars, daemonVars, TypeOK, PCs, Calls
  <2>2. JobInv(j)'
    BY <1>0, <1>1 DEF WaitExited, Waited, Goto, slotVars, ctxVars, localVars,
       bufVars, streamVars, daemonVars, TypeOK, JobInv, Unwinding, Holding,
       Verdict, Report, Deferred
  <2>3. \A k \in Jobs \ {j} : Untouched(k)
    BY <1>0, <1>1 DEF WaitExited, Waited, Goto, slotVars, ctxVars, localVars,
       bufVars, streamVars, daemonVars, TypeOK, Untouched
  <2>4. OneJobAtATime'
    BY <1>0, <1>1 DEF WaitExited, Waited, Goto, slotVars, ctxVars, localVars,
       bufVars, streamVars, daemonVars, TypeOK, OneJobAtATime, Active, JobInv,
       Unwinding
  <2> QED BY <2>1, <2>2, <2>3, <2>4, Frame DEF IInv
<1>2. CASE WaitExpired(j)
  <2>1. TypeOK'
    BY <1>0, <1>2 DEF WaitExpired, Waited, Goto, slotVars, ctxVars, localVars,
       bufVars, streamVars, daemonVars, TypeOK, PCs, Calls
  <2>2. JobInv(j)'
    BY <1>0, <1>2 DEF WaitExpired, Waited, Goto, slotVars, ctxVars, localVars,
       bufVars, streamVars, daemonVars, TypeOK, JobInv, Unwinding, Holding,
       Verdict, Report, Deferred
  <2>3. \A k \in Jobs \ {j} : Untouched(k)
    BY <1>0, <1>2 DEF WaitExpired, Waited, Goto, slotVars, ctxVars, localVars,
       bufVars, streamVars, daemonVars, TypeOK, Untouched
  <2>4. OneJobAtATime'
    BY <1>0, <1>2 DEF WaitExpired, Waited, Goto, slotVars, ctxVars, localVars,
       bufVars, streamVars, daemonVars, TypeOK, OneJobAtATime, Active, JobInv,
       Unwinding
  <2> QED BY <2>1, <2>2, <2>3, <2>4, Frame DEF IInv
<1>3. CASE WaitFault(j)
  <2>1. TypeOK'
    BY <1>0, <1>3 DEF WaitFault, Waited, Goto, Fails, slotVars, ctxVars,
       localVars, bufVars, streamVars, daemonVars, TypeOK, PCs, Calls
  <2>2. JobInv(j)'
    BY <1>0, <1>3 DEF WaitFault, Waited, Goto, Fails, slotVars, ctxVars,
       localVars, bufVars, streamVars, daemonVars, TypeOK, JobInv, Unwinding,
       Holding, Verdict, Report, Deferred
  <2>3. \A k \in Jobs \ {j} : Untouched(k)
    BY <1>0, <1>3 DEF WaitFault, Waited, Goto, Fails, slotVars, ctxVars,
       localVars, bufVars, streamVars, daemonVars, TypeOK, Untouched
  <2>4. OneJobAtATime'
    BY <1>0, <1>3 DEF WaitFault, Waited, Goto, Fails, slotVars, ctxVars,
       localVars, bufVars, streamVars, daemonVars, TypeOK, OneJobAtATime,
       Active, JobInv, Unwinding
  <2> QED BY <2>1, <2>2, <2>3, <2>4, Frame DEF IInv
<1> QED BY <1>1, <1>2, <1>3

(* handleTimeout.                                                          *)
LEMMA TimeoutIInv ==
  ASSUME IInv, NEW j \in Jobs,
         StopContainer(j) \/ KillContainer(j)
  PROVE  IInv'
<1>0. TypeOK /\ OneJobAtATime /\ JobInv(j)
  BY DEF IInv
<1>1. CASE StopContainer(j)
  <2>1. TypeOK'
    <3>1. pc' \in [Jobs -> PCs]
      BY <1>0, <1>1, GotoType DEF StopContainer, PCs, Calls
    <3>2. failed' \in [Jobs -> SUBSET Calls]
      BY <1>0, <1>1, FailsType DEF StopContainer, TypeOK, Calls
    <3>3. container' \in
               [Jobs -> {"absent", "created", "running", "exited", "removed"}]
      <4>1. /\ container[j] \in {"absent", "created", "running", "exited", "removed"}
            /\ Halted(j) \in {"absent", "created", "running", "exited", "removed"}
        BY <1>0 DEF TypeOK, Halted
      <4> QED BY <1>0, <1>1, <4>1, ContainerType DEF StopContainer
    <3> QED BY <1>0, <1>1, <3>1, <3>2, <3>3 DEF StopContainer, Halted, Goto,
       Fails, slotVars, ctxVars, localVars, bufVars, streamVars, daemonVars,
       TypeOK
  <2>2. JobInv(j)'
    BY <1>0, <1>1 DEF StopContainer, Halted, Goto, Fails, slotVars, ctxVars,
       localVars, bufVars, streamVars, daemonVars, TypeOK, JobInv, Unwinding,
       Holding, Verdict, Report, Deferred
  <2>3. \A k \in Jobs \ {j} : Untouched(k)
    BY <1>0, <1>1 DEF StopContainer, Halted, Goto, Fails, slotVars, ctxVars,
       localVars, bufVars, streamVars, daemonVars, TypeOK, Untouched
  <2>4. OneJobAtATime'
    BY <1>0, <1>1 DEF StopContainer, Halted, Goto, Fails, slotVars, ctxVars,
       localVars, bufVars, streamVars, daemonVars, TypeOK, OneJobAtATime,
       Active, JobInv, Unwinding
  <2> QED BY <2>1, <2>2, <2>3, <2>4, Frame DEF IInv
<1>2. CASE KillContainer(j)
  <2>1. TypeOK'
    <3>1. pc' \in [Jobs -> PCs]
      BY <1>0, <1>2, GotoType DEF KillContainer, PCs, Calls
    <3>2. failed' \in [Jobs -> SUBSET Calls]
      BY <1>0, <1>2, FailsType DEF KillContainer, TypeOK, Calls
    <3>3. container' \in
               [Jobs -> {"absent", "created", "running", "exited", "removed"}]
      <4>1. /\ container[j] \in {"absent", "created", "running", "exited", "removed"}
            /\ Halted(j) \in {"absent", "created", "running", "exited", "removed"}
        BY <1>0 DEF TypeOK, Halted
      <4> QED BY <1>0, <1>2, <4>1, ContainerType DEF KillContainer
    <3> QED BY <1>0, <1>2, <3>1, <3>2, <3>3 DEF KillContainer, Halted, Goto,
       Fails, slotVars, ctxVars, localVars, bufVars, streamVars, daemonVars,
       TypeOK
  <2>2. JobInv(j)'
    BY <1>0, <1>2 DEF KillContainer, Halted, Goto, Fails, slotVars, ctxVars,
       localVars, bufVars, streamVars, daemonVars, TypeOK, JobInv, Unwinding,
       Holding, Verdict, Report, Deferred
  <2>3. \A k \in Jobs \ {j} : Untouched(k)
    BY <1>0, <1>2 DEF KillContainer, Halted, Goto, Fails, slotVars, ctxVars,
       localVars, bufVars, streamVars, daemonVars, TypeOK, Untouched
  <2>4. OneJobAtATime'
    BY <1>0, <1>2 DEF KillContainer, Halted, Goto, Fails, slotVars, ctxVars,
       localVars, bufVars, streamVars, daemonVars, TypeOK, OneJobAtATime,
       Active, JobInv, Unwinding
  <2> QED BY <2>1, <2>2, <2>3, <2>4, Frame DEF IInv
<1> QED BY <1>1, <1>2

(* The fields of the result that executeJob builds.                        *)
LEMMA CapturedFields ==
  ASSUME NEW j, NEW logs
  PROVE  /\ Captured(j, logs).status = Status(j)
         /\ Captured(j, logs).exit =
              IF verdict[j] = "waitFailed" THEN NoExit ELSE exitCode[j]
         /\ \A s \in Streams :
              /\ Captured(j, logs).out[s] = truncateTail(logs[s])
              /\ Captured(j, logs).truncated[s] = (logs[s] > MaxOutputBytes)
BY DEF Captured

(* Collecting the output and building the result.                          *)
LEMMA CollectIInv == ASSUME IInv, NEW j \in Jobs, GetLogs(j) PROVE IInv'
<1>0. TypeOK /\ OneJobAtATime /\ JobInv(j)
  BY DEF IInv
<1> USE DEF GetLogs, Goto, Fails, slotVars, ctxVars, localVars, bufVars,
            streamVars, daemonVars
<1>1. PICK logs \in [Streams -> 0 .. MaxOutput] :
        /\ result' = [result EXCEPT ![j] = Captured(j, logs)]
        /\ \/ failed' = failed /\ logs = output[j]
           \/ failed' = [failed EXCEPT ![j] = @ \cup {"GetLogs"}]
  BY <1>0, NothingType DEF TypeOK
<1>2. \/ failed'[j] = failed[j] /\ logs = output[j]
      \/ failed'[j] = failed[j] \cup {"GetLogs"}
  BY <1>0, <1>1 DEF TypeOK
<1>3. /\ failed' \in [Jobs -> SUBSET Calls]
      /\ pc' \in [Jobs -> PCs]
      /\ result' \in [Jobs -> Results]
  <2>1. failed' \in [Jobs -> SUBSET Calls]
    <3>1. CASE failed' = failed
      BY <1>0, <3>1 DEF TypeOK
    <3>2. CASE Fails(j, "GetLogs")
      BY <1>0, <3>2, FailsType DEF Calls
    <3> QED BY <1>1, <3>1, <3>2
  <2>2. pc' \in [Jobs -> PCs]
    BY <1>0, GotoType DEF PCs, Calls
  <2>3. result' \in [Jobs -> Results]
    BY <1>0, <1>1, CapturedType DEF TypeOK
  <2> QED BY <2>1, <2>2, <2>3
<1>4. TypeOK'
  BY <1>0, <1>3 DEF TypeOK
<1>5. JobInv(j)'
  <2>1. /\ pc[j] = "GetLogs" /\ pc'[j] = "RemoveContainer"
        /\ result'[j] = Captured(j, logs)
    BY <1>0, <1>1 DEF TypeOK
  <2>2. \/ Status(j) = "timeout" /\ verdict[j] = "timedOut"
        \/ Status(j) = "error" /\ verdict[j] = "waitFailed"
        \/ Status(j) = "success" /\ verdict[j] = "exited" /\ exitCode[j] = 0
        \/ Status(j) = "failed" /\ verdict[j] = "exited" /\ exitCode[j] # 0
    <3>1. verdict[j] \in {"exited", "timedOut", "waitFailed"}
      BY <1>0, <2>1 DEF TypeOK, JobInv, Verdict
    <3> QED BY <3>1 DEF Status
  <2>3. Unwinding(j)'
    BY <1>0, <2>1, <2>2, CapturedFields DEF JobInv, Unwinding, Deferred
  <2>4. Holding(j)' /\ Verdict(j)'
    BY <1>0, <1>2, <2>1 DEF JobInv, Holding, Verdict, Deferred
  <2>5. Report(j)'
    <3> DEFINE r == Captured(j, logs)
    <3>1. /\ r.status = Status(j)
          /\ verdict[j] = "exited" => r.exit = exitCode[j]
      BY CapturedFields
    <3>2. "GetLogs" \notin failed'[j] =>
            \A s \in Streams :
              /\ r.out[s] = truncateTail(output[j][s])
              /\ r.truncated[s] = (output[j][s] > MaxOutputBytes)
      <4>1. \A s \in Streams :
              /\ r.out[s] = truncateTail(logs[s])
              /\ r.truncated[s] = (logs[s] > MaxOutputBytes)
        BY CapturedFields
      <4> HIDE DEF r
      <4> QED BY <1>2, <4>1
    <3>3. Status(j) = "error" => failed'[j] # {}
      BY <1>0, <1>2, <2>2 DEF JobInv, Verdict
    <3> HIDE DEF r
    <3>4. result'[j] = r
      BY <2>1 DEF r
    <3> QED BY <2>2, <3>1, <3>2, <3>3, <3>4 DEF Report, truncateTail
  <2> QED BY <2>3, <2>4, <2>5 DEF JobInv
<1>6. \A k \in Jobs \ {j} : Untouched(k)
  BY <1>0, <1>1 DEF TypeOK, Untouched
<1>7. OneJobAtATime'
  BY <1>0, <1>6 DEF TypeOK, OneJobAtATime, Active, Untouched, JobInv, Unwinding
<1> QED BY <1>4, <1>5, <1>6, <1>7, Frame DEF IInv

(* The removal of the container, which may fail.                           *)
LEMMA RemoveIInv == ASSUME IInv, NEW j \in Jobs, RemoveContainer(j) PROVE IInv'
<1>0. TypeOK /\ OneJobAtATime /\ JobInv(j)
  BY DEF IInv
<1> USE DEF RemoveContainer, Goto, Fails, slotVars, ctxVars, localVars, bufVars,
            streamVars
<1>1. \/ container'[j] = "removed" /\ failed'[j] = failed[j]
      \/ /\ container'[j] \in {container[j], "removed"}
         /\ failed'[j] = failed[j] \cup {"RemoveContainer"}
  BY <1>0 DEF TypeOK
<1>2. /\ failed' \in [Jobs -> SUBSET Calls]
      /\ pc' \in [Jobs -> PCs]
  BY <1>0, FailsType, GotoType DEF TypeOK, PCs, Calls
<1>3. container' \in
        [Jobs -> {"absent", "created", "running", "exited", "removed"}]
  BY <1>0 DEF TypeOK
<1>4. TypeOK'
  BY <1>0, <1>2, <1>3 DEF TypeOK
<1>5. JobInv(j)'
  <2>1. pc[j] = "RemoveContainer" /\ pc'[j] = "Cancel"
    BY <1>0 DEF TypeOK
  <2>2. Unwinding(j)' /\ Report(j)'
    BY <1>0, <1>1, <2>1 DEF JobInv, Unwinding, Report, Deferred
  <2>3. Holding(j)'
    BY <1>0, <1>1, <2>1 DEF JobInv, Holding, Deferred
  <2>4. Verdict(j)'
    BY <1>0, <1>1, <2>1 DEF JobInv, Verdict
  <2> QED BY <2>2, <2>3, <2>4 DEF JobInv
<1>6. \A k \in Jobs \ {j} : Untouched(k)
  BY <1>0 DEF TypeOK, Untouched
<1>7. OneJobAtATime'
  BY <1>0, <1>6 DEF TypeOK, OneJobAtATime, Active, Untouched, JobInv, Unwinding
<1> QED BY <1>4, <1>5, <1>6, <1>7, Frame DEF IInv

(* The other deferred calls.                                               *)
LEMMA UnwindIInv ==
  ASSUME IInv, NEW j \in Jobs,
         Cancel(j) \/ CloseLogs(j) \/ CloseDone(j)
  PROVE  IInv'
<1>0. TypeOK /\ OneJobAtATime /\ JobInv(j)
  BY DEF IInv
<1>1. CASE Cancel(j)
  <2>1. TypeOK'
    BY <1>0, <1>1 DEF Cancel, Goto, slotVars, ctxVars, localVars, bufVars,
       streamVars, daemonVars, TypeOK, PCs
  <2>2. JobInv(j)'
    BY <1>0, <1>1 DEF Cancel, Goto, slotVars, ctxVars, localVars, bufVars,
       streamVars, daemonVars, TypeOK, JobInv, Unwinding, Holding, Verdict,
       Report, Deferred
  <2>3. \A k \in Jobs \ {j} : Untouched(k)
    BY <1>0, <1>1 DEF Cancel, Goto, slotVars, ctxVars, localVars, bufVars,
       streamVars, daemonVars, TypeOK, Untouched
  <2>4. OneJobAtATime'
    BY <1>0, <1>1 DEF Cancel, Goto, slotVars, ctxVars, localVars, bufVars,
       streamVars, daemonVars, TypeOK, OneJobAtATime, Active, JobInv, Unwinding
  <2> QED BY <2>1, <2>2, <2>3, <2>4, Frame DEF IInv
<1>2. CASE CloseLogs(j)
  <2>1. TypeOK'
    BY <1>0, <1>2 DEF CloseLogs, Goto, slotVars, ctxVars, localVars, bufVars,
       streamVars, daemonVars, TypeOK, PCs
  <2>2. JobInv(j)'
    BY <1>0, <1>2 DEF CloseLogs, Goto, slotVars, ctxVars, localVars, bufVars,
       streamVars, daemonVars, TypeOK, JobInv, Unwinding, Holding, Verdict,
       Report, Deferred
  <2>3. \A k \in Jobs \ {j} : Untouched(k)
    BY <1>0, <1>2 DEF CloseLogs, Goto, slotVars, ctxVars, localVars, bufVars,
       streamVars, daemonVars, TypeOK, Untouched
  <2>4. OneJobAtATime'
    BY <1>0, <1>2 DEF CloseLogs, Goto, slotVars, ctxVars, localVars, bufVars,
       streamVars, daemonVars, TypeOK, OneJobAtATime, Active, JobInv, Unwinding
  <2> QED BY <2>1, <2>2, <2>3, <2>4, Frame DEF IInv
<1>3. CASE CloseDone(j)
  <2>1. TypeOK'
    BY <1>0, <1>3 DEF CloseDone, Goto, slotVars, ctxVars, localVars, bufVars,
       streamVars, daemonVars, TypeOK, PCs
  <2>2. JobInv(j)'
    BY <1>0, <1>3 DEF CloseDone, Goto, slotVars, ctxVars, localVars, bufVars,
       streamVars, daemonVars, TypeOK, JobInv, Unwinding, Holding, Verdict,
       Report, Deferred
  <2>3. \A k \in Jobs \ {j} : Untouched(k)
    BY <1>0, <1>3 DEF CloseDone, Goto, slotVars, ctxVars, localVars, bufVars,
       streamVars, daemonVars, TypeOK, Untouched
  <2>4. OneJobAtATime'
    BY <1>0, <1>3 DEF CloseDone, Goto, slotVars, ctxVars, localVars, bufVars,
       streamVars, daemonVars, TypeOK, OneJobAtATime, Active, JobInv, Unwinding
  <2> QED BY <2>1, <2>2, <2>3, <2>4, Frame DEF IInv
<1> QED BY <1>1, <1>2, <1>3

(* A line written to the buffer has its type.                              *)
LEMMA BufferType ==
  ASSUME TypeOK, NEW j \in Jobs, NEW s \in Streams, Buffer(j, s)
  PROVE  lines' \in [Jobs -> Seq(LogLines)]
<1>1. CASE UNCHANGED lines
  BY <1>1 DEF TypeOK
<1>2. CASE /\ snapshot[j][s] > 0
           /\ lines' = [lines EXCEPT ![j] =
                          Append(@, [stream |-> s, upto |-> snapshot[j][s]])]
  <2>1. [stream |-> s, upto |-> snapshot[j][s]] \in LogLines
    BY <1>2, ExecutorConstants DEF TypeOK, LogLines
  <2>2. lines[j] \in Seq(LogLines)
    BY DEF TypeOK
  <2>3. Append(lines[j], [stream |-> s, upto |-> snapshot[j][s]]) \in
     Seq(LogLines)
    BY <2>1, <2>2
  <2> QED BY <1>2, <2>3 DEF TypeOK
<1> QED BY <1>1, <1>2 DEF Buffer

(* streamContainerLogs.                                                    *)
LEMMA StreamerIInv ==
  ASSUME IInv, NEW j \in Jobs,
         ReadLogs(j) \/ WriteStdout(j) \/ WriteStderr(j)
  PROVE  IInv'
<1>0. TypeOK /\ OneJobAtATime /\ JobInv(j)
  BY DEF IInv
<1>1. CASE ReadLogs(j)
  <2>1. TypeOK'
    <3>1. streamer' \in
               [Jobs -> {"none", "GetLogs", "WriteStdout", "WriteStderr",
                  "ended"}]
      <4>1. \E v \in {"WriteStdout", "ended"} :
              streamer' = [streamer EXCEPT ![j] = v]
        BY <1>1 DEF ReadLogs
      <4> QED BY <1>0, <4>1 DEF TypeOK
    <3>2. snapshot' \in [Jobs -> [Streams -> 0 .. MaxOutput]]
      <4>1. \/ snapshot' = [snapshot EXCEPT ![j] = output[j]]
            \/ snapshot' = snapshot
        BY <1>1 DEF ReadLogs
      <4>2. /\ output[j] \in [Streams -> 0 .. MaxOutput]
            /\ snapshot \in [Jobs -> [Streams -> 0 .. MaxOutput]]
        BY <1>0 DEF TypeOK
      <4> QED BY <4>1, <4>2
    <3>3. failed' \in [Jobs -> SUBSET Calls]
      BY <1>0, <1>1, FailsType DEF ReadLogs, TypeOK, Calls
    <3>4. UNCHANGED <<slotVars, pc, ctxVars, localVars, result, bufVars,
                      daemonVars>>
      BY <1>1 DEF ReadLogs
    <3> QED BY <1>0, <3>1, <3>2, <3>3, <3>4 DEF slotVars, ctxVars, localVars,
       bufVars, daemonVars, TypeOK
  <2>2. JobInv(j)'
    BY <1>0, <1>1 DEF ReadLogs, Fails, slotVars, ctxVars, localVars, bufVars,
       streamVars, daemonVars, TypeOK, JobInv, Unwinding, Holding, Verdict,
       Report, Deferred
  <2>3. \A k \in Jobs \ {j} : Untouched(k)
    BY <1>0, <1>1 DEF ReadLogs, Fails, slotVars, ctxVars, localVars, bufVars,
       streamVars, daemonVars, TypeOK, Untouched
  <2>4. OneJobAtATime'
    BY <1>0, <1>1 DEF ReadLogs, Fails, slotVars, ctxVars, localVars, bufVars,
       streamVars, daemonVars, TypeOK, OneJobAtATime, Active, JobInv, Unwinding
  <2> QED BY <2>1, <2>2, <2>3, <2>4, Frame DEF IInv
<1>2. CASE WriteStdout(j)
  <2>1. TypeOK'
    <3>1. streamer' \in
               [Jobs -> {"none", "GetLogs", "WriteStdout", "WriteStderr",
                  "ended"}]
      BY <1>0, <1>2 DEF WriteStdout, slotVars, ctxVars, localVars, bufVars,
         streamVars, daemonVars, TypeOK
    <3>2. lines' \in [Jobs -> Seq(LogLines)]
      BY <1>0, <1>2, BufferType DEF WriteStdout, slotVars, ctxVars, localVars,
         bufVars, streamVars, daemonVars, TypeOK, Streams
    <3> QED BY <1>0, <1>2, <3>1, <3>2 DEF WriteStdout, slotVars, ctxVars,
       localVars, bufVars, streamVars, daemonVars, TypeOK
  <2>2. JobInv(j)'
    BY <1>0, <1>2 DEF WriteStdout, slotVars, ctxVars, localVars, bufVars,
       streamVars, daemonVars, TypeOK, JobInv, Unwinding, Holding, Verdict,
       Report, Deferred
  <2>3. \A k \in Jobs \ {j} : Untouched(k)
    BY <1>0, <1>2 DEF WriteStdout, slotVars, ctxVars, localVars, bufVars,
       streamVars, daemonVars, TypeOK, Untouched
  <2>4. OneJobAtATime'
    BY <1>0, <1>2 DEF WriteStdout, slotVars, ctxVars, localVars, bufVars,
       streamVars, daemonVars, TypeOK, OneJobAtATime, Active, JobInv, Unwinding
  <2> QED BY <2>1, <2>2, <2>3, <2>4, Frame DEF IInv
<1>3. CASE WriteStderr(j)
  <2>1. TypeOK'
    <3>1. streamer' \in
               [Jobs -> {"none", "GetLogs", "WriteStdout", "WriteStderr",
                  "ended"}]
      BY <1>0, <1>3 DEF WriteStderr, slotVars, ctxVars, localVars, bufVars,
         streamVars, daemonVars, TypeOK
    <3>2. lines' \in [Jobs -> Seq(LogLines)]
      BY <1>0, <1>3, BufferType DEF WriteStderr, slotVars, ctxVars, localVars,
         bufVars, streamVars, daemonVars, TypeOK, Streams
    <3> QED BY <1>0, <1>3, <3>1, <3>2 DEF WriteStderr, slotVars, ctxVars,
       localVars, bufVars, streamVars, daemonVars, TypeOK
  <2>2. JobInv(j)'
    BY <1>0, <1>3 DEF WriteStderr, slotVars, ctxVars, localVars, bufVars,
       streamVars, daemonVars, TypeOK, JobInv, Unwinding, Holding, Verdict,
       Report, Deferred
  <2>3. \A k \in Jobs \ {j} : Untouched(k)
    BY <1>0, <1>3 DEF WriteStderr, slotVars, ctxVars, localVars, bufVars,
       streamVars, daemonVars, TypeOK, Untouched
  <2>4. OneJobAtATime'
    BY <1>0, <1>3 DEF WriteStderr, slotVars, ctxVars, localVars, bufVars,
       streamVars, daemonVars, TypeOK, OneJobAtATime, Active, JobInv, Unwinding
  <2> QED BY <2>1, <2>2, <2>3, <2>4, Frame DEF IInv
<1> QED BY <1>1, <1>2, <1>3

(* The deadline and the exit of the container.                             *)
LEMMA WorldIInv ==
  ASSUME IInv, NEW j \in Jobs,
         Deadline(j) \/ Exit(j)
  PROVE  IInv'
<1>0. TypeOK /\ OneJobAtATime /\ JobInv(j)
  BY DEF IInv
<1>1. CASE Deadline(j)
  <2>1. TypeOK'
    BY <1>0, <1>1 DEF Deadline, slotVars, ctxVars, localVars, bufVars,
       streamVars, daemonVars, TypeOK, PCs
  <2>2. JobInv(j)'
    BY <1>0, <1>1 DEF Deadline, slotVars, ctxVars, localVars, bufVars,
       streamVars, daemonVars, TypeOK, JobInv, Unwinding, Holding, Verdict,
       Report, Deferred
  <2>3. \A k \in Jobs \ {j} : Untouched(k)
    BY <1>0, <1>1 DEF Deadline, slotVars, ctxVars, localVars, bufVars,
       streamVars, daemonVars, TypeOK, Untouched
  <2>4. OneJobAtATime'
    BY <1>0, <1>1 DEF Deadline, slotVars, ctxVars, localVars, bufVars,
       streamVars, daemonVars, TypeOK, OneJobAtATime, Active, JobInv, Unwinding
  <2> QED BY <2>1, <2>2, <2>3, <2>4, Frame DEF IInv
<1>2. CASE Exit(j)
  <2>1. TypeOK'
    BY <1>0, <1>2 DEF Exit, slotVars, ctxVars, localVars, bufVars, streamVars,
       daemonVars, TypeOK, PCs
  <2>2. JobInv(j)'
    BY <1>0, <1>2 DEF Exit, slotVars, ctxVars, localVars, bufVars, streamVars,
       daemonVars, TypeOK, JobInv, Unwinding, Holding, Verdict, Report, Deferred
  <2>3. \A k \in Jobs \ {j} : Untouched(k)
    BY <1>0, <1>2 DEF Exit, slotVars, ctxVars, localVars, bufVars, streamVars,
       daemonVars, TypeOK, Untouched
  <2>4. OneJobAtATime'
    BY <1>0, <1>2 DEF Exit, slotVars, ctxVars, localVars, bufVars, streamVars,
       daemonVars, TypeOK, OneJobAtATime, Active, JobInv, Unwinding
  <2> QED BY <2>1, <2>2, <2>3, <2>4, Frame DEF IInv
<1> QED BY <1>1, <1>2

(* A container writes only while it runs, so never behind a verdict of     *)
(* exited.                                                                 *)
LEMMA EmitIInv ==
  ASSUME IInv, NEW j \in Jobs, NEW s \in Streams, Emit(j, s) PROVE IInv'
<1>0. TypeOK /\ OneJobAtATime /\ JobInv(j)
  BY DEF IInv
<1> USE DEF Emit, slotVars, ctxVars, localVars, bufVars, streamVars
<1>1. output' \in [Jobs -> [Streams -> 0 .. MaxOutput]]
  <2>1. /\ output[j] \in [Streams -> 0 .. MaxOutput]
        /\ output[j][s] + 1 \in 0 .. MaxOutput
    BY <1>0, ExecutorConstants DEF TypeOK
  <2>2. [output[j] EXCEPT ![s] = output[j][s] + 1] \in [Streams -> 0 .. MaxOutput]
    BY <2>1
  <2> QED BY <1>0, <2>2 DEF TypeOK
<1>2. TypeOK'
  BY <1>0, <1>1 DEF TypeOK
<1>3. JobInv(j)'
  <2>1. Unwinding(j)' /\ Holding(j)' /\ Verdict(j)'
    BY <1>0 DEF JobInv, Unwinding, Holding, Verdict
  <2>2. verdict[j] # "exited"
    BY <1>0 DEF JobInv, Verdict
  <2>3. Report(j)'
    BY <1>0, <2>2 DEF JobInv, Report
  <2> QED BY <2>1, <2>3 DEF JobInv
<1>4. \A k \in Jobs \ {j} : Untouched(k)
  BY <1>0 DEF TypeOK, Untouched
<1>5. OneJobAtATime'
  BY <1>0 DEF OneJobAtATime, Active
<1> QED BY <1>2, <1>3, <1>4, <1>5, Frame DEF IInv

-----------------------------------------------------------------------------
(* IInv is an invariant of every behaviour.                                *)
LEMMA Invariance == Spec => []IInv
<1>1. IInv /\ [Next]_vars => IInv'
  <2> SUFFICES ASSUME IInv, [Next]_vars PROVE IInv'
    OBVIOUS
  <2>1. ASSUME NEW j \in Jobs, BoundedStep(j) PROVE IInv'
    BY <2>1, PrepareIInv, WaitIInv, TimeoutIInv, CollectIInv, RemoveIInv,
       UnwindIInv DEF BoundedStep
  <2>2. CASE Next
    BY <2>1, <2>2, SubmitIInv, PrepareIInv, WaitIInv, StreamerIInv, WorldIInv,
       EmitIInv DEF Next
  <2>3. CASE UNCHANGED vars
    <3>1. TypeOK' /\ OneJobAtATime'
      BY <2>3 DEF vars, IInv, TypeOK, OneJobAtATime, Active
    <3>2. \A k \in Jobs : Untouched(k)
      BY <2>3 DEF vars, Untouched
    <3> QED BY <3>1, <3>2, Frame DEF IInv
  <2> QED BY <2>2, <2>3
<1> QED BY <1>1, InitIInv, PTL DEF Spec

(* Every state of the executor and the daemon keeps its type.              *)
THEOREM TypeCorrect == Spec => []TypeOK
BY Invariance, PTL DEF IInv

(* Submit lets no two executeJob goroutines overlap.                       *)
THEOREM Exclusive == Spec => []OneJobAtATime
BY Invariance, PTL DEF IInv

(* Closing Done is the last thing executeJob does: by then there is a      *)
(* result, the log is closed and the contexts are cancelled.               *)
THEOREM DoneLast == Spec => []DoneIsFinal
<1>1. IInv => DoneIsFinal
  BY DEF IInv, JobInv, Unwinding, DoneIsFinal, GetResult, Deferred
<1> QED BY <1>1, Invariance, PTL

(* The reported status is backed by what the container did.                *)
THEOREM Truthful == Spec => []ResultTruthful
<1>1. IInv => ResultTruthful
  BY DEF IInv, JobInv, Verdict, Report, ResultTruthful
<1> QED BY <1>1, Invariance, PTL

(* A job reported as ended has no running container, unless stopping and   *)
(* killing it both failed.                                                 *)
THEOREM StoppedWhenReported == Spec => []ReportedIsStopped
<1>1. IInv => ReportedIsStopped
  <2> SUFFICES ASSUME IInv, NEW j \in Jobs,
                      result[j].status \in {"success", "failed", "timeout"},
                      container[j] = "running"
               PROVE  {"StopContainer", "KillContainer"} \subseteq failed[j]
    BY DEF ReportedIsStopped
  <2>1. JobInv(j) /\ pc[j] \in Deferred
    BY DEF IInv, JobInv, Unwinding
  <2>2. verdict[j] = "timedOut"
    BY <2>1 DEF JobInv, Verdict, Report
  <2> QED BY <2>1, <2>2 DEF JobInv, Verdict, Deferred
<1> QED BY <1>1, Invariance, PTL

(* A container outlives its job only behind a failed creation or removal.  *)
THEOREM LeaksNeedFailures == Spec => []LeakNeedsFailure
<1>1. IInv => LeakNeedsFailure
  BY DEF IInv, JobInv, Unwinding, Holding, LeakNeedsFailure, Deferred
<1> QED BY <1>1, Invariance, PTL

(* Two containers run at once only after a failed removal.                 *)
THEOREM OneRunning == Spec => []OneContainerRunning
<1>1. IInv => OneContainerRunning
  <2> SUFFICES ASSUME IInv, NEW j \in Jobs, NEW k \in Jobs, j # k,
                      container[j] = "running", container[k] = "running"
               PROVE  \E i \in {j, k} : "RemoveContainer" \in failed[i]
    BY DEF OneContainerRunning
  <2>1. ASSUME NEW i \in Jobs, container[i] = "running"
        PROVE  current = i \/ "RemoveContainer" \in failed[i]
    BY <2>1 DEF IInv, JobInv, Holding, OneJobAtATime, Active, Deferred
  <2> QED BY <2>1
<1> QED BY <1>1, Invariance, PTL

(* truncateTail keeps no more than the limit, and keeps the end; it keeps  *)
(* everything exactly if there is no more than the limit.                  *)
LEMMA TruncateKeepsTail ==
  ASSUME NEW n \in Nat
  PROVE  /\ Cardinality(truncateTail(n)) <= MaxOutputBytes
         /\ MaxOutputBytes > 0 /\ n > 0 => n \in truncateTail(n)
         /\ n > MaxOutputBytes <=> truncateTail(n) # 1 .. n
<1>1. CASE n <= MaxOutputBytes
  <2>1. Cardinality(1 .. n) <= MaxOutputBytes
    <3>1. 1 \in Int /\ n \in Int
      OBVIOUS
    <3>2. Cardinality(1 .. n) = IF 1 > n THEN 0 ELSE n - 1 + 1
      BY <3>1, FS_Interval, Zenon
    <3> QED BY <1>1, <3>2, ExecutorConstants
  <2> QED BY <1>1, <2>1, ExecutorConstants DEF truncateTail
<1>2. CASE n > MaxOutputBytes
  <2>1. Cardinality((n - MaxOutputBytes + 1) .. n) <= MaxOutputBytes
    <3> DEFINE lo == n - MaxOutputBytes + 1
    <3>1. lo \in Int /\ n \in Int
      BY ExecutorConstants
    <3>2. n - lo + 1 = MaxOutputBytes /\ 0 <= MaxOutputBytes
      BY ExecutorConstants
    <3> HIDE DEF lo
    <3>3. Cardinality(lo .. n) = IF lo > n THEN 0 ELSE n - lo + 1
      BY <3>1, FS_Interval, Zenon
    <3>4. Cardinality(lo .. n) <= MaxOutputBytes
      BY <3>2, <3>3, ExecutorConstants
    <3> QED BY <3>4 DEF lo
  <2>2. truncateTail(n) # 1 .. n
    <3>1. 1 \in 1 .. n /\ 1 \notin (n - MaxOutputBytes + 1) .. n
      BY <1>2, ExecutorConstants
    <3> QED BY <1>2, <3>1, ExecutorConstants DEF truncateTail
  <2> QED BY <1>2, <2>1, <2>2, ExecutorConstants DEF truncateTail
<1> QED BY <1>1, <1>2, ExecutorConstants

(* The captured output ends where the container's output ended and is      *)
(* whole if and only if it is not marked as truncated.                     *)
THEOREM OutputsHonest == Spec => []OutputHonest
<1>1. IInv => OutputHonest
  <2> SUFFICES ASSUME IInv, NEW j \in Jobs, NEW s \in Streams,
                      result[j].status \in {"success", "failed"},
                      "GetLogs" \notin failed[j]
               PROVE  /\ Cardinality(result[j].out[s]) <= MaxOutputBytes
                      /\ MaxOutputBytes > 0 /\ output[j][s] > 0 =>
                           output[j][s] \in result[j].out[s]
                      /\ result[j].truncated[s] <=>
                           result[j].out[s] # 1 .. output[j][s]
    BY DEF OutputHonest
  <2>1. /\ result[j].out[s] = truncateTail(output[j][s])
        /\ result[j].truncated[s] = (output[j][s] > MaxOutputBytes)
    BY DEF IInv, JobInv, Report
  <2>2. output[j][s] \in Nat
    BY ExecutorConstants DEF IInv, TypeOK
  <2> QED BY <2>1, <2>2, TruncateKeepsTail
<1> QED BY <1>1, Invariance, PTL

-----------------------------------------------------------------------------
(* The refinement of JobSlot.                                              *)

Phase == [j \in Jobs |-> IF done[j] THEN "finished"
                         ELSE IF closed[j] THEN "closed"
                         ELSE IF pc[j] = "none" THEN "new" ELSE "running"]

Answer == [j \in Jobs |-> IF done[j] THEN result[j] ELSE NoResult]

(* What the slot does not see: no job starts or ends, no log changes, and  *)
(* no visible result does.                                                 *)
LEMMA Invisible ==
  ASSUME UNCHANGED <<current, done, closed, lines>>,
         \A k \in Jobs : pc'[k] = "none" <=> pc[k] = "none",
         \A k \in Jobs : done[k] => result'[k] = result[k]
  PROVE  UNCHANGED Slot!slotVars
<1>1. Phase' = Phase
  BY DEF Phase
<1>2. Answer' = Answer
  BY DEF Answer
<1> QED BY <1>1, <1>2 DEF Slot!slotVars, Phase, Answer

(* Before CloseLogs, executeJob is invisible to the slot.                  *)
LEMMA WorkInvisible ==
  ASSUME IInv, NEW j \in Jobs,
         \/ ImageExists(j) \/ PullImage(j) \/ CreateContainer(j)
         \/ StartContainer(j) \/ WaitExited(j) \/ WaitExpired(j) \/ WaitFault(j)
         \/ StopContainer(j) \/ KillContainer(j) \/ GetLogs(j)
         \/ RemoveContainer(j) \/ Cancel(j)
  PROVE  UNCHANGED Slot!slotVars
<1>0. TypeOK /\ JobInv(j)
  BY DEF IInv
<1> USE DEF slotVars, bufVars, Goto, Abort, Waited
<1>1. UNCHANGED <<current, done, closed, lines>>
  BY DEF ImageExists, PullImage, CreateContainer, StartContainer, WaitExited,
         WaitExpired, WaitFault, StopContainer, KillContainer, GetLogs,
         RemoveContainer, Cancel
<1>2. pc[j] \notin {"none", "ended"}
  BY DEF ImageExists, PullImage, CreateContainer, StartContainer, WaitExited,
         WaitExpired, WaitFault, StopContainer, KillContainer, GetLogs,
         RemoveContainer, Cancel
<1>3. \E label \in PCs \ {"none"} : pc' = [pc EXCEPT ![j] = label]
  BY DEF ImageExists, PullImage, CreateContainer, StartContainer, WaitExited,
         WaitExpired, WaitFault, StopContainer, KillContainer, GetLogs,
         RemoveContainer, Cancel, PCs, Calls
<1>4. \A k \in Jobs : pc'[k] = "none" <=> pc[k] = "none"
  BY <1>0, <1>2, <1>3 DEF TypeOK
<1>5. \A k \in Jobs \ {j} : result'[k] = result[k]
  BY <1>0 DEF TypeOK, ImageExists, PullImage, CreateContainer, StartContainer,
         WaitExited, WaitExpired, WaitFault, StopContainer, KillContainer,
         GetLogs, RemoveContainer, Cancel
<1>6. ~done[j]
  BY <1>0, <1>2 DEF JobInv, Unwinding
<1> QED BY <1>1, <1>4, <1>5, <1>6, Invisible

(* A line reaches the log of a job only while the slot sees it running.    *)
LEMMA BufferRecords ==
  ASSUME IInv, NEW j \in Jobs, NEW s \in Streams, Buffer(j, s),
         streamer[j] # "none",
         UNCHANGED <<current, pc, done, closed, result>>
  PROVE  Slot!Record(j) \/ UNCHANGED Slot!slotVars
<1>0. TypeOK /\ JobInv(j)
  BY DEF IInv
<1>1. CASE UNCHANGED lines
  BY <1>1, Invisible
<1>2. CASE /\ snapshot[j][s] > 0 /\ ~closed[j]
           /\ lines' = [lines EXCEPT ![j] =
                          Append(@, [stream |-> s, upto |-> snapshot[j][s]])]
  <2>1. [stream |-> s, upto |-> snapshot[j][s]] \in LogLines
    BY <1>0, <1>2, ExecutorConstants DEF TypeOK, LogLines
  <2>2. Phase[j] = "running"
    BY <1>0, <1>2 DEF JobInv, Unwinding, Phase
  <2> QED BY <1>2, <2>1, <2>2 DEF Slot!Record, Phase, Answer
<1> QED BY <1>1, <1>2 DEF Buffer

(* The executor implements the job slot: Submit is Accept, CloseLogs       *)
(* closes the log, CloseDone publishes the answer, and a write to the log  *)
(* buffer is a record.                                                     *)
THEOREM ExecutorImplementsSlot == Spec => ImplementsSlot
<1>1. Init => Slot!Init
  BY DEF Init, Slot!Init
<1>2. IInv /\ [Next]_vars => [Slot!Next]_(Slot!slotVars)
  <2> SUFFICES ASSUME IInv, [Next]_vars
               PROVE  Slot!Next \/ UNCHANGED Slot!slotVars
    OBVIOUS
  <2>0. TypeOK /\ OneJobAtATime /\ \A j \in Jobs : JobInv(j)
    BY DEF IInv
  <2>1. ASSUME NEW j \in Jobs, Submit(j) PROVE Slot!Accept(j)
    <3>1. Phase[j] = "new" /\ ~done[j] /\ ~closed[j]
      BY <2>0, <2>1 DEF Submit, JobInv, Unwinding, Phase
    <3>2. Phase' = [Phase EXCEPT ![j] = "running"]
      BY <2>0, <2>1, <3>1 DEF Submit, Goto, bufVars, Phase, TypeOK
    <3>3. current # NoJob => Phase[current] = "finished"
      BY <2>0, <2>1 DEF Submit, IsReady, Phase, TypeOK
    <3>4. current' = j /\ UNCHANGED <<done, result, lines>>
      BY <2>1 DEF Submit, bufVars
    <3> QED BY <3>1, <3>2, <3>3, <3>4 DEF Slot!Accept, Slot!Free, Phase, Answer
  <2>2. ASSUME NEW j \in Jobs, CloseLogs(j) PROVE Slot!CloseLog(j)
    <3>1. Phase[j] = "running"
      BY <2>0, <2>2 DEF CloseLogs, JobInv, Unwinding, Phase
    <3>2. Phase' = [Phase EXCEPT ![j] = "closed"]
      BY <2>0, <2>2 DEF CloseLogs, Goto, slotVars, JobInv, Unwinding, Phase, TypeOK
    <3>3. UNCHANGED <<current, done, result, lines>>
      BY <2>2 DEF CloseLogs, slotVars
    <3> QED BY <3>1, <3>2, <3>3 DEF Slot!CloseLog, Phase, Answer
  <2>3. ASSUME NEW j \in Jobs, CloseDone(j) PROVE Slot!Finish(j)
    <3>1. Phase[j] = "closed" /\ ~done[j]
      BY <2>0, <2>3 DEF CloseDone, JobInv, Unwinding, Phase
    <3>2. Phase' = [Phase EXCEPT ![j] = "finished"]
      BY <2>0, <2>3 DEF CloseDone, Goto, bufVars, Phase, TypeOK
    <3>3. /\ Answer'[j] = result[j]
          /\ Answer' = [Answer EXCEPT ![j] = Answer'[j]]
      BY <2>0, <2>3 DEF CloseDone, Answer, TypeOK
    <3>4. result[j] \in Results \ {NoResult}
      BY <2>0, <2>3 DEF CloseDone, JobInv, Unwinding, Deferred, NoResult, TypeOK
    <3>5. UNCHANGED <<current, lines>>
      BY <2>3 DEF CloseDone, bufVars
    <3> QED BY <3>1, <3>2, <3>3, <3>4, <3>5 DEF Slot!Finish, Phase, Answer
  <2>4. ASSUME NEW j \in Jobs, WriteStdout(j) \/ WriteStderr(j)
        PROVE  Slot!Record(j) \/ UNCHANGED Slot!slotVars
    BY <2>4, BufferRecords DEF WriteStdout, WriteStderr, slotVars, Streams
  <2>5. ASSUME NEW j \in Jobs, NEW s \in Streams,
               ReadLogs(j) \/ Deadline(j) \/ Exit(j) \/ Emit(j, s)
        PROVE  UNCHANGED Slot!slotVars
    <3>1. UNCHANGED <<current, done, closed, lines, pc, result>>
      BY <2>5 DEF ReadLogs, Deadline, Exit, Emit, slotVars, bufVars
    <3> QED BY <3>1, Invisible
  <2>6. CASE UNCHANGED vars
    BY <2>6, Invisible DEF vars
  <2>7. CASE Next
    <3>1. PICK j \in Jobs :
            \/ Submit(j) \/ ImageExists(j) \/ BoundedStep(j) \/ WaitFault(j)
            \/ ReadLogs(j) \/ WriteStdout(j) \/ WriteStderr(j)
            \/ Deadline(j) \/ Exit(j)
            \/ \E s \in Streams : Emit(j, s)
      BY <2>7 DEF Next
    <3>2. "stdout" \in Streams
      BY DEF Streams
    <3> QED BY <2>1, <2>2, <2>3, <2>4, <2>5, <3>1, <3>2, WorkInvisible
            DEF BoundedStep, Slot!Next
  <2> QED BY <2>6, <2>7
<1> QED BY <1>1, <1>2, Invariance, PTL DEF Spec, ImplementsSlot, Slot!Spec

=============================================================================
