--------------------------------- MODULE Api --------------------------------
(***************************************************************************)
(* pkg/api/handlers.go and pkg/health/checker.go over the executor: each   *)
(* HTTP request is a goroutine that calls the executor's methods one after *)
(* the other, each under its own lock, while jobs end and new ones are     *)
(* accepted in between.  The executor is the job slot of JobSlot, which    *)
(* Executor implements; the lines a log stream carries are left to         *)
(* LogBuffer, so a stream is over once the log of its job is closed.       *)
(***************************************************************************)
EXTENDS Naturals

CONSTANTS
  Jobs,      \* job IDs
  NoJob,     \* no ID: e.current == nil, or a reply that names no job
  Requests,  \* the HTTP requests a worker receives
  Statuses   \* the statuses of execution results

(* The bodies that are not the status of a result. *)
Words == {"none", "unknown", "invalid", "busy", "accepted", "ready", "healthy",
          "unhealthy"}

ASSUME ApiConstants ==
  /\ NoJob \notin Jobs
  /\ Statuses \cap Words = {}

VARIABLES
  slot, phase, answer,   \* the executor, see JobSlot
  at,                    \* per request: what its handler does next
  job,                   \* per request: the job it is about
  reply                  \* per request: the response, or NoReply

vars == <<slot, phase, answer, at, job, reply>>
execVars == <<slot, phase, answer>>

Exec == INSTANCE JobSlot WITH
  Answers <- Statuses,
  NoAnswer <- "none",
  Entries <- {},
  log <- [j \in Jobs |-> <<>>]

NoReply == [code |-> 0, body |-> "none"]

Init ==
  /\ Exec!Init
  /\ at = [r \in Requests |-> "new"]
  /\ job = [r \in Requests |-> NoJob]
  /\ reply = [r \in Requests |-> NoReply]

Goto(r, label) == at' = [at EXCEPT ![r] = label]

(* The handler writes its response and returns. *)
Respond(r, code, body) ==
  /\ reply' = [reply EXCEPT ![r] = [code |-> code, body |-> body]]
  /\ Goto(r, "done")

-----------------------------------------------------------------------------
(* What the handlers ask of the executor, each under one lock.             *)

IsReady == Exec!Free

(* Mutant: the ID that is asked for is not compared with the current one. *)
GetResultOfAny(id) ==
  IF slot # NoJob /\ Exec!Free THEN answer[slot] ELSE "none"

(* The status of job id, or "none" if it is not the current job or not done. *)
GetResult(id) ==
  IF slot = id /\ phase[id] = "finished" THEN answer[id] ELSE "none"

-----------------------------------------------------------------------------
(* POST /jobs                                                              *)

(* Decoding and validation need no state; a registry that is not in the    *)
(* whitelist is answered with 403, everything else that is wrong with 400. *)
Validate(r) ==
  /\ at[r] = "new"
  /\ \/ Goto(r, "isReady") /\ UNCHANGED reply
     \/ \E code \in {400, 403} : Respond(r, code, "invalid")
  /\ UNCHANGED <<execVars, job>>

CheckReady(r) ==
  /\ at[r] = "isReady"
  /\ \/ IsReady /\ Goto(r, "submit") /\ UNCHANGED reply
     \/ ~IsReady /\ Respond(r, 409, "busy")
  /\ UNCHANGED <<execVars, job>>

(* Mutant: Submit trusts the IsReady of its caller. *)
SubmitUnchecked(r) ==
  /\ at[r] = "submit"
  /\ \E j \in Jobs :
       /\ phase[j] = "new"
       /\ slot' = j
       /\ phase' = [phase EXCEPT ![j] = "running"]
       /\ job' = [job EXCEPT ![r] = j]
       /\ Respond(r, 202, "accepted")
       /\ UNCHANGED answer

(* The executor looks again: another request may have been accepted since. *)
Submit(r) ==
  /\ at[r] = "submit"
  /\ \/ \E j \in Jobs :
          /\ Exec!Accept(j)
          /\ job' = [job EXCEPT ![r] = j]
          /\ Respond(r, 202, "accepted")
     \/ /\ ~IsReady
        /\ Respond(r, 409, "busy")
        /\ UNCHANGED <<execVars, job>>

-----------------------------------------------------------------------------
(* GET /jobs/{id}                                                          *)

handleGetResult(r, id) ==
  /\ at[r] = "new"
  /\ job' = [job EXCEPT ![r] = id]
  /\ IF GetResult(id) = "none" THEN Respond(r, 404, "none")
                               ELSE Respond(r, 200, GetResult(id))
  /\ UNCHANGED execVars

-----------------------------------------------------------------------------
(* GET /jobs/{id}/logs                                                     *)

OpenStream(r, id) ==
  /\ at[r] = "new"
  /\ job' = [job EXCEPT ![r] = id]
  /\ IF slot = id THEN Goto(r, "stream") /\ UNCHANGED reply
                  ELSE Respond(r, 404, "none")
  /\ UNCHANGED execVars

(* Mutant: only a close that happens while the stream waits is noticed. *)
StreamClosedLive(r) ==
  /\ at[r] = "stream"
  /\ phase[job[r]] = "closed"
  /\ Goto(r, "end")
  /\ UNCHANGED <<execVars, job, reply>>

(* The channel of the subscription is closed once the log is. *)
StreamClosed(r) ==
  /\ at[r] = "stream"
  /\ phase[job[r]] \in {"closed", "finished"}
  /\ Goto(r, "end")
  /\ UNCHANGED <<execVars, job, reply>>

(* The client goes: nobody sees what the handler still writes. *)
ClientGone(r) ==
  /\ at[r] = "stream"
  /\ Goto(r, "done")
  /\ UNCHANGED <<execVars, job, reply>>

(* buildEndEvent asks for the result once more. *)
EndEvent(r) ==
  /\ at[r] = "end"
  /\ LET status == GetResult(job[r]) IN
       Respond(r, 200, IF status = "none" THEN "unknown" ELSE status)
  /\ UNCHANGED <<execVars, job>>

-----------------------------------------------------------------------------
(* GET /ready: IsReady, then CurrentJobID under another lock.              *)

handleReady(r) ==
  /\ at[r] = "new"
  /\ \/ IsReady /\ Respond(r, 200, "ready")
     \/ ~IsReady /\ Goto(r, "currentJobID") /\ UNCHANGED reply
  /\ UNCHANGED <<execVars, job>>

(* Mutant: a busy worker is reported as unavailable. *)
ReadyUnavailable(r) ==
  /\ at[r] = "currentJobID"
  /\ job' = [job EXCEPT ![r] = slot]
  /\ Respond(r, 503, "busy")
  /\ UNCHANGED execVars

ReadyBusy(r) ==
  /\ at[r] = "currentJobID"
  /\ job' = [job EXCEPT ![r] = slot]
  /\ Respond(r, 200, "busy")
  /\ UNCHANGED execVars

-----------------------------------------------------------------------------
(* GET /health: a ping of the daemon, for at most the time of the Checker; *)
(* the response is a 200 also if the daemon does not answer.               *)

handleHealth(r) ==
  /\ at[r] = "new"
  /\ Goto(r, "ping")
  /\ UNCHANGED <<execVars, job, reply>>

PingEnds(r) ==
  /\ at[r] = "ping"
  /\ \E status \in {"healthy", "unhealthy"} : Respond(r, 200, status)
  /\ UNCHANGED <<execVars, job>>

-----------------------------------------------------------------------------
(* The end of a job, in the executor.                                      *)

CloseLog(j) == Exec!CloseLog(j) /\ UNCHANGED <<at, job, reply>>

(* Mutant: the slot is emptied when its job is done. *)
FinishAndForget(j) ==
  /\ phase[j] = "closed"
  /\ phase' = [phase EXCEPT ![j] = "finished"]
  /\ \E a \in Statuses : answer' = [answer EXCEPT ![j] = a]
  /\ slot' = NoJob
  /\ UNCHANGED <<at, job, reply>>

Finish(j) ==
  /\ \E a \in Statuses : answer' = [answer EXCEPT ![j] = a] /\ Exec!Finish(j)
  /\ UNCHANGED <<at, job, reply>>

-----------------------------------------------------------------------------
Handler(r) ==
  CheckReady(r) \/ Submit(r) \/ StreamClosed(r) \/ EndEvent(r) \/ ReadyBusy(r)
    \/ PingEnds(r)

Arrive(r) ==
  \/ Validate(r) \/ handleReady(r) \/ handleHealth(r)
  \/ \E id \in Jobs : handleGetResult(r, id) \/ OpenStream(r, id)

Next ==
  \/ \E r \in Requests : Arrive(r) \/ Handler(r) \/ ClientGone(r)
  \/ \E j \in Jobs : CloseLog(j) \/ Finish(j)

Spec == Init /\ [][Next]_vars

(* Handlers are scheduled, and the executor ends its jobs (JobEnds). *)
Fairness ==
  /\ \A r \in Requests : WF_vars(Handler(r))
  /\ \A j \in Jobs : WF_vars(CloseLog(j) \/ Finish(j))

FairSpec == Spec /\ Fairness

-----------------------------------------------------------------------------
(* Properties.                                                             *)

Labels == {"new", "isReady", "submit", "stream", "end", "currentJobID", "ping",
           "done"}
Codes == {0, 200, 202, 400, 403, 404, 409}

(* Type invariant of the handlers and the slot.                            *)
TypeOK ==
  /\ slot \in Jobs \cup {NoJob}
  /\ phase \in [Jobs -> {"new", "running", "closed", "finished"}]
  /\ answer \in [Jobs -> Statuses \cup {"none"}]
  /\ at \in [Requests -> Labels]
  /\ job \in [Requests -> Jobs \cup {NoJob}]
  /\ reply \in [Requests -> [code : Codes, body : Statuses \cup Words]]

Unfinished(j) == phase[j] \in {"running", "closed"}

(* However POST handlers interleave between IsReady and Submit, one job at *)
(* most is unfinished, it is the one in the slot, and every 202 names a    *)
(* job of its own that was really accepted.                                *)
AcceptedJobsAreExclusive ==
  /\ \A j \in Jobs : Unfinished(j) => slot = j
  /\ \A q, r \in Requests :
       reply[q].code = 202 =>
         /\ job[q] \in Jobs /\ phase[job[q]] # "new"
         /\ reply[r].code = 202 /\ job[q] = job[r] => q = r

(* A status in the body of a result or of an end event is the answer of    *)
(* the job the client asked for, also when the slot has gone to another.   *)
AnswersBelongToTheJob ==
  \A r \in Requests :
    reply[r].body \in Statuses => reply[r].body = answer[job[r]]

(* A /ready reply of "busy" names a job that was accepted, although        *)
(* IsReady and CurrentJobID are two critical sections and the job may end, *)
(* and another take its place, between them.                               *)
BusyNamesAJob ==
  \A r \in Requests :
    reply[r].body = "busy" /\ reply[r].code = 200 =>
      job[r] \in Jobs /\ phase[job[r]] # "new"

(* Every request is answered; a log stream in particular ends.             *)
EveryRequestEnds ==
  \A r \in Requests : at[r] # "new" ~> at[r] = "done"

(* The end-of-stream message "indicates the final job completion status"   *)
(* (requirements.md:119).                                                  *)
EndEventKnown == \A r \in Requests : reply[r].body # "unknown"

=============================================================================
