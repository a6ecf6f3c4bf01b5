------------------------------- MODULE Worker -------------------------------
(***************************************************************************)
(* cmd/worker/main.go and the Start and Shutdown of pkg/api/server.go: the *)
(* life of a worker process among its requests, its job and the daemon,    *)
(* which outlives it.  A process that ends is started again by             *)
(* docker-compose (restart: unless-stopped).                               *)
(*                                                                         *)
(* Of a request only its kind matters here: a submission, a log stream,    *)
(* which lasts as long as its job, or one that is answered at once.  Of a  *)
(* job only what happens to its container matters: the call that creates   *)
(* it, the deferred one that removes it, and the close of Done after it.   *)
(* Both calls may fail, with the container there or not.  Executor has the *)
(* rest of a job.                                                          *)
(***************************************************************************)
EXTENDS Naturals

CONSTANTS
  Jobs,      \* job IDs
  NoJob,     \* e.current == nil
  Requests,  \* the HTTP requests the worker receives
  MaxBoots   \* bound on the number of times the process is started

ASSUME WorkerConstants == NoJob \notin Jobs /\ MaxBoots \in Nat

VARIABLES
  proc,      \* "down", or where main is
  exit,      \* how the last process ended
  boots,     \* how often it was started
  signalled, \* ctx of NotifyContext is done
  broken,    \* errCh holds the error of Serve
  conn,      \* per request: its kind while it is in flight; then "over"
  about,     \* per request: the job of a log stream
  slot,      \* e.current
  stage,     \* per job: where executeJob is, or "lost" with its process
  owner,     \* per job: the number of the process that accepted it, or 0
  fault,     \* per job: its CreateContainer or RemoveContainer failed
  container  \* per job: its container, in the daemon

vars == <<proc, exit, boots, signalled, broken, conn, about,
          slot, stage, owner, fault, container>>
procVars == <<proc, exit, boots, signalled, broken>>
connVars == <<conn, about>>
jobVars == <<slot, stage, owner, fault, container>>

Kinds == {"post", "stream", "short"}
InFlight(r) == conn[r] \in Kinds

(* "created": the removal is deferred; "ending": what is left is Done. *)
Underway(j) == stage[j] \in {"accepted", "created", "ending"}

Init ==
  /\ proc = "down" /\ exit = "none" /\ boots = 0
  /\ signalled = FALSE /\ broken = FALSE
  /\ conn = [r \in Requests |-> "none"]
  /\ about = [r \in Requests |-> NoJob]
  /\ slot = NoJob
  /\ stage = [j \in Jobs |-> "new"]
  /\ owner = [j \in Jobs |-> 0]
  /\ fault = [j \in Jobs |-> FALSE]
  /\ container = [j \in Jobs |-> "absent"]

-----------------------------------------------------------------------------
(* The process.                                                            *)

(* Nothing of an earlier process is remembered. *)
Boot ==
  /\ proc = "down" /\ boots < MaxBoots
  /\ proc' = "loading" /\ boots' = boots + 1
  /\ signalled' = FALSE /\ broken' = FALSE
  /\ slot' = NoJob
  /\ UNCHANGED <<exit, connVars, stage, owner, fault, container>>

(* The process ends: its connections break and its goroutines are gone.    *)
(* The daemon is not told.                                                 *)
Exits(how) ==
  /\ proc' = "down" /\ exit' = how
  /\ conn' = [r \in Requests |-> IF InFlight(r) THEN "over" ELSE conn[r]]
  /\ stage' = [j \in Jobs |-> IF Underway(j) THEN "lost" ELSE stage[j]]
  /\ UNCHANGED <<boots, signalled, broken, about, slot, owner, fault, container>>

(* SIGKILL, the out-of-memory killer, or a signal before NotifyContext. *)
Killed ==
  /\ proc # "down"
  /\ Exits("killed")

(* Load, runtime.New or Ping fails. *)
LoadFails ==
  /\ proc = "loading"
  /\ Exits("error")

Loaded ==
  /\ proc = "loading"
  /\ proc' = "starting"
  /\ UNCHANGED <<exit, boots, signalled, broken, connVars, jobVars>>

Listen ==
  /\ proc = "starting"
  /\ \/ /\ proc' = "serving"
        /\ UNCHANGED <<exit, boots, signalled, broken, connVars, jobVars>>
     \/ Exits("error")

(* SIGTERM or SIGINT once NotifyContext is in place; later ones are        *)
(* swallowed, because stop is only called when main returns.               *)
Signal ==
  /\ proc \in {"starting", "serving", "draining"}
  /\ ~signalled
  /\ signalled' = TRUE
  /\ UNCHANGED <<proc, exit, boots, broken, connVars, jobVars>>

(* Serve ends with an error. *)
ServeFails ==
  /\ proc = "serving"
  /\ ~broken
  /\ broken' = TRUE
  /\ UNCHANGED <<proc, exit, boots, signalled, connVars, jobVars>>

(* The select of Start; with both arms ready it takes either. *)
ReturnError ==
  /\ proc = "serving"
  /\ broken
  /\ Exits("error")

(* Shutdown closes the listener and waits for the requests in flight. *)
BeginShutdown ==
  /\ proc = "serving"
  /\ signalled
  /\ proc' = "draining"
  /\ UNCHANGED <<exit, boots, signalled, broken, connVars, jobVars>>

Drained ==
  /\ proc = "draining"
  /\ \A r \in Requests : ~InFlight(r)
  /\ Exits("ok")

(* Mutant: Shutdown without the 30 s of shutdownCtx. *)
DrainWaits ==
  /\ proc = "draining"
  /\ \A r \in Requests : ~InFlight(r)
  /\ Exits("error")

(* Mutant: a status of its own for the timeout. *)
DrainTimesOutApart ==
  /\ proc = "draining"
  /\ \E r \in Requests : InFlight(r)
  /\ Exits("timeout")

(* 30 s have passed: Shutdown gives up and main exits with status 1. *)
DrainTimesOut ==
  /\ proc = "draining"
  /\ \E r \in Requests : InFlight(r)
  /\ Exits("error")

-----------------------------------------------------------------------------
(* The requests.                                                           *)

Up == proc \in {"serving", "draining"}

Arrive(r, kind) ==
  /\ proc = "serving" /\ ~broken
  /\ conn[r] = "none"
  /\ kind = "stream" => slot # NoJob
  /\ conn' = [conn EXCEPT ![r] = kind]
  /\ about' = [about EXCEPT ![r] = IF kind = "stream" THEN slot ELSE NoJob]
  /\ UNCHANGED <<procVars, jobVars>>

(* Submit: the slot, a new ID and the goroutine of executeJob. *)
Accept(j) ==
  /\ stage[j] = "new"
  /\ stage' = [stage EXCEPT ![j] = "accepted"]
  /\ owner' = [owner EXCEPT ![j] = boots]
  /\ slot' = j

(* Mutant: the job in the slot is not asked whether it is done. *)
PostUnchecked(r) ==
  /\ Up
  /\ conn[r] = "post"
  /\ \E j \in Jobs : Accept(j)
  /\ conn' = [conn EXCEPT ![r] = "over"]
  /\ UNCHANGED <<procVars, about, fault, container>>

(* A submission is decided, also while the server drains. *)
Post(r) ==
  /\ Up
  /\ conn[r] = "post"
  /\ \/ /\ slot # NoJob => stage[slot] = "done"
        /\ \E j \in Jobs : Accept(j)
     \/ /\ slot # NoJob /\ stage[slot] # "done"
        /\ UNCHANGED <<stage, owner, slot>>
  /\ conn' = [conn EXCEPT ![r] = "over"]
  /\ UNCHANGED <<procVars, about, fault, container>>

(* Everything else is answered.  A stream ends with its client, or with    *)
(* the log of its job, which is closed just before Done.                   *)
Answer(r) ==
  /\ Up
  /\ \/ conn[r] = "short"
     \/ conn[r] = "stream" /\ stage[about[r]] \in {"ending", "done"}
  /\ conn' = [conn EXCEPT ![r] = "over"]
  /\ UNCHANGED <<procVars, about, jobVars>>

(* The other handlers do not notice that their client has gone. *)
ClientGone(r) ==
  /\ Up
  /\ conn[r] = "stream"
  /\ conn' = [conn EXCEPT ![r] = "over"]
  /\ UNCHANGED <<procVars, about, jobVars>>

-----------------------------------------------------------------------------
(* The job: executeJob runs for as long as the process does.               *)

(* Mutant: the removal is deferred only once the container has started. *)
PullOrStartFails(j) ==
  /\ Up
  /\ stage[j] \in {"accepted", "created"}
  /\ stage' = [stage EXCEPT ![j] = "ending"]
  /\ UNCHANGED <<procVars, connVars, slot, owner, fault, container>>

(* The image cannot be had: a return before there is a container. *)
PullFails(j) ==
  /\ Up
  /\ stage[j] = "accepted"
  /\ stage' = [stage EXCEPT ![j] = "ending"]
  /\ UNCHANGED <<procVars, connVars, slot, owner, fault, container>>

(* With an error there is no ID and no removal, even where the daemon has  *)
(* created the container.                                                  *)
CreateContainer(j) ==
  /\ Up
  /\ stage[j] = "accepted"
  /\ \/ /\ stage' = [stage EXCEPT ![j] = "created"]
        /\ container' = [container EXCEPT ![j] = "present"]
        /\ UNCHANGED fault
     \/ /\ stage' = [stage EXCEPT ![j] = "ending"]
        /\ fault' = [fault EXCEPT ![j] = TRUE]
        /\ \E c \in {"absent", "present"} : container' = [container EXCEPT ![j] = c]
  /\ UNCHANGED <<procVars, connVars, slot, owner>>

(* The deferred removal, wherever executeJob returns after the creation;   *)
(* its error is only logged.                                               *)
RemoveContainer(j) ==
  /\ Up
  /\ stage[j] = "created"
  /\ stage' = [stage EXCEPT ![j] = "ending"]
  /\ \/ /\ container' = [container EXCEPT ![j] = "removed"]
        /\ UNCHANGED fault
     \/ /\ fault' = [fault EXCEPT ![j] = TRUE]
        /\ \E c \in {"present", "removed"} : container' = [container EXCEPT ![j] = c]
  /\ UNCHANGED <<procVars, connVars, slot, owner>>

(* The deferred close of Done, which runs last. *)
CloseDone(j) ==
  /\ Up
  /\ stage[j] = "ending"
  /\ stage' = [stage EXCEPT ![j] = "done"]
  /\ UNCHANGED <<procVars, connVars, slot, owner, fault, container>>

-----------------------------------------------------------------------------
Main ==
  \/ Loaded \/ LoadFails \/ Listen \/ ReturnError \/ BeginShutdown
  \/ Drained \/ DrainTimesOut

Next ==
  \/ Boot \/ Main \/ Killed \/ Signal \/ ServeFails
  \/ \E r \in Requests :
       Post(r) \/ Answer(r) \/ ClientGone(r) \/ \E kind \in Kinds : Arrive(r, kind)
  \/ \E j \in Jobs :
       PullFails(j) \/ CreateContainer(j) \/ RemoveContainer(j) \/ CloseDone(j)

Spec == Init /\ [][Next]_vars

(* main goes on where it can; of jobs, requests and the daemon nothing is  *)
(* assumed.                                                                *)
Fairness == WF_vars(Main)

FairSpec == Spec /\ Fairness

-----------------------------------------------------------------------------
(* Properties.                                                             *)

(* Type invariant of the process, its requests and its jobs.               *)
TypeOK ==
  /\ proc \in {"down", "loading", "starting", "serving", "draining"}
  /\ exit \in {"none", "ok", "error", "killed"}
  /\ boots \in 0 .. MaxBoots
  /\ signalled \in BOOLEAN /\ broken \in BOOLEAN
  /\ conn \in [Requests -> Kinds \cup {"none", "over"}]
  /\ about \in [Requests -> Jobs \cup {NoJob}]
  /\ slot \in Jobs \cup {NoJob}
  /\ stage \in [Jobs -> {"new", "accepted", "created", "ending", "done", "lost"}]
  /\ owner \in [Jobs -> 0 .. MaxBoots]
  /\ fault \in [Jobs -> BOOLEAN]
  /\ container \in [Jobs -> {"absent", "present", "removed"}]

(* A container that is there belongs to the job in the slot of a running   *)
(* process, which will still remove it, or its process ended first, or the *)
(* call that should have named or removed it failed: over all restarts     *)
(* nothing else leaves a container, wherever executeJob returns.           *)
LeftoverExplained ==
  \A j \in Jobs : container[j] = "present" =>
    \/ proc # "down" /\ slot = j /\ stage[j] = "created"
    \/ stage[j] = "lost"
    \/ fault[j]

(* One process leaves at most one container where no call failed: the next *)
(* job is accepted only after the removal of the last one's, so that only  *)
(* the job the end of the process cuts off can keep its container.         *)
OneLeftoverPerProcess ==
  \A j, k \in Jobs :
    /\ container[j] = "present" /\ container[k] = "present"
    /\ owner[j] = owner[k]
    /\ j # k
    => fault[j] \/ fault[k]

(* Shutdown ends although log streams end only with their job.             *)
SignalEndsProcess ==
  signalled /\ proc # "down" ~> proc = "down"

(* "Every code path through the executor MUST remove the container"        *)
(* (design.md:436), and main logs "worker shut down gracefully"            *)
(* (main.go:75): where a worker that was asked to stop has ended with      *)
(* status 0, only a job whose own calls failed has left a container.       *)
CleanAfterShutdown ==
  proc = "down" /\ exit = "ok" =>
    \A j \in Jobs : container[j] = "present" => fault[j]

=============================================================================
