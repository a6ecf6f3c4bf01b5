----------------------------- MODULE ApiProofs ------------------------------
(***************************************************************************)
(* The safety properties of Api, for any number of requests and jobs.      *)
(***************************************************************************)
EXTENDS Api, TLAPS

(* The slot holds the one job that may be unfinished, and never a job that *)
(* was not accepted.                                                       *)
SlotHolds ==
  /\ slot # NoJob => phase[slot] # "new"
  /\ \A j \in Jobs : Unfinished(j) => slot = j

(* What is known of request r at each point of its handler.                *)
InHandler(r) ==
  /\ at[r] # "done" => reply[r] = NoReply
  /\ at[r] \in {"stream", "end"} => job[r] \in Jobs
  /\ at[r] = "currentJobID" => slot # NoJob

(* What the response of request r says of its job, now and later: a job    *)
(* that was answered is finished, and its answer no longer changes.        *)
Replied(r) ==
  /\ reply[r].code = 202 => job[r] \in Jobs /\ phase[job[r]] # "new"
  /\ reply[r].body \in Statuses =>
       /\ job[r] \in Jobs /\ phase[job[r]] = "finished"
       /\ reply[r].body = answer[job[r]]
  /\ reply[r].body = "busy" /\ reply[r].code = 200 =>
       job[r] \in Jobs /\ phase[job[r]] # "new"

(* No job was promised to two clients.                                     *)
Distinct ==
  \A q, r \in Requests :
    reply[q].code = 202 /\ reply[r].code = 202 /\ job[q] = job[r] => q = r

(* The inductive invariant.                                                *)
IInv ==
  /\ TypeOK
  /\ SlotHolds
  /\ \A r \in Requests : InHandler(r) /\ Replied(r)
  /\ Distinct

(* The initial state: no request has come and the slot is empty.           *)
LEMMA InitIInv == Init => IInv
<1> SUFFICES ASSUME Init PROVE IInv
  OBVIOUS
<1>1. TypeOK
  BY DEF Init, Exec!Init, TypeOK, NoReply, Words, Labels, Codes
<1>2. SlotHolds /\ Distinct
  BY DEF Init, Exec!Init, SlotHolds, Unfinished, Distinct, NoReply
<1>3. \A r \in Requests : InHandler(r) /\ Replied(r)
  BY ApiConstants DEF Init, InHandler, Replied, NoReply, Words
<1> QED BY <1>1, <1>2, <1>3 DEF IInv

-----------------------------------------------------------------------------
(* A handler's step changes the state of its own request only. *)
Own(r) ==
  \A q \in Requests \ {r} :
    at'[q] = at[q] /\ job'[q] = job[q] /\ reply'[q] = reply[q]

(* The executor only moves on: accepted jobs stay accepted, finished jobs  *)
(* keep their answer, and the slot is never emptied.                       *)
Onward ==
  /\ slot # NoJob => slot' # NoJob
  /\ \A j \in Jobs :
       /\ phase[j] # "new" => phase'[j] # "new"
       /\ phase[j] = "finished" =>
            phase'[j] = "finished" /\ answer'[j] = answer[j]

(* What is known of a request survives the steps of everyone else.         *)
LEMMA Others ==
  ASSUME NEW q \in Requests, InHandler(q), Replied(q), Onward,
         at'[q] = at[q], job'[q] = job[q], reply'[q] = reply[q]
  PROVE  InHandler(q)' /\ Replied(q)'
BY DEF InHandler, Replied, Onward

(* A step that leaves the executor alone keeps its part of the invariant.  *)
LEMMA SameExecutor ==
  ASSUME SlotHolds, UNCHANGED execVars PROVE SlotHolds' /\ Onward
BY DEF SlotHolds, Onward, execVars, Unfinished

(* A response that is not a 202 promises no job to anyone.                 *)
LEMMA StillDistinct ==
  ASSUME Distinct, NEW r \in Requests, Own(r), reply'[r].code # 202
  PROVE  Distinct'
BY DEF Distinct, Own
(* A handler that moves on has no response yet.                            *)
LEMMA Moves ==
  ASSUME TypeOK, NEW r \in Requests, NEW label \in Labels, Goto(r, label)
  PROVE  /\ at' \in [Requests -> Labels] /\ at'[r] = label
         /\ \A q \in Requests \ {r} : at'[q] = at[q]
BY DEF TypeOK, Goto

(* A handler that responds is done.                                        *)
LEMMA Responds ==
  ASSUME TypeOK, NEW r \in Requests, NEW code \in Codes,
         NEW body \in Statuses \cup Words, Respond(r, code, body)
  PROVE  /\ at' \in [Requests -> Labels] /\ at'[r] = "done"
         /\ reply' \in [Requests -> [code : Codes, body : Statuses \cup Words]]
         /\ reply'[r].code = code /\ reply'[r].body = body
         /\ \A q \in Requests \ {r} : at'[q] = at[q] /\ reply'[q] = reply[q]
BY DEF TypeOK, Respond, Goto, Labels

(* The job of a request is set.                                            *)
LEMMA Names ==
  ASSUME TypeOK, NEW r \in Requests, NEW j \in Jobs \cup {NoJob},
         job' = [job EXCEPT ![r] = j]
  PROVE  /\ job' \in [Requests -> Jobs \cup {NoJob}] /\ job'[r] = j
         /\ \A q \in Requests \ {r} : job'[q] = job[q]
BY DEF TypeOK

(* A handler's step that leaves the executor alone keeps the invariant if  *)
(* it keeps the part of its own request.                                   *)
LEMMA HandlerIInv ==
  ASSUME IInv, NEW r \in Requests, UNCHANGED execVars, Own(r),
         at' \in [Requests -> Labels], job' \in [Requests -> Jobs \cup {NoJob}],
         reply' \in [Requests -> [code : Codes, body : Statuses \cup Words]],
         InHandler(r)', Replied(r)', reply'[r].code # 202
  PROVE  IInv'
<1>1. TypeOK'
  BY DEF IInv, TypeOK, execVars
<1>2. SlotHolds' /\ Onward
  BY SameExecutor DEF IInv
<1>3. ASSUME NEW q \in Requests PROVE InHandler(q)' /\ Replied(q)'
  <2>1. CASE q = r
    BY <2>1
  <2>2. CASE q # r
    BY <1>2, <2>2, Others DEF IInv, Own
  <2> QED BY <2>1, <2>2
<1>4. Distinct'
  BY StillDistinct DEF IInv
<1> QED BY <1>1, <1>2, <1>3, <1>4 DEF IInv

(* A response that carries no status and does not promise or name a job.   *)
LEMMA PlainResponse ==
  ASSUME IInv, NEW r \in Requests, NEW code \in Codes, NEW body \in Words,
         Respond(r, code, body), UNCHANGED execVars,
         job' \in [Requests -> Jobs \cup {NoJob}],
         \A q \in Requests \ {r} : job'[q] = job[q],
         code # 202, body = "busy" => code # 200
  PROVE  IInv'
<1>1. TypeOK /\ body \in Statuses \cup Words /\ body \notin Statuses
  BY ApiConstants DEF IInv
<1>2. /\ at' \in [Requests -> Labels] /\ at'[r] = "done"
      /\ reply' \in [Requests -> [code : Codes, body : Statuses \cup Words]]
      /\ reply'[r].code = code /\ reply'[r].body = body
      /\ Own(r)
  BY <1>1, Responds DEF Own
<1>3. InHandler(r)' /\ Replied(r)'
  BY <1>1, <1>2 DEF InHandler, Replied
<1> QED BY <1>2, <1>3, HandlerIInv

(* A handler that goes on to its next call of the executor.                *)
LEMMA Move ==
  ASSUME IInv, NEW r \in Requests, NEW label \in Labels, at[r] # "done",
         Goto(r, label), UNCHANGED <<execVars, reply>>,
         job' \in [Requests -> Jobs \cup {NoJob}],
         \A q \in Requests \ {r} : job'[q] = job[q],
         label \in {"stream", "end"} => job'[r] \in Jobs,
         label = "currentJobID" => slot # NoJob
  PROVE  IInv'
<1>1. TypeOK /\ reply[r] = NoReply
  BY DEF IInv, InHandler
<1>2. /\ at' \in [Requests -> Labels] /\ at'[r] = label
      /\ Own(r) /\ reply' = reply
  BY <1>1, Moves DEF Own
<1>3. /\ reply' \in [Requests -> [code : Codes, body : Statuses \cup Words]]
      /\ reply'[r] = NoReply /\ reply'[r].code # 202
  BY <1>1, <1>2 DEF TypeOK, NoReply
<1>4. InHandler(r)' /\ Replied(r)'
  BY <1>2, <1>3, ApiConstants DEF InHandler, Replied, NoReply, Words, execVars
<1> QED BY <1>2, <1>3, <1>4, HandlerIInv

(* A status that GetResult returns is the final answer of the job.         *)
LEMMA ResultIsFinal ==
  ASSUME TypeOK, NEW id \in Jobs, GetResult(id) # "none"
  PROVE  GetResult(id) \in Statuses /\ phase[id] = "finished"
         /\ GetResult(id) = answer[id]
BY DEF TypeOK, GetResult

(* A handler that answers with the result of a job.                        *)
LEMMA ResultResponse ==
  ASSUME IInv, NEW r \in Requests, NEW id \in Jobs, GetResult(id) # "none",
         Respond(r, 200, GetResult(id)), UNCHANGED execVars,
         job' \in [Requests -> Jobs \cup {NoJob}], job'[r] = id,
         \A q \in Requests \ {r} : job'[q] = job[q]
  PROVE  IInv'
<1> DEFINE status == GetResult(id)
<1>1. /\ TypeOK /\ status \in Statuses /\ status \notin Words
      /\ phase[id] = "finished" /\ status = answer[id]
  BY ResultIsFinal, ApiConstants DEF IInv
<1> HIDE DEF status
<1>2. /\ at' \in [Requests -> Labels] /\ at'[r] = "done"
      /\ reply' \in [Requests -> [code : Codes, body : Statuses \cup Words]]
      /\ reply'[r].code = 200 /\ reply'[r].body = status
      /\ Own(r)
  <2>1. Respond(r, 200, status)
    BY DEF status
  <2> QED BY <1>1, <2>1, Responds DEF Own, Codes
<1>3. InHandler(r)' /\ Replied(r)'
  BY <1>1, <1>2 DEF InHandler, Replied, execVars, Words
<1> QED BY <1>2, <1>3, HandlerIInv
-----------------------------------------------------------------------------
(* handleSubmitJob's Submit: a fresh job, or the worker was taken since.   *)
LEMMA SubmitIInv == ASSUME IInv, NEW r \in Requests, Submit(r) PROVE IInv'
<1>0. TypeOK
  BY DEF IInv
<1>1. CASE /\ Respond(r, 409, "busy")
           /\ UNCHANGED <<execVars, job>>
  BY <1>0, <1>1, PlainResponse DEF TypeOK, Codes, Words
<1>2. ASSUME NEW j \in Jobs, Exec!Accept(j), job' = [job EXCEPT ![r] = j],
             Respond(r, 202, "accepted")
      PROVE  IInv'
  <2>1. /\ at' \in [Requests -> Labels] /\ at'[r] = "done"
        /\ reply' \in [Requests -> [code : Codes, body : Statuses \cup Words]]
        /\ reply'[r].code = 202 /\ reply'[r].body = "accepted"
        /\ \A q \in Requests \ {r} : at'[q] = at[q] /\ reply'[q] = reply[q]
    BY <1>0, <1>2, Responds DEF Codes, Words
  <2>2. /\ job' \in [Requests -> Jobs \cup {NoJob}] /\ job'[r] = j
        /\ \A q \in Requests \ {r} : job'[q] = job[q]
    BY <1>0, <1>2, Names
  <2>3. /\ slot' = j /\ phase' = [phase EXCEPT ![j] = "running"]
        /\ answer' = answer /\ phase[j] = "new"
        /\ slot # NoJob => phase[slot] = "finished"
    BY <1>2 DEF Exec!Accept, Exec!Free
  <2>4. TypeOK'
    BY <1>0, <2>1, <2>2, <2>3 DEF TypeOK
  <2>5. Onward
    BY <1>0, <2>3, ApiConstants DEF TypeOK, Onward
  <2>6. SlotHolds'
    <3>1. ASSUME NEW k \in Jobs, k # j, Unfinished(k)' PROVE FALSE
      BY <1>0, <2>3, <3>1, ApiConstants
         DEF IInv, TypeOK, SlotHolds, Unfinished
    <3>2. phase'[j] = "running"
      BY <1>0, <2>3 DEF TypeOK
    <3> QED BY <2>3, <3>1, <3>2 DEF SlotHolds
  <2>7. ASSUME NEW q \in Requests PROVE InHandler(q)' /\ Replied(q)'
    <3>1. CASE q = r
      BY <1>0, <2>1, <2>2, <2>3, <3>1, ApiConstants
         DEF TypeOK, InHandler, Replied, Words
    <3>2. CASE q # r
      BY <2>1, <2>2, <2>5, <3>2, Others DEF IInv
    <3> QED BY <3>1, <3>2
  <2>8. Distinct'
    <3>1. ASSUME NEW q \in Requests \ {r}, reply'[q].code = 202
          PROVE  job'[q] # j
      BY <2>1, <2>2, <2>3, <3>1 DEF IInv, Replied
    <3>2. ASSUME NEW p \in Requests, NEW q \in Requests, p # q,
                 reply'[p].code = 202, reply'[q].code = 202
          PROVE  job'[p] # job'[q]
      <4>1. CASE p # r /\ q # r
        BY <2>1, <2>2, <3>2, <4>1 DEF IInv, Distinct
      <4>2. CASE p = r \/ q = r
        BY <2>2, <3>1, <3>2, <4>2
      <4> QED BY <4>1, <4>2
    <3> QED BY <3>2 DEF Distinct
  <2> QED BY <2>4, <2>6, <2>7, <2>8 DEF IInv
<1> QED BY <1>1, <1>2 DEF Submit

(* Every handler step, one case per action.                                *)
LEMMA StepIInv ==
  ASSUME IInv, NEW r \in Requests, Arrive(r) \/ Handler(r) \/ ClientGone(r)
  PROVE  IInv'
<1> USE DEF Codes, Words, Labels
<1>0. TypeOK /\ InHandler(r)
  BY DEF IInv
<1>1. CASE Validate(r)
  BY <1>0, <1>1, Move, PlainResponse DEF Validate, TypeOK
<1>2. CASE CheckReady(r)
  BY <1>0, <1>2, Move, PlainResponse DEF CheckReady, TypeOK
<1>3. CASE Submit(r)
  BY <1>3, SubmitIInv
<1>4. ASSUME NEW id \in Jobs, handleGetResult(r, id) PROVE IInv'
  <2>1. /\ job' \in [Requests -> Jobs \cup {NoJob}] /\ job'[r] = id
        /\ \A q \in Requests \ {r} : job'[q] = job[q]
        /\ UNCHANGED execVars
    BY <1>0, <1>4, Names DEF handleGetResult
  <2>2. CASE GetResult(id) = "none"
    <3>1. Respond(r, 404, "none")
      BY <1>4, <2>2 DEF handleGetResult
    <3> QED BY <2>1, <3>1, PlainResponse
  <2>3. CASE GetResult(id) # "none"
    <3>1. Respond(r, 200, GetResult(id))
      BY <1>4, <2>3 DEF handleGetResult
    <3> QED BY <2>1, <2>3, <3>1, ResultResponse
  <2> QED BY <2>2, <2>3
<1>5. ASSUME NEW id \in Jobs, OpenStream(r, id) PROVE IInv'
  <2>1. /\ job' \in [Requests -> Jobs \cup {NoJob}] /\ job'[r] = id
        /\ \A q \in Requests \ {r} : job'[q] = job[q]
        /\ UNCHANGED execVars
    BY <1>0, <1>5, Names DEF OpenStream
  <2>2. CASE slot = id
    BY <1>5, <2>1, <2>2, Move DEF OpenStream
  <2>3. CASE slot # id
    BY <1>5, <2>1, <2>3, PlainResponse DEF OpenStream
  <2> QED BY <2>2, <2>3
<1>6. CASE StreamClosed(r)
  BY <1>0, <1>6, Move DEF StreamClosed, InHandler, TypeOK
<1>7. CASE ClientGone(r)
  BY <1>0, <1>7, Move DEF ClientGone, TypeOK
<1>8. CASE EndEvent(r)
  <2>1. job[r] \in Jobs /\ UNCHANGED <<execVars, job>>
    BY <1>0, <1>8 DEF EndEvent, InHandler
  <2>2. CASE GetResult(job[r]) = "none"
    <3>1. Respond(r, 200, "unknown")
      BY <1>8, <2>2 DEF EndEvent
    <3> QED BY <1>0, <2>1, <3>1, PlainResponse DEF TypeOK
  <2>3. CASE GetResult(job[r]) # "none"
    <3>1. Respond(r, 200, GetResult(job[r]))
      BY <1>8, <2>3 DEF EndEvent
    <3> QED BY <1>0, <2>1, <2>3, <3>1, ResultResponse DEF TypeOK
  <2> QED BY <2>2, <2>3
<1>9. CASE handleReady(r)
  <2>1. CASE Respond(r, 200, "ready")
    BY <1>0, <1>9, <2>1, PlainResponse DEF handleReady, TypeOK
  <2>2. CASE ~IsReady /\ Goto(r, "currentJobID") /\ UNCHANGED reply
    BY <1>0, <1>9, <2>2, Move DEF handleReady, IsReady, Exec!Free, TypeOK
  <2> QED BY <1>9, <2>1, <2>2 DEF handleReady
<1>10. CASE ReadyBusy(r)
  <2>1. /\ slot \in Jobs /\ phase[slot] # "new"
        /\ Respond(r, 200, "busy") /\ UNCHANGED execVars
    BY <1>0, <1>10 DEF IInv, SlotHolds, ReadyBusy, InHandler, TypeOK
  <2>2. /\ job' \in [Requests -> Jobs \cup {NoJob}] /\ job'[r] = slot
        /\ \A q \in Requests \ {r} : job'[q] = job[q]
    BY <1>0, <1>10, Names DEF ReadyBusy, TypeOK
  <2>3. /\ at' \in [Requests -> Labels] /\ at'[r] = "done"
        /\ reply' \in [Requests -> [code : Codes, body : Statuses \cup Words]]
        /\ reply'[r].code = 200 /\ reply'[r].body = "busy"
        /\ Own(r)
    BY <1>0, <2>1, <2>2, Responds DEF Own
  <2>4. InHandler(r)' /\ Replied(r)'
    BY <2>1, <2>2, <2>3, ApiConstants DEF InHandler, Replied, execVars
  <2> QED BY <2>1, <2>2, <2>3, <2>4, HandlerIInv
<1>11. CASE handleHealth(r)
  BY <1>0, <1>11, Move DEF handleHealth, TypeOK
<1>12. CASE PingEnds(r)
  <2>1. PICK status \in {"healthy", "unhealthy"} : Respond(r, 200, status)
    BY <1>12 DEF PingEnds
  <2> QED BY <1>0, <1>12, <2>1, PlainResponse DEF PingEnds, TypeOK
<1> QED BY <1>1, <1>2, <1>3, <1>4, <1>5, <1>6, <1>7, <1>8, <1>9, <1>10, <1>11, <1>12
        DEF Arrive, Handler

(* The executor's own steps.                                               *)
LEMMA ExecutorIInv ==
  ASSUME IInv, NEW j \in Jobs, CloseLog(j) \/ Finish(j) PROVE IInv'
<1>0. TypeOK /\ SlotHolds
  BY DEF IInv
<1>1. /\ slot' = slot /\ UNCHANGED <<at, job, reply>>
      /\ \/ phase[j] = "running" /\ phase' = [phase EXCEPT ![j] = "closed"]
            /\ answer' = answer
         \/ /\ phase[j] = "closed" /\ phase' = [phase EXCEPT ![j] = "finished"]
            /\ \E a \in Statuses : answer' = [answer EXCEPT ![j] = a]
  BY DEF CloseLog, Finish, Exec!CloseLog, Exec!Finish
<1>2. TypeOK'
  BY <1>0, <1>1 DEF TypeOK
<1>3. SlotHolds' /\ Onward
  BY <1>0, <1>1 DEF TypeOK, SlotHolds, Onward, Unfinished
<1>4. \A r \in Requests : InHandler(r)' /\ Replied(r)'
  BY <1>1, <1>3, Others DEF IInv
<1>5. Distinct'
  BY <1>1 DEF IInv, Distinct
<1> QED BY <1>2, <1>3, <1>4, <1>5 DEF IInv

(* IInv is an invariant.                                                   *)
LEMMA Invariance == Spec => []IInv
<1>1. IInv /\ [Next]_vars => IInv'
  <2> SUFFICES ASSUME IInv, [Next]_vars PROVE IInv'
    OBVIOUS
  <2>1. CASE Next
    BY <2>1, StepIInv, ExecutorIInv DEF Next
  <2>2. CASE UNCHANGED vars
    BY <2>2 DEF vars, IInv, TypeOK, SlotHolds, Unfinished, InHandler, Replied,
                Distinct
  <2> QED BY <2>1, <2>2
<1> QED BY <1>1, InitIInv, PTL DEF Spec

-----------------------------------------------------------------------------
(* The variables of the handlers and of the slot keep their types.         *)
THEOREM TypeCorrect == Spec => []TypeOK
BY Invariance, PTL DEF IInv

(* Between IsReady and Submit of handleSubmitJob the slot may be taken,    *)
(* yet one job at most is unfinished and no job is promised twice.         *)
THEOREM SubmissionsExclusive == Spec => []AcceptedJobsAreExclusive
<1>1. IInv => AcceptedJobsAreExclusive
  BY DEF IInv, SlotHolds, Replied, Distinct, AcceptedJobsAreExclusive
<1> QED BY <1>1, Invariance, PTL

(* handleGetResult and buildEndEvent never report the status of another    *)
(* job, nor one that changes later.                                        *)
THEOREM AnswersOfTheJob == Spec => []AnswersBelongToTheJob
<1>1. IInv => AnswersBelongToTheJob
  BY DEF IInv, Replied, AnswersBelongToTheJob
<1> QED BY <1>1, Invariance, PTL

(* A busy reply of handleReady names a job that was accepted.              *)
THEOREM BusyNamed == Spec => []BusyNamesAJob
<1>1. IInv => BusyNamesAJob
  BY DEF IInv, Replied, BusyNamesAJob
<1> QED BY <1>1, Invariance, PTL
=============================================================================
