---------------------------- MODULE WorkerProofs ----------------------------
(***************************************************************************)
(* The safety properties of Worker, for any number of requests, jobs and   *)
(* restarts.                                                               *)
(***************************************************************************)
EXTENDS Worker, TLAPS

(* A job underway is the one in the slot of the running process; a job     *)
(* that was lost belongs to a process that has ended; a container is there *)
(* without an error only between its creation and its removal.             *)
JobInv(j) ==
  /\ Underway(j) => Up /\ slot = j /\ owner[j] = boots
  /\ stage[j] = "lost" /\ owner[j] = boots => proc = "down"
  /\ owner[j] <= boots
  /\ container[j] = "present" => stage[j] \in {"created", "lost"} \/ fault[j]

(* Of the jobs of one process at most one is not over.                     *)
Unfinished(j) == Underway(j) \/ stage[j] = "lost"

OneUnfinished ==
  \A j, k \in Jobs :
    owner[j] = owner[k] /\ Unfinished(j) /\ Unfinished(k) => j = k

(* The inductive invariant.                                                *)
IInv ==
  /\ TypeOK
  /\ \A j \in Jobs : JobInv(j)
  /\ OneUnfinished

(* The initial state: no process and no container.                         *)
LEMMA InitIInv == Init => IInv
<1> SUFFICES ASSUME Init PROVE IInv
  OBVIOUS
<1>1. boots \in 0 .. MaxBoots
  BY WorkerConstants DEF Init
<1>2. TypeOK
  BY <1>1 DEF Init, TypeOK
<1>3. (\A j \in Jobs : JobInv(j)) /\ OneUnfinished
  BY DEF Init, JobInv, OneUnfinished, Unfinished, Underway
<1> QED BY <1>2, <1>3 DEF IInv

(* The end of a process loses its jobs and leaves the containers as they   *)
(* are.                                                                    *)
LEMMA ExitsIInv ==
  ASSUME IInv, NEW how \in {"ok", "error", "killed"}, Exits(how) PROVE IInv'
<1>1. TypeOK /\ (\A j \in Jobs : JobInv(j)) /\ OneUnfinished
  BY DEF IInv
<1>2. conn' \in [Requests -> Kinds \cup {"none", "over"}]
  BY <1>1 DEF Exits, TypeOK, InFlight
<1>3. stage' \in [Jobs -> {"new", "accepted", "created", "ending", "done", "lost"}]
  BY <1>1 DEF Exits, TypeOK, Underway
<1>4. TypeOK'
  BY <1>1, <1>2, <1>3 DEF Exits, TypeOK
<1>5. ASSUME NEW j \in Jobs
      PROVE  JobInv(j)' /\ (Unfinished(j)' => Unfinished(j)) /\ owner'[j] = owner[j]
  <2>1. /\ container'[j] = container[j] /\ owner'[j] = owner[j]
        /\ fault'[j] = fault[j] /\ proc' = "down" /\ boots' = boots
        /\ stage'[j] = IF Underway(j) THEN "lost" ELSE stage[j]
    BY DEF Exits
  <2> QED BY <1>1, <2>1 DEF JobInv, Underway, Unfinished
<1>6. OneUnfinished'
  BY <1>1, <1>5 DEF OneUnfinished
<1> QED BY <1>4, <1>5, <1>6 DEF IInv

(* The steps of main, of the operating system and of docker-compose.       *)
LEMMA ProcessIInv ==
  ASSUME IInv, Boot \/ Main \/ Killed \/ Signal \/ ServeFails PROVE IInv'
<1>1. TypeOK /\ (\A j \in Jobs : JobInv(j)) /\ OneUnfinished
  BY DEF IInv
<1>2. CASE \E how \in {"ok", "error", "killed"} : Exits(how)
  BY <1>2, ExitsIInv
<1>3. CASE Boot
  <2>1. TypeOK'
    <3>1. boots' \in 0 .. MaxBoots
      BY <1>1, <1>3, WorkerConstants DEF Boot, TypeOK
    <3> QED BY <1>1, <1>3, <3>1 DEF Boot, TypeOK, connVars
  <2>2. \A j \in Jobs : JobInv(j)'
    <3>1. boots \in Nat /\ (\A j \in Jobs : owner[j] \in Nat)
      BY <1>1, WorkerConstants DEF TypeOK
    <3> QED BY <1>1, <1>3, <3>1 DEF Boot, JobInv, Underway, Up
  <2>3. OneUnfinished'
    BY <1>1, <1>3 DEF Boot, OneUnfinished, Unfinished, Underway
  <2> QED BY <2>1, <2>2, <2>3 DEF IInv
<1>4. CASE /\ proc' \in {"starting", "serving", "draining"}
           /\ Up => Up'
           /\ proc # "down"
           /\ signalled' \in BOOLEAN /\ broken' \in BOOLEAN
           /\ UNCHANGED <<exit, boots, connVars, jobVars>>
  <2>1. TypeOK'
    BY <1>1, <1>4 DEF TypeOK, connVars, jobVars
  <2>2. (\A j \in Jobs : JobInv(j)') /\ OneUnfinished'
    BY <1>1, <1>4 DEF JobInv, Underway, OneUnfinished, Unfinished, jobVars
  <2> QED BY <2>1, <2>2 DEF IInv
<1>5. CASE Loaded \/ Signal \/ ServeFails \/ BeginShutdown
  BY <1>1, <1>4, <1>5
     DEF Loaded, Signal, ServeFails, BeginShutdown, Up, TypeOK
<1>6. CASE Listen
  BY <1>1, <1>2, <1>4, <1>6 DEF Listen, Up, TypeOK
<1>7. CASE Killed \/ LoadFails \/ ReturnError \/ Drained \/ DrainTimesOut
  BY <1>2, <1>7 DEF Killed, LoadFails, ReturnError, Drained, DrainTimesOut
<1> QED BY <1>3, <1>5, <1>6, <1>7 DEF Main

(* The steps of the requests.                                              *)
LEMMA RequestIInv ==
  ASSUME IInv, NEW r \in Requests,
         \/ Post(r) \/ Answer(r) \/ ClientGone(r)
         \/ \E kind \in Kinds : Arrive(r, kind)
  PROVE  IInv'
<1>1. TypeOK /\ (\A j \in Jobs : JobInv(j)) /\ OneUnfinished
  BY DEF IInv
<1>2. CASE UNCHANGED <<procVars, jobVars>>
  <2>1. /\ conn' \in [Requests -> Kinds \cup {"none", "over"}]
        /\ about' \in [Requests -> Jobs \cup {NoJob}]
    <3>1. CASE Answer(r) \/ ClientGone(r)
      BY <1>1, <3>1 DEF Answer, ClientGone, TypeOK
    <3>2. CASE \E kind \in Kinds : Arrive(r, kind)
      BY <1>1, <3>2 DEF Arrive, TypeOK
    <3>3. CASE Post(r)
      BY <1>1, <3>3 DEF Post, TypeOK
    <3> QED BY <3>1, <3>2, <3>3
  <2>2. TypeOK'
    BY <1>1, <1>2, <2>1 DEF TypeOK, procVars, jobVars
  <2>3. (\A j \in Jobs : JobInv(j)') /\ OneUnfinished'
    BY <1>1, <1>2 DEF JobInv, Underway, OneUnfinished, Unfinished, Up,
                      procVars, jobVars
  <2> QED BY <2>2, <2>3 DEF IInv
<1>3. ASSUME Post(r), NEW j \in Jobs, Accept(j),
             slot # NoJob => stage[slot] = "done"
      PROVE  IInv'
  <2>1. /\ Up /\ UNCHANGED <<procVars, about, fault, container>>
        /\ conn' = [conn EXCEPT ![r] = "over"]
    BY <1>3 DEF Post
  <2>2. TypeOK'
    BY <1>1, <1>3, <2>1 DEF Accept, TypeOK, procVars
  <2>3. /\ stage[j] = "new" /\ ~Underway(j) /\ Unfinished(j)'
        /\ slot' = j /\ owner'[j] = boots
    BY <1>1, <1>3 DEF Accept, Underway, Unfinished, TypeOK
  <2>4. ASSUME NEW k \in Jobs, k # j
        PROVE  /\ stage'[k] = stage[k] /\ owner'[k] = owner[k]
               /\ ~Underway(k)
               /\ ~(Unfinished(k)' /\ owner'[k] = boots)
    <3>1. stage'[k] = stage[k] /\ owner'[k] = owner[k]
      BY <1>1, <1>3, <2>4 DEF Accept, TypeOK
    <3>2. ~Underway(k)
      BY <1>1, <1>3, WorkerConstants DEF JobInv, Underway
    <3>3. ~(stage[k] = "lost" /\ owner[k] = boots)
      BY <1>1, <2>1 DEF JobInv, Up
    <3> QED BY <3>1, <3>2, <3>3 DEF Unfinished, Underway
  <2>5. ASSUME NEW k \in Jobs PROVE JobInv(k)'
    <3>1. CASE k = j
      <4>1. stage'[j] = "accepted" /\ boots \in Nat
        BY <1>1, <1>3, WorkerConstants DEF Accept, TypeOK
      <4> QED BY <1>1, <2>1, <2>3, <3>1, <4>1
                 DEF JobInv, Underway, Up, procVars
    <3>2. CASE k # j
      BY <1>1, <2>1, <2>4, <3>2 DEF JobInv, Underway, procVars
    <3> QED BY <3>1, <3>2
  <2>6. OneUnfinished'
    <3> SUFFICES ASSUME NEW k \in Jobs, NEW l \in Jobs, k # l,
                        owner'[k] = owner'[l], Unfinished(k)', Unfinished(l)'
                 PROVE  FALSE
      BY DEF OneUnfinished
    <3>1. k # j /\ l # j
      BY <2>3, <2>4
    <3> QED BY <1>1, <2>4, <3>1 DEF OneUnfinished, Unfinished, Underway
  <2> QED BY <2>2, <2>5, <2>6 DEF IInv
<1>4. CASE Post(r)
  <2>1. CASE UNCHANGED <<stage, owner, slot>>
    <3>1. UNCHANGED <<procVars, jobVars>>
      BY <1>4, <2>1 DEF Post, jobVars
    <3> QED BY <1>2, <3>1
  <2>2. CASE ~UNCHANGED <<stage, owner, slot>>
    BY <1>3, <1>4, <2>2 DEF Post
  <2> QED BY <2>1, <2>2
<1>5. CASE Answer(r) \/ ClientGone(r) \/ \E kind \in Kinds : Arrive(r, kind)
  BY <1>2, <1>5 DEF Answer, ClientGone, Arrive
<1> QED BY <1>4, <1>5

(* The steps of a job. *)
LEMMA JobIInv ==
  ASSUME IInv, NEW j \in Jobs,
         PullFails(j) \/ CreateContainer(j) \/ RemoveContainer(j) \/ CloseDone(j)
  PROVE  IInv'
<1>1. TypeOK /\ (\A k \in Jobs : JobInv(k)) /\ OneUnfinished
  BY DEF IInv
<1>2. /\ Up /\ Underway(j) /\ UNCHANGED <<procVars, connVars, slot, owner>>
      /\ stage' = [stage EXCEPT ![j] = stage'[j]]
      /\ fault' = [fault EXCEPT ![j] = fault'[j]]
      /\ container' = [container EXCEPT ![j] = container'[j]]
      /\ stage'[j] \in {"created", "ending", "done"} /\ fault'[j] \in BOOLEAN
      /\ container'[j] \in {"absent", "present", "removed"}
      /\ container'[j] = "present" => stage'[j] = "created" \/ fault'[j]
  <2>1. CASE PullFails(j) \/ CloseDone(j)
    <3>1. container[j] = "present" => fault[j]
      BY <1>1, <2>1 DEF PullFails, CloseDone, JobInv
    <3> QED BY <1>1, <2>1, <3>1 DEF PullFails, CloseDone, Underway, TypeOK
  <2>2. CASE CreateContainer(j)
    BY <1>1, <2>2 DEF CreateContainer, Underway, TypeOK
  <2>3. CASE RemoveContainer(j)
    BY <1>1, <2>3 DEF RemoveContainer, Underway, TypeOK
  <2> QED BY <2>1, <2>2, <2>3
<1>3. TypeOK'
  <2>1. /\ stage' \in [Jobs -> {"new", "accepted", "created", "ending", "done", "lost"}]
        /\ fault' \in [Jobs -> BOOLEAN]
        /\ container' \in [Jobs -> {"absent", "present", "removed"}]
    BY <1>1, <1>2 DEF TypeOK
  <2> QED BY <1>1, <1>2, <2>1 DEF TypeOK, procVars, connVars
<1>4. ASSUME NEW k \in Jobs
      PROVE  JobInv(k)' /\ (Unfinished(k)' => Unfinished(k))
  BY <1>1, <1>2 DEF JobInv, Unfinished, Underway, Up, procVars, TypeOK
<1>5. OneUnfinished'
  BY <1>1, <1>2, <1>4 DEF OneUnfinished
<1> QED BY <1>3, <1>4, <1>5 DEF IInv

(* IInv is an invariant.                                                   *)
LEMMA Invariance == Spec => []IInv
<1>1. IInv /\ [Next]_vars => IInv'
  <2> SUFFICES ASSUME IInv, [Next]_vars PROVE IInv'
    OBVIOUS
  <2>1. CASE Next
    BY <2>1, ProcessIInv, RequestIInv, JobIInv DEF Next
  <2>2. CASE UNCHANGED vars
    BY <2>2 DEF vars, IInv, TypeOK, JobInv, OneUnfinished, Unfinished, Underway, Up
  <2> QED BY <2>1, <2>2
<1> QED BY <1>1, InitIInv, PTL DEF Spec

-----------------------------------------------------------------------------
(* The variables of the process, its requests and its jobs keep their      *)
(* types.                                                                  *)
THEOREM TypeCorrect == Spec => []TypeOK
BY Invariance, PTL DEF IInv

(* A container is left only by the end of a process or by a failed call.   *)
THEOREM LeftoversExplained == Spec => []LeftoverExplained
<1>1. IInv => LeftoverExplained
  BY DEF IInv, JobInv, Underway, Up, LeftoverExplained
<1> QED BY <1>1, Invariance, PTL

(* The end of a process cuts off one job: however many it has run, and     *)
(* over any number of restarts, at most one container stays without a call *)
(* that failed.                                                            *)
THEOREM OneLeftover == Spec => []OneLeftoverPerProcess
<1>1. IInv => OneLeftoverPerProcess
  BY DEF IInv, JobInv, OneUnfinished, Unfinished, Underway, OneLeftoverPerProcess
<1> QED BY <1>1, Invariance, PTL
=============================================================================
