------------------------------- MODULE JobSlot ------------------------------
(***************************************************************************)
(* What the executor promises to the API: a single slot that holds one job *)
(* at a time.  A job is accepted only into a free slot, its log grows only *)
(* while it runs, the log is closed before the answer becomes visible, and *)
(* the answer is given once and for all.                                   *)
(***************************************************************************)
EXTENDS Sequences

CONSTANTS
  Jobs,       \* the job IDs that may be handed out
  NoJob,      \* the slot of a worker that has never had a job
  Answers,    \* what an execution result may be
  NoAnswer,   \* a job that has none yet
  Entries     \* what a log line may hold

VARIABLES
  slot,       \* the job that was accepted last
  phase,      \* per job: "new", "running", "closed" or "finished"
  answer,     \* per job: its result, visible once it is finished
  log         \* per job: its log lines

slotVars == <<slot, phase, answer, log>>

Free == slot # NoJob => phase[slot] = "finished"

Init ==
  /\ slot = NoJob
  /\ phase = [j \in Jobs |-> "new"]
  /\ answer = [j \in Jobs |-> NoAnswer]
  /\ log = [j \in Jobs |-> <<>>]

Accept(j) ==
  /\ Free
  /\ phase[j] = "new"
  /\ slot' = j
  /\ phase' = [phase EXCEPT ![j] = "running"]
  /\ UNCHANGED <<answer, log>>

Record(j) ==
  /\ phase[j] = "running"
  /\ \E e \in Entries : log' = [log EXCEPT ![j] = Append(@, e)]
  /\ UNCHANGED <<slot, phase, answer>>

CloseLog(j) ==
  /\ phase[j] = "running"
  /\ phase' = [phase EXCEPT ![j] = "closed"]
  /\ UNCHANGED <<slot, answer, log>>

Finish(j) ==
  /\ phase[j] = "closed"
  /\ phase' = [phase EXCEPT ![j] = "finished"]
  /\ answer'[j] \in Answers
  /\ answer' = [answer EXCEPT ![j] = answer'[j]]
  /\ UNCHANGED <<slot, log>>

Next == \E j \in Jobs : Accept(j) \/ Record(j) \/ CloseLog(j) \/ Finish(j)

Spec == Init /\ [][Next]_slotVars

=============================================================================
