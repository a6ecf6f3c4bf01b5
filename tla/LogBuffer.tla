----------------------------- MODULE LogBuffer ------------------------------
(***************************************************************************)
(* pkg/stream/buffer.go: one LogBuffer and the goroutines that Subscribe   *)
(* starts.  Every critical section under b.mu is one action.  The notify   *)
(* channel holds at most one token and is shared by all subscribers; it is *)
(* closed together with the buffer, so `closed` stands for both.           *)
(*                                                                         *)
(* A subscriber's output channel is the sequence of all lines sent on it   *)
(* (sent) and the number of them its consumer has received (recv): what is *)
(* between the two sits in the channel, at most ChanCap lines.             *)
(***************************************************************************)
EXTENDS Naturals, Sequences

CONSTANTS
  Lines,        \* LogLine values; "stdout" and "stderr" in the models
  Subscribers,  \* the calls of Subscribe
  ChanCap,      \* capacity of a subscriber's channel (64 in the code)
  MaxLines      \* bound on the number of accepted writes

ASSUME BufferConstants ==
  /\ ChanCap \in Nat \ {0}
  /\ MaxLines \in Nat

VARIABLES
  lines,        \* b.lines
  closed,       \* b.closed, and whether b.notify is closed
  token,        \* b.notify holds its one element
  pc,           \* per subscriber goroutine: where it is
  pos,          \* per subscriber: the local variable pos
  next,         \* per subscriber: index of the line to send next
  hi,           \* per subscriber: end of the slice taken under the lock
  seen,         \* per subscriber: the local variable closed
  sent,         \* per subscriber: the lines sent on its channel so far
  recv,         \* per subscriber: how many of them its consumer has taken
  cancelled     \* per subscriber: its context is done

vars == <<lines, closed, token, pc, pos, next, hi, seen, sent, recv, cancelled>>
bufVars == <<lines, closed, token>>
consumerVars == <<recv, cancelled>>

Goto(s, label) == pc' = [pc EXCEPT ![s] = label]

(* NewLogBuffer, and no call of Subscribe yet. *)
Init ==
  /\ lines = <<>>
  /\ closed = FALSE
  /\ token = FALSE
  /\ pc = [s \in Subscribers |-> "idle"]
  /\ pos = [s \in Subscribers |-> 0]
  /\ next = [s \in Subscribers |-> 1]
  /\ hi = [s \in Subscribers |-> 0]
  /\ seen = [s \in Subscribers |-> FALSE]
  /\ sent = [s \in Subscribers |-> <<>>]
  /\ recv = [s \in Subscribers |-> 0]
  /\ cancelled = [s \in Subscribers |-> FALSE]

-----------------------------------------------------------------------------
(* The operations of the buffer, each under b.mu.                          *)

(* Mutants: the closed check forgotten; the signal forgotten. *)
WriteAfterClose(l) ==
  /\ Len(lines) < MaxLines
  /\ lines' = Append(lines, l)
  /\ token' = TRUE
  /\ UNCHANGED <<closed, pc, pos, next, hi, seen, sent, recv, cancelled>>

WriteSilently(l) ==
  /\ ~closed
  /\ Len(lines) < MaxLines
  /\ lines' = Append(lines, l)
  /\ UNCHANGED <<closed, token, pc, pos, next, hi, seen, sent, recv, cancelled>>

(* A write to a closed buffer is ignored; the send on notify never blocks. *)
Write(l) ==
  /\ \/ /\ closed
        /\ UNCHANGED bufVars
     \/ /\ ~closed
        /\ Len(lines) < MaxLines
        /\ lines' = Append(lines, l)
        /\ token' = TRUE
        /\ UNCHANGED closed
  /\ UNCHANGED <<pc, pos, next, hi, seen, sent, recv, cancelled>>

(* Closing twice is harmless. *)
Close ==
  /\ closed' = TRUE
  /\ UNCHANGED <<lines, token, pc, pos, next, hi, seen, sent, recv, cancelled>>

-----------------------------------------------------------------------------
(* The subscriber goroutine.                                               *)

Subscribe(s) ==
  /\ pc[s] = "idle"
  /\ Goto(s, "read")
  /\ UNCHANGED <<bufVars, pos, next, hi, seen, sent, consumerVars>>

(* The lines from pos on and the closed flag, read under one lock. *)
ReadLines(s) ==
  /\ pc[s] = "read"
  /\ next' = [next EXCEPT ![s] = pos[s] + 1]
  /\ hi' = [hi EXCEPT ![s] = Len(lines)]
  /\ seen' = [seen EXCEPT ![s] = closed]
  /\ Goto(s, "send")
  /\ UNCHANGED <<bufVars, pos, sent, consumerVars>>

HasRoom(s) == Len(sent[s]) - recv[s] < ChanCap

(* Mutants: pos is not advanced; the capacity is off by one. *)
SendWithoutAdvance(s) ==
  /\ pc[s] = "send"
  /\ next[s] <= hi[s]
  /\ HasRoom(s)
  /\ sent' = [sent EXCEPT ![s] = Append(@, lines[next[s]])]
  /\ next' = [next EXCEPT ![s] = @ + 1]
  /\ UNCHANGED <<bufVars, pc, pos, hi, seen, consumerVars>>

SendOverCapacity(s) ==
  /\ pc[s] = "send"
  /\ next[s] <= hi[s]
  /\ Len(sent[s]) - recv[s] <= ChanCap
  /\ sent' = [sent EXCEPT ![s] = Append(@, lines[next[s]])]
  /\ next' = [next EXCEPT ![s] = @ + 1]
  /\ pos' = [pos EXCEPT ![s] = @ + 1]
  /\ UNCHANGED <<bufVars, pc, hi, seen, consumerVars>>

Send(s) ==
  /\ pc[s] = "send"
  /\ next[s] <= hi[s]
  /\ HasRoom(s)
  /\ sent' = [sent EXCEPT ![s] = Append(@, lines[next[s]])]
  /\ next' = [next EXCEPT ![s] = @ + 1]
  /\ pos' = [pos EXCEPT ![s] = @ + 1]
  /\ UNCHANGED <<bufVars, pc, hi, seen, consumerVars>>

(* Mutant: the closed flag is read again instead of the one read with the  *)
(* lines.                                                                  *)
CheckClosedAgain(s) ==
  /\ pc[s] = "send"
  /\ next[s] > hi[s]
  /\ Goto(s, IF closed THEN "end" ELSE "wait")
  /\ UNCHANGED <<bufVars, pos, next, hi, seen, sent, consumerVars>>

(* Everything of the slice is sent: stop if the buffer was closed then. *)
CheckClosed(s) ==
  /\ pc[s] = "send"
  /\ next[s] > hi[s]
  /\ Goto(s, IF seen[s] THEN "end" ELSE "wait")
  /\ UNCHANGED <<bufVars, pos, next, hi, seen, sent, consumerVars>>

(* A token wakes exactly one of the waiting subscribers. *)
TakeToken(s) ==
  /\ pc[s] = "wait"
  /\ token
  /\ token' = FALSE
  /\ Goto(s, "read")
  /\ UNCHANGED <<lines, closed, pos, next, hi, seen, sent, consumerVars>>

(* Mutant: notify is never closed, so only a token wakes a subscriber. *)
SeeCloseWithToken(s) ==
  /\ pc[s] = "wait"
  /\ closed /\ token
  /\ Goto(s, "drainRead")
  /\ UNCHANGED <<bufVars, pos, next, hi, seen, sent, consumerVars>>

(* A closed channel yields its buffered token first, then !ok. *)
SeeClose(s) ==
  /\ pc[s] = "wait"
  /\ closed /\ ~token
  /\ Goto(s, "drainRead")
  /\ UNCHANGED <<bufVars, pos, next, hi, seen, sent, consumerVars>>

DrainRead(s) ==
  /\ pc[s] = "drainRead"
  /\ next' = [next EXCEPT ![s] = pos[s] + 1]
  /\ hi' = [hi EXCEPT ![s] = Len(lines)]
  /\ Goto(s, "drain")
  /\ UNCHANGED <<bufVars, pos, seen, sent, consumerVars>>

(* The drain loop does not advance pos. *)
DrainSend(s) ==
  /\ pc[s] = "drain"
  /\ next[s] <= hi[s]
  /\ HasRoom(s)
  /\ sent' = [sent EXCEPT ![s] = Append(@, lines[next[s]])]
  /\ next' = [next EXCEPT ![s] = @ + 1]
  /\ UNCHANGED <<bufVars, pc, pos, hi, seen, consumerVars>>

DrainEnd(s) ==
  /\ pc[s] = "drain"
  /\ next[s] > hi[s]
  /\ Goto(s, "end")
  /\ UNCHANGED <<bufVars, pos, next, hi, seen, sent, consumerVars>>

(* The ctx.Done() arm of the three selects; select picks any ready arm. *)
StopOnCancel(s) ==
  /\ cancelled[s]
  /\ \/ pc[s] \in {"send", "drain"} /\ next[s] <= hi[s]
     \/ pc[s] = "wait"
  /\ Goto(s, "end")
  /\ UNCHANGED <<bufVars, pos, next, hi, seen, sent, consumerVars>>

Goroutine(s) ==
  \/ ReadLines(s) \/ Send(s) \/ CheckClosed(s)
  \/ TakeToken(s) \/ SeeClose(s)
  \/ DrainRead(s) \/ DrainSend(s) \/ DrainEnd(s)
  \/ StopOnCancel(s)

-----------------------------------------------------------------------------
(* The consumer: handleStreamLogs ranges over the channel; its request     *)
(* context ends when the client disconnects.                               *)

Receive(s) ==
  /\ recv[s] < Len(sent[s])
  /\ recv' = [recv EXCEPT ![s] = @ + 1]
  /\ UNCHANGED <<bufVars, pc, pos, next, hi, seen, sent, cancelled>>

Disconnect(s) ==
  /\ pc[s] # "idle"
  /\ ~cancelled[s]
  /\ cancelled' = [cancelled EXCEPT ![s] = TRUE]
  /\ UNCHANGED <<bufVars, pc, pos, next, hi, seen, sent, recv>>

Next ==
  \/ \E l \in Lines : Write(l)
  \/ Close
  \/ \E s \in Subscribers :
       Subscribe(s) \/ Goroutine(s) \/ Receive(s) \/ Disconnect(s)

Spec == Init /\ [][Next]_vars

(* Goroutines are scheduled, and a consumer that has not gone keeps        *)
(* ranging over its channel.                                               *)
Fairness ==
  \A s \in Subscribers :
    WF_vars(Goroutine(s)) /\ WF_vars(~cancelled[s] /\ Receive(s))

FairSpec == Spec /\ Fairness

-----------------------------------------------------------------------------
(* Properties.                                                             *)

PCs == {"idle", "read", "send", "wait", "drainRead", "drain", "end"}

(* Type invariant; a subscriber's channel never holds more than ChanCap.   *)
TypeOK ==
  /\ lines \in Seq(Lines)
  /\ closed \in BOOLEAN
  /\ token \in BOOLEAN
  /\ pc \in [Subscribers -> PCs]
  /\ pos \in [Subscribers -> Nat]
  /\ next \in [Subscribers -> Nat \ {0}]
  /\ hi \in [Subscribers -> Nat]
  /\ seen \in [Subscribers -> BOOLEAN]
  /\ sent \in [Subscribers -> Seq(Lines)]
  /\ recv \in [Subscribers -> Nat]
  /\ cancelled \in [Subscribers -> BOOLEAN]
  /\ \A s \in Subscribers :
       recv[s] <= Len(sent[s]) /\ Len(sent[s]) <= recv[s] + ChanCap

(* Subscribe emits the log from its first line, in order, without loss or  *)
(* duplication, however its reads interleave with Write and Close.         *)
InOrder ==
  \A s \in Subscribers :
    /\ Len(sent[s]) <= Len(lines)
    /\ \A i \in 1 .. Len(sent[s]) : sent[s][i] = lines[i]

(* A stream whose client stayed ends only after Close, and by then it has  *)
(* been sent every line the buffer ever accepted.                          *)
CompleteAtEnd ==
  \A s \in Subscribers :
    pc[s] = "end" /\ ~cancelled[s] => closed /\ Len(sent[s]) = Len(lines)

UpToDate(s) ==
  \/ pc[s] = "read"
  \/ pc[s] \in {"send", "wait", "drainRead", "drain"} /\ hi[s] = Len(lines)
  \/ pc[s] = "end"

(* The signal of the last write is never lost altogether: until Close it   *)
(* is in the channel, or the subscriber that took it has read, or is about *)
(* to read, up to the last line (or has ended).                            *)
WakeupReachesSomeone ==
  lines # <<>> /\ ~closed => token \/ \E s \in Subscribers : UpToDate(s)

(* Close unblocks every subscriber, and each of them ends its stream.      *)
CloseEndsStreams ==
  \A s \in Subscribers : closed /\ pc[s] # "idle" ~> pc[s] = "end"

Gets(s, n) ==
  Len(lines) >= n /\ pc[s] # "idle" ~> Len(sent[s]) >= n \/ cancelled[s]

(* A subscriber that has the buffer to itself is sent every line, whether  *)
(* or not the buffer is ever closed: no signal of Write is lost to it.     *)
LoneSubscriberGetsEveryLine ==
  \A s \in Subscribers :
    [](\A t \in Subscribers \ {s} : pc[t] = "idle") =>
      \A n \in 1 .. MaxLines : Gets(s, n)

(* "Write appends a log line to the buffer and notifies any waiting        *)
(* subscribers" (buffer.go:26): a line written while clients are connected *)
(* reaches each of them without waiting for the buffer to be closed.       *)
EveryLineReachesEverySubscriber ==
  \A s \in Subscribers : \A n \in 1 .. MaxLines : Gets(s, n)

(* Refinement: sent is what the stream has delivered. *)
Stream == INSTANCE LogStream WITH
  phase <- [s \in Subscribers |->
              IF pc[s] = "idle" THEN "idle"
              ELSE IF pc[s] = "end" THEN "ended" ELSE "open"],
  gone <- cancelled,
  delivered <- sent

(* The buffer with its goroutines implements the log stream of LogStream.  *)
ImplementsStream == Stream!Spec

=============================================================================
