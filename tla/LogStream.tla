----------------------------- MODULE LogStream ------------------------------
(***************************************************************************)
(* What pkg/stream promises to its callers, without the mutex, the notify  *)
(* channel or the subscriber goroutines: an append-only log that is closed *)
(* once, and any number of streams over it.  A stream hands out the log    *)
(* from its beginning, in order and without gaps, and it may only end when *)
(* the log is closed and fully handed out, or when its reader has gone.    *)
(***************************************************************************)
EXTENDS Naturals, Sequences

CONSTANTS
  Lines,        \* what a log line may hold
  Subscribers   \* the streams that may be opened

VARIABLES
  lines,        \* the log
  closed,       \* no further line will be accepted
  phase,        \* per stream: "idle", "open" or "ended"
  gone,         \* per stream: the reader has given up
  delivered     \* per stream: the lines handed out so far

streamVars == <<lines, closed, phase, gone, delivered>>

Init ==
  /\ lines = <<>>
  /\ closed = FALSE
  /\ phase = [s \in Subscribers |-> "idle"]
  /\ gone = [s \in Subscribers |-> FALSE]
  /\ delivered = [s \in Subscribers |-> <<>>]

Publish ==
  /\ ~closed
  /\ \E l \in Lines : lines' = Append(lines, l)
  /\ UNCHANGED <<closed, phase, gone, delivered>>

Finish ==
  /\ ~closed
  /\ closed' = TRUE
  /\ UNCHANGED <<lines, phase, gone, delivered>>

Open(s) ==
  /\ phase[s] = "idle"
  /\ phase' = [phase EXCEPT ![s] = "open"]
  /\ UNCHANGED <<lines, closed, gone, delivered>>

Abandon(s) ==
  /\ ~gone[s]
  /\ gone' = [gone EXCEPT ![s] = TRUE]
  /\ UNCHANGED <<lines, closed, phase, delivered>>

Deliver(s) ==
  /\ phase[s] = "open"
  /\ Len(delivered[s]) < Len(lines)
  /\ delivered' = [delivered EXCEPT ![s] = Append(@, lines[Len(@) + 1])]
  /\ UNCHANGED <<lines, closed, phase, gone>>

End(s) ==
  /\ phase[s] = "open"
  /\ gone[s] \/ (closed /\ delivered[s] = lines)
  /\ phase' = [phase EXCEPT ![s] = "ended"]
  /\ UNCHANGED <<lines, closed, gone, delivered>>

Next ==
  \/ Publish
  \/ Finish
  \/ \E s \in Subscribers : Open(s) \/ Abandon(s) \/ Deliver(s) \/ End(s)

Spec == Init /\ [][Next]_streamVars

=============================================================================
