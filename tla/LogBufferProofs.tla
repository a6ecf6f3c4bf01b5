--------------------------- MODULE LogBufferProofs --------------------------
(***************************************************************************)
(* Proofs about LogBuffer, for any number of subscribers, any channel      *)
(* capacity and any number of lines.                                       *)
(***************************************************************************)
EXTENDS LogBuffer, TLAPS

(* Where subscriber s stands.  Between two slices pos counts the lines     *)
(* sent; inside a slice the next line is the one after the last sent; the  *)
(* drain loop, which leaves pos behind, runs only on a closed buffer.      *)
Cursor(s) ==
  /\ hi[s] <= Len(lines)
  /\ pc[s] \notin {"drain", "end"} => Len(sent[s]) = pos[s]
  /\ pc[s] \in {"send", "drain"} =>
       next[s] = Len(sent[s]) + 1 /\ next[s] <= hi[s] + 1
  /\ pc[s] = "send" /\ seen[s] => closed /\ hi[s] = Len(lines)
  /\ pc[s] = "drainRead" => closed
  /\ pc[s] = "drain" => closed /\ hi[s] = Len(lines)

Cursors == \A s \in Subscribers : Cursor(s)

(* The inductive invariant. *)
IInv == TypeOK /\ Cursors /\ InOrder /\ CompleteAtEnd

(* NewLogBuffer starts in a state of the inductive invariant.              *)
LEMMA InitIInv == Init => IInv
<1> SUFFICES ASSUME Init PROVE IInv
  OBVIOUS
<1>1. TypeOK
  <2>1. <<>> \in Seq(Lines) /\ Len(<<>>) = 0
    OBVIOUS
  <2>2. \A s \in Subscribers :
          recv[s] <= Len(sent[s]) /\ Len(sent[s]) <= recv[s] + ChanCap
    BY BufferConstants DEF Init
  <2>3. /\ lines \in Seq(Lines)
        /\ sent \in [Subscribers -> Seq(Lines)]
    BY <2>1 DEF Init
  <2>4. /\ pos \in [Subscribers -> Nat]
        /\ next \in [Subscribers -> Nat \ {0}]
        /\ hi \in [Subscribers -> Nat]
        /\ recv \in [Subscribers -> Nat]
    BY DEF Init
  <2>5. /\ closed \in BOOLEAN /\ token \in BOOLEAN
        /\ pc \in [Subscribers -> PCs]
        /\ seen \in [Subscribers -> BOOLEAN]
        /\ cancelled \in [Subscribers -> BOOLEAN]
    BY DEF Init, PCs
  <2> QED BY <2>2, <2>3, <2>4, <2>5 DEF TypeOK
<1>2. Cursors
  BY DEF Init, Cursors, Cursor
<1>3. InOrder /\ CompleteAtEnd
  BY DEF Init, InOrder, CompleteAtEnd
<1> QED BY <1>1, <1>2, <1>3 DEF IInv

(* Write appends under the lock, and only to an open buffer: no slice that *)
(* was taken with closed set can become too short.                         *)
LEMMA WriteIInv == ASSUME IInv, NEW l \in Lines, Write(l) PROVE IInv'
<1> USE DEF IInv
<1>1. CASE closed /\ UNCHANGED bufVars
  BY <1>1 DEF Write, bufVars, TypeOK, Cursors, Cursor, InOrder, CompleteAtEnd
<1>2. CASE ~closed /\ lines' = Append(lines, l) /\ token' = TRUE /\ UNCHANGED closed
  <2>1. UNCHANGED <<pc, pos, next, hi, seen, sent, recv, cancelled>>
    BY DEF Write
  <2>2. /\ lines' \in Seq(Lines) /\ Len(lines') = Len(lines) + 1
        /\ \A i \in 1 .. Len(lines) : lines'[i] = lines[i]
    BY <1>2 DEF TypeOK
  <2>3. TypeOK'
    BY <1>2, <2>1, <2>2 DEF TypeOK
  <2>4. Cursors'
    BY <1>2, <2>1, <2>2 DEF Cursors, Cursor, TypeOK
  <2>5. InOrder'
    <3> SUFFICES ASSUME NEW t \in Subscribers
                 PROVE  /\ Len(sent[t]) <= Len(lines')
                        /\ \A i \in 1 .. Len(sent[t]) : sent[t][i] = lines'[i]
      BY <2>1 DEF InOrder
    <3>1. Len(sent[t]) \in Nat /\ Len(lines) \in Nat /\ Len(sent[t]) <= Len(lines)
      BY DEF TypeOK, InOrder
    <3>2. \A i \in 1 .. Len(sent[t]) : i \in 1 .. Len(lines) /\ sent[t][i] = lines[i]
      BY <3>1 DEF InOrder
    <3> QED BY <3>1, <3>2, <2>2
  <2>6. CompleteAtEnd'
    BY <1>2, <2>1, <2>2 DEF CompleteAtEnd, TypeOK
  <2> QED BY <2>3, <2>4, <2>5, <2>6
<1> QED BY <1>1, <1>2 DEF Write

(* Close changes nothing but the flag.                                     *)
LEMMA CloseIInv == ASSUME IInv, Close PROVE IInv'
BY DEF IInv, Close, TypeOK, Cursors, Cursor, InOrder, CompleteAtEnd

(* A step of a subscriber's goroutine, one case per action.                *)
LEMMA GoroutineIInv ==
  ASSUME IInv, NEW s \in Subscribers, Goroutine(s) PROVE IInv'
<1> USE DEF IInv
<1>0. TypeOK /\ Cursor(s)
  BY DEF Cursors
<1>1. CASE ReadLines(s)
  <2>1. TypeOK'
    BY <1>1 DEF ReadLines, Goto, bufVars, consumerVars, TypeOK, PCs
  <2>2. Cursors'
    BY <1>1 DEF ReadLines, Goto, bufVars, consumerVars, TypeOK, Cursors, Cursor, InOrder
  <2>3. InOrder' /\ CompleteAtEnd'
    BY <1>1 DEF ReadLines, Goto, bufVars, consumerVars, TypeOK, InOrder, CompleteAtEnd
  <2> QED BY <2>1, <2>2, <2>3
<1>2. CASE Send(s)
  <2> DEFINE l == lines[next[s]]
  <2>1. /\ l \in Lines
        /\ next[s] = Len(sent[s]) + 1 /\ next[s] <= Len(lines)
        /\ Len(sent[s]) < recv[s] + ChanCap
    BY <1>0, <1>2, BufferConstants DEF Send, HasRoom, Cursor, TypeOK
  <2>2. /\ sent'[s] = Append(sent[s], l)
        /\ \A t \in Subscribers \ {s} : sent'[t] = sent[t]
        /\ sent' \in [Subscribers -> Seq(Lines)]
    BY <1>2, <2>1 DEF Send, TypeOK
  <2>3. /\ Len(sent'[s]) = Len(sent[s]) + 1
        /\ sent'[s][Len(sent[s]) + 1] = l
        /\ \A i \in 1 .. Len(sent[s]) : sent'[s][i] = sent[s][i]
    BY <2>1, <2>2 DEF TypeOK
  <2>4. TypeOK'
    <3>1. \A t \in Subscribers :
            recv[t] <= Len(sent'[t]) /\ Len(sent'[t]) <= recv[t] + ChanCap
      <4> TAKE t \in Subscribers
      <4>1. CASE t = s
        <5>1. /\ recv[s] \in Nat /\ Len(sent[s]) \in Nat /\ ChanCap \in Nat
              /\ recv[s] <= Len(sent[s])
          BY BufferConstants DEF TypeOK
        <5> QED BY <4>1, <5>1, <2>1, <2>3
      <4>2. CASE t # s
        BY <4>2, <2>2 DEF TypeOK
      <4> QED BY <4>1, <4>2
    <3>2. /\ next' \in [Subscribers -> Nat \ {0}]
          /\ pos' \in [Subscribers -> Nat]
      BY <1>2 DEF Send, TypeOK
    <3> QED
      BY <1>2, <2>2, <3>1, <3>2 DEF Send, bufVars, consumerVars, TypeOK
  <2>5. Cursors'
    <3> SUFFICES ASSUME NEW t \in Subscribers PROVE Cursor(t)'
      BY DEF Cursors
    <3>0. Cursor(t)
      BY DEF Cursors
    <3>1. CASE t = s
      <4>1. /\ next'[s] = next[s] + 1 /\ pos'[s] = pos[s] + 1
            /\ pc'[s] = "send" /\ hi'[s] = hi[s] /\ seen'[s] = seen[s]
            /\ lines' = lines /\ closed' = closed
            /\ pc[s] = "send" /\ next[s] <= hi[s]
        BY <1>2 DEF Send, bufVars, TypeOK
      <4>2. next[s] \in Nat /\ pos[s] \in Nat /\ hi[s] \in Nat
            /\ Len(sent[s]) \in Nat
        BY DEF TypeOK
      <4> QED BY <1>0, <3>1, <4>1, <4>2, <2>1, <2>3 DEF Cursor
    <3>2. CASE t # s
      <4>1. /\ next'[t] = next[t] /\ pos'[t] = pos[t] /\ pc'[t] = pc[t]
            /\ hi'[t] = hi[t] /\ seen'[t] = seen[t] /\ sent'[t] = sent[t]
            /\ lines' = lines /\ closed' = closed
        BY <1>2, <2>2, <3>2 DEF Send, bufVars, TypeOK
      <4> QED BY <3>0, <4>1 DEF Cursor
    <3> QED BY <3>1, <3>2
  <2>6. InOrder'
    <3> SUFFICES ASSUME NEW t \in Subscribers
                 PROVE  /\ Len(sent'[t]) <= Len(lines)
                        /\ \A i \in 1 .. Len(sent'[t]) : sent'[t][i] = lines[i]
      BY <1>2 DEF Send, bufVars, InOrder
    <3>1. CASE t = s
      <4>1. Len(sent[s]) \in Nat /\ Len(lines) \in Nat
        BY DEF TypeOK
      <4>2. ASSUME NEW i \in 1 .. Len(sent[s]) + 1
            PROVE  sent'[s][i] = lines[i]
        <5>1. CASE i = Len(sent[s]) + 1
          BY <5>1, <2>1, <2>3
        <5>2. CASE i \in 1 .. Len(sent[s])
          BY <5>2, <2>3 DEF InOrder
        <5> QED BY <5>1, <5>2, <4>1
      <4> QED BY <3>1, <4>1, <4>2, <2>1, <2>3
    <3>2. CASE t # s
      BY <3>2, <2>2 DEF InOrder
    <3> QED BY <3>1, <3>2
  <2>7. CompleteAtEnd'
    BY <1>2, <2>2 DEF Send, bufVars, consumerVars, CompleteAtEnd
  <2> QED BY <2>4, <2>5, <2>6, <2>7
<1>3. CASE CheckClosed(s)
  <2>1. TypeOK'
    BY <1>3 DEF CheckClosed, Goto, bufVars, consumerVars, TypeOK, PCs
  <2>2. Cursors'
    BY <1>3 DEF CheckClosed, Goto, bufVars, consumerVars, TypeOK, Cursors, Cursor
  <2>3. InOrder' /\ CompleteAtEnd'
    BY <1>0, <1>3 DEF CheckClosed, Goto, bufVars, consumerVars, TypeOK, Cursor,
                      InOrder, CompleteAtEnd
  <2> QED BY <2>1, <2>2, <2>3
<1>4. CASE TakeToken(s)
  <2>1. TypeOK'
    BY <1>4 DEF TakeToken, Goto, consumerVars, TypeOK, PCs
  <2>2. Cursors'
    BY <1>4 DEF TakeToken, Goto, consumerVars, TypeOK, Cursors, Cursor
  <2>3. InOrder' /\ CompleteAtEnd'
    BY <1>4 DEF TakeToken, Goto, consumerVars, TypeOK, InOrder, CompleteAtEnd
  <2> QED BY <2>1, <2>2, <2>3
<1>5. CASE SeeClose(s)
  <2>1. TypeOK'
    BY <1>5 DEF SeeClose, Goto, bufVars, consumerVars, TypeOK, PCs
  <2>2. Cursors'
    BY <1>5 DEF SeeClose, Goto, bufVars, consumerVars, TypeOK, Cursors, Cursor
  <2>3. InOrder' /\ CompleteAtEnd'
    BY <1>5 DEF SeeClose, Goto, bufVars, consumerVars, TypeOK, InOrder, CompleteAtEnd
  <2> QED BY <2>1, <2>2, <2>3
<1>6. CASE DrainRead(s)
  <2>1. TypeOK'
    BY <1>6 DEF DrainRead, Goto, bufVars, consumerVars, TypeOK, PCs
  <2>2. Cursors'
    BY <1>6 DEF DrainRead, Goto, bufVars, consumerVars, TypeOK, Cursors, Cursor, InOrder
  <2>3. InOrder' /\ CompleteAtEnd'
    BY <1>6 DEF DrainRead, Goto, bufVars, consumerVars, TypeOK, InOrder, CompleteAtEnd
  <2> QED BY <2>1, <2>2, <2>3
<1>7. CASE DrainSend(s)
  <2> DEFINE l == lines[next[s]]
  <2>1. /\ l \in Lines
        /\ next[s] = Len(sent[s]) + 1 /\ next[s] <= Len(lines)
        /\ Len(sent[s]) < recv[s] + ChanCap
    BY <1>0, <1>7, BufferConstants DEF DrainSend, HasRoom, Cursor, TypeOK
  <2>2. /\ sent'[s] = Append(sent[s], l)
        /\ \A t \in Subscribers \ {s} : sent'[t] = sent[t]
        /\ sent' \in [Subscribers -> Seq(Lines)]
    BY <1>7, <2>1 DEF DrainSend, TypeOK
  <2>3. /\ Len(sent'[s]) = Len(sent[s]) + 1
        /\ sent'[s][Len(sent[s]) + 1] = l
        /\ \A i \in 1 .. Len(sent[s]) : sent'[s][i] = sent[s][i]
    BY <2>1, <2>2 DEF TypeOK
  <2>4. TypeOK'
    <3>1. \A t \in Subscribers :
            recv[t] <= Len(sent'[t]) /\ Len(sent'[t]) <= recv[t] + ChanCap
      <4> TAKE t \in Subscribers
      <4>1. CASE t = s
        <5>1. /\ recv[s] \in Nat /\ Len(sent[s]) \in Nat /\ ChanCap \in Nat
              /\ recv[s] <= Len(sent[s])
          BY BufferConstants DEF TypeOK
        <5> QED BY <4>1, <5>1, <2>1, <2>3
      <4>2. CASE t # s
        BY <4>2, <2>2 DEF TypeOK
      <4> QED BY <4>1, <4>2
    <3>2. next' \in [Subscribers -> Nat \ {0}]
      BY <1>7 DEF DrainSend, TypeOK
    <3> QED
      BY <1>7, <2>2, <3>1, <3>2 DEF DrainSend, bufVars, consumerVars, TypeOK
  <2>5. Cursors'
    <3> SUFFICES ASSUME NEW t \in Subscribers PROVE Cursor(t)'
      BY DEF Cursors
    <3>0. Cursor(t)
      BY DEF Cursors
    <3>1. CASE t = s
      <4>1. /\ next'[s] = next[s] + 1 /\ pc'[s] = "drain" /\ hi'[s] = hi[s]
            /\ lines' = lines /\ closed' = closed
            /\ pc[s] = "drain" /\ next[s] <= hi[s]
        BY <1>7 DEF DrainSend, bufVars, TypeOK
      <4>2. next[s] \in Nat /\ hi[s] \in Nat /\ Len(sent[s]) \in Nat
        BY DEF TypeOK
      <4> QED BY <1>0, <3>1, <4>1, <4>2, <2>1, <2>3 DEF Cursor
    <3>2. CASE t # s
      <4>1. /\ next'[t] = next[t] /\ pos'[t] = pos[t] /\ pc'[t] = pc[t]
            /\ hi'[t] = hi[t] /\ seen'[t] = seen[t] /\ sent'[t] = sent[t]
            /\ lines' = lines /\ closed' = closed
        BY <1>7, <2>2, <3>2 DEF DrainSend, bufVars, TypeOK
      <4> QED BY <3>0, <4>1 DEF Cursor
    <3> QED BY <3>1, <3>2
  <2>6. InOrder'
    <3> SUFFICES ASSUME NEW t \in Subscribers
                 PROVE  /\ Len(sent'[t]) <= Len(lines)
                        /\ \A i \in 1 .. Len(sent'[t]) : sent'[t][i] = lines[i]
      BY <1>7 DEF DrainSend, bufVars, InOrder
    <3>1. CASE t = s
      <4>1. Len(sent[s]) \in Nat /\ Len(lines) \in Nat
        BY DEF TypeOK
      <4>2. ASSUME NEW i \in 1 .. Len(sent[s]) + 1
            PROVE  sent'[s][i] = lines[i]
        <5>1. CASE i = Len(sent[s]) + 1
          BY <5>1, <2>1, <2>3
        <5>2. CASE i \in 1 .. Len(sent[s])
          BY <5>2, <2>3 DEF InOrder
        <5> QED BY <5>1, <5>2, <4>1
      <4> QED BY <3>1, <4>1, <4>2, <2>1, <2>3
    <3>2. CASE t # s
      BY <3>2, <2>2 DEF InOrder
    <3> QED BY <3>1, <3>2
  <2>7. CompleteAtEnd'
    BY <1>7, <2>2 DEF DrainSend, bufVars, consumerVars, CompleteAtEnd
  <2> QED BY <2>4, <2>5, <2>6, <2>7
<1>8. CASE DrainEnd(s)
  <2>1. TypeOK'
    BY <1>8 DEF DrainEnd, Goto, bufVars, consumerVars, TypeOK, PCs
  <2>2. Cursors'
    BY <1>8 DEF DrainEnd, Goto, bufVars, consumerVars, TypeOK, Cursors, Cursor
  <2>3. InOrder' /\ CompleteAtEnd'
    BY <1>0, <1>8 DEF DrainEnd, Goto, bufVars, consumerVars, TypeOK, Cursor,
                      InOrder, CompleteAtEnd
  <2> QED BY <2>1, <2>2, <2>3
<1>9. CASE StopOnCancel(s)
  <2>1. TypeOK'
    BY <1>9 DEF StopOnCancel, Goto, bufVars, consumerVars, TypeOK, PCs
  <2>2. Cursors'
    BY <1>9 DEF StopOnCancel, Goto, bufVars, consumerVars, TypeOK, Cursors, Cursor
  <2>3. InOrder' /\ CompleteAtEnd'
    BY <1>9 DEF StopOnCancel, Goto, bufVars, consumerVars, TypeOK, InOrder, CompleteAtEnd
  <2> QED BY <2>1, <2>2, <2>3
<1> QED
  BY <1>1, <1>2, <1>3, <1>4, <1>5, <1>6, <1>7, <1>8, <1>9 DEF Goroutine

(* Opening a stream, taking a line from it and disconnecting.              *)
LEMMA ConsumerIInv ==
  ASSUME IInv, NEW s \in Subscribers, Subscribe(s) \/ Receive(s) \/ Disconnect(s)
  PROVE  IInv'
<1> USE DEF IInv
<1>1. CASE Subscribe(s)
  <2>1. TypeOK'
    BY <1>1 DEF Subscribe, Goto, bufVars, consumerVars, TypeOK, PCs
  <2>2. Cursors'
    BY <1>1 DEF Subscribe, Goto, bufVars, consumerVars, TypeOK, Cursors, Cursor
  <2>3. InOrder' /\ CompleteAtEnd'
    BY <1>1 DEF Subscribe, Goto, bufVars, consumerVars, TypeOK, InOrder, CompleteAtEnd
  <2> QED BY <2>1, <2>2, <2>3
<1>2. CASE Receive(s)
  <2>1. TypeOK'
    BY <1>2, BufferConstants DEF Receive, bufVars, TypeOK
  <2>2. Cursors' /\ InOrder' /\ CompleteAtEnd'
    BY <1>2 DEF Receive, bufVars, Cursors, Cursor, InOrder, CompleteAtEnd
  <2> QED BY <2>1, <2>2
<1>3. CASE Disconnect(s)
  <2>1. TypeOK'
    BY <1>3 DEF Disconnect, bufVars, TypeOK
  <2>2. Cursors' /\ InOrder' /\ CompleteAtEnd'
    BY <1>3 DEF Disconnect, bufVars, TypeOK, Cursors, Cursor, InOrder, CompleteAtEnd
  <2> QED BY <2>1, <2>2
<1> QED BY <1>1, <1>2, <1>3

(* IInv is an invariant of every behaviour.                                *)
LEMMA Invariance == Spec => []IInv
<1>1. IInv /\ [Next]_vars => IInv'
  <2> SUFFICES ASSUME IInv, [Next]_vars PROVE IInv'
    OBVIOUS
  <2>1. CASE Next
    BY <2>1, WriteIInv, CloseIInv, GoroutineIInv, ConsumerIInv DEF Next
  <2>2. CASE UNCHANGED vars
    BY <2>2 DEF vars, IInv, TypeOK, Cursors, Cursor, InOrder, CompleteAtEnd
  <2> QED BY <2>1, <2>2
<1> QED BY <1>1, InitIInv, PTL DEF Spec

(* Every state keeps its type, and no channel overflows its capacity.      *)
THEOREM TypeCorrect == Spec => []TypeOK
BY Invariance, PTL DEF IInv

(* No subscriber ever receives a line twice, out of order or with a gap.   *)
THEOREM StreamsInOrder == Spec => []InOrder
BY Invariance, PTL DEF IInv

(* A stream that ends on its own has delivered the whole closed log.       *)
THEOREM StreamsComplete == Spec => []CompleteAtEnd
BY Invariance, PTL DEF IInv

-----------------------------------------------------------------------------
(* The one token is always in the channel or in good hands: whoever takes  *)
(* it goes on to read everything written before.                           *)
THEOREM WakeupNeverLost == Spec => []WakeupReachesSomeone
<1> DEFINE W == WakeupReachesSomeone
<1>1. Init => W
  BY DEF Init, WakeupReachesSomeone
<1>2. TypeOK /\ W /\ [Next]_vars => W'
  <2> SUFFICES ASSUME TypeOK, W, [Next]_vars, ~closed', ~token', lines' # <<>>
               PROVE  \E s \in Subscribers : UpToDate(s)'
    BY DEF WakeupReachesSomeone
  <2>1. ASSUME NEW l \in Lines, Write(l)
        PROVE  \E s \in Subscribers : UpToDate(s)'
    BY <2>1 DEF Write, bufVars, WakeupReachesSomeone, UpToDate
  <2>2. CASE Close
    BY <2>2 DEF Close
  <2>3. ASSUME NEW s \in Subscribers,
               Subscribe(s) \/ Goroutine(s) \/ Receive(s) \/ Disconnect(s)
        PROVE  \E t \in Subscribers : UpToDate(t)'
    <3>1. CASE TakeToken(s)
      BY <3>1 DEF TakeToken, Goto, UpToDate, TypeOK
    <3>2. CASE ~TakeToken(s)
      <4>1. PICK t \in Subscribers : UpToDate(t)
        BY <2>3, <3>2
           DEF WakeupReachesSomeone, Subscribe, Goroutine, ReadLines, Send, CheckClosed,
               SeeClose, DrainRead, DrainSend, DrainEnd, StopOnCancel, Receive,
               Disconnect, bufVars
      <4>2. UpToDate(t)'
        <5>1. CASE ReadLines(s) \/ DrainRead(s)
          <6>1. /\ lines' = lines
                /\ hi' = [hi EXCEPT ![s] = Len(lines)]
                /\ \E label \in {"send", "drain"} : pc' = [pc EXCEPT ![s] = label]
            BY <5>1 DEF ReadLines, DrainRead, bufVars, Goto
          <6>2. CASE t = s
            BY <6>1, <6>2 DEF UpToDate, TypeOK
          <6>3. CASE t # s
            BY <4>1, <6>1, <6>3 DEF UpToDate, TypeOK
          <6> QED BY <6>2, <6>3
        <5>2. CASE Send(s) \/ DrainSend(s) \/ Receive(s) \/ Disconnect(s)
          BY <4>1, <5>2 DEF UpToDate, Send, DrainSend, Receive, Disconnect, bufVars
        <5>3. CASE Subscribe(s) \/ CheckClosed(s) \/ SeeClose(s)
          BY <4>1, <5>3 DEF UpToDate, Subscribe, CheckClosed, SeeClose, bufVars,
                            Goto, TypeOK
        <5>4. CASE DrainEnd(s) \/ StopOnCancel(s)
          BY <4>1, <5>4 DEF UpToDate, DrainEnd, StopOnCancel, bufVars, Goto, TypeOK
        <5> QED BY <2>3, <3>2, <5>1, <5>2, <5>3, <5>4 DEF Goroutine
      <4> QED BY <4>2
    <3> QED BY <3>1, <3>2
  <2>4. CASE UNCHANGED vars
    BY <2>4 DEF vars, WakeupReachesSomeone, UpToDate
  <2> QED BY <2>1, <2>2, <2>3, <2>4 DEF Next
<1> QED BY <1>1, <1>2, TypeCorrect, PTL DEF Spec

-----------------------------------------------------------------------------
(* The refinement of LogStream.                                            *)

Phase == [s \in Subscribers |->
            IF pc[s] = "idle" THEN "idle"
            ELSE IF pc[s] = "end" THEN "ended" ELSE "open"]

(* Two prefixes of the log of the same length are the same.                *)
LEMMA WholeLog ==
  ASSUME TypeOK, InOrder, NEW s \in Subscribers, Len(sent[s]) = Len(lines)
  PROVE  sent[s] = lines
<1>1. sent[s] \in Seq(Lines) /\ lines \in Seq(Lines)
  BY DEF TypeOK
<1>2. \A i \in 1 .. Len(lines) : sent[s][i] = lines[i]
  BY DEF InOrder
<1> QED BY <1>1, <1>2

(* Sending line next[s] is the delivery of the first line not delivered.   *)
LEMMA SendDelivers ==
  ASSUME IInv, NEW s \in Subscribers, Send(s) \/ DrainSend(s)
  PROVE  Stream!Deliver(s)
<1>1. /\ next[s] = Len(sent[s]) + 1 /\ next[s] <= hi[s] /\ hi[s] <= Len(lines)
      /\ Phase[s] = "open"
  BY DEF IInv, Cursors, Cursor, Send, DrainSend, Phase
<1>2. Len(sent[s]) < Len(lines)
  BY <1>1 DEF IInv, TypeOK
<1>3. /\ sent' = [sent EXCEPT ![s] = Append(sent[s], lines[Len(sent[s]) + 1])]
      /\ UNCHANGED <<lines, closed, pc, cancelled>>
  BY <1>1 DEF Send, DrainSend, bufVars, consumerVars
<1> QED BY <1>1, <1>2, <1>3 DEF Stream!Deliver, Phase

(* A goroutine that stops ends its stream for one of the allowed reasons.  *)
LEMMA StopEnds ==
  ASSUME IInv, NEW s \in Subscribers, pc[s] \notin {"idle", "end"},
         Goto(s, "end"), UNCHANGED <<lines, closed, sent, cancelled>>,
         cancelled[s] \/ (closed /\ Len(sent[s]) = Len(lines))
  PROVE  Stream!End(s)
<1>1. cancelled[s] \/ (closed /\ sent[s] = lines)
  BY WholeLog DEF IInv
<1>2. Phase' = [Phase EXCEPT ![s] = "ended"]
  BY DEF Phase, Goto, IInv, TypeOK
<1>3. Phase[s] = "open"
  BY DEF Phase
<1> QED BY <1>1, <1>2, <1>3 DEF Stream!End, Phase

(* Every other step of the goroutine is invisible to the stream.           *)
LEMMA StepStutters ==
  ASSUME IInv, NEW s \in Subscribers, pc[s] \notin {"idle", "end"},
         NEW label \in {"read", "send", "wait", "drainRead", "drain"},
         Goto(s, label), UNCHANGED <<lines, closed, sent, cancelled>>
  PROVE  UNCHANGED Stream!streamVars
<1>1. Phase' = Phase
  BY DEF Phase, Goto, IInv, TypeOK
<1> QED BY <1>1 DEF Stream!streamVars, Phase

(* LogBuffer implements LogStream: each critical section, send or wakeup   *)
(* of a goroutine is one step of the abstract stream, or none.             *)
THEOREM BufferImplementsStream == Spec => ImplementsStream
<1>1. Init => Stream!Init
  BY DEF Init, Stream!Init
<1>2. IInv /\ [Next]_vars => [Stream!Next]_(Stream!streamVars)
  <2> SUFFICES ASSUME IInv, [Next]_vars
               PROVE  Stream!Next \/ UNCHANGED Stream!streamVars
    OBVIOUS
  <2>1. ASSUME NEW l \in Lines, Write(l)
        PROVE  Stream!Publish \/ UNCHANGED Stream!streamVars
    BY <2>1 DEF Write, bufVars, Stream!Publish, Stream!streamVars
  <2>2. CASE Close
    <3>1. CASE closed
      BY <2>2, <3>1 DEF Close, Stream!streamVars, IInv, TypeOK
    <3>2. CASE ~closed
      BY <2>2, <3>2 DEF Close, Stream!Finish, Stream!Next
    <3> QED BY <3>1, <3>2
  <2>3. ASSUME NEW s \in Subscribers, Goroutine(s)
        PROVE  Stream!Next \/ UNCHANGED Stream!streamVars
    <3>1. CASE ReadLines(s) \/ TakeToken(s) \/ SeeClose(s) \/ DrainRead(s)
      BY <3>1, StepStutters DEF ReadLines, TakeToken, SeeClose, DrainRead,
                                bufVars, consumerVars
    <3>2. CASE Send(s) \/ DrainSend(s)
      BY <3>2, SendDelivers DEF Stream!Next
    <3>3. CASE CheckClosed(s) \/ DrainEnd(s) \/ StopOnCancel(s)
      <4>1. CASE CheckClosed(s) /\ ~seen[s]
        BY <4>1, StepStutters DEF CheckClosed, bufVars, consumerVars
      <4>2. CASE CheckClosed(s) /\ seen[s]
        <5>1. closed /\ Len(sent[s]) = Len(lines)
          BY <4>2 DEF CheckClosed, IInv, TypeOK, Cursors, Cursor
        <5> QED BY <4>2, <5>1, StopEnds DEF CheckClosed, bufVars, consumerVars, Stream!Next
      <4>3. CASE DrainEnd(s)
        <5>1. closed /\ Len(sent[s]) = Len(lines)
          BY <4>3 DEF DrainEnd, IInv, TypeOK, Cursors, Cursor
        <5> QED BY <4>3, <5>1, StopEnds DEF DrainEnd, bufVars, consumerVars, Stream!Next
      <4>4. CASE StopOnCancel(s)
        BY <4>4, StopEnds DEF StopOnCancel, bufVars, consumerVars, Stream!Next
      <4> QED BY <3>3, <4>1, <4>2, <4>3, <4>4
    <3> QED BY <2>3, <3>1, <3>2, <3>3 DEF Goroutine
  <2>4. ASSUME NEW s \in Subscribers, Subscribe(s)
        PROVE  Stream!Open(s)
    <3>1. Phase[s] = "idle" /\ Phase' = [Phase EXCEPT ![s] = "open"]
      BY <2>4 DEF Subscribe, Goto, Phase, IInv, TypeOK
    <3> QED BY <2>4, <3>1 DEF Subscribe, bufVars, consumerVars, Stream!Open, Phase
  <2>5. ASSUME NEW s \in Subscribers, Receive(s)
        PROVE  UNCHANGED Stream!streamVars
    BY <2>5 DEF Receive, bufVars, Stream!streamVars
  <2>6. ASSUME NEW s \in Subscribers, Disconnect(s)
        PROVE  Stream!Abandon(s)
    BY <2>6 DEF Disconnect, bufVars, Stream!Abandon
  <2>7. CASE UNCHANGED vars
    BY <2>7 DEF vars, Stream!streamVars
  <2> QED BY <2>1, <2>2, <2>3, <2>4, <2>5, <2>6, <2>7 DEF Next, Stream!Next
<1> QED BY <1>1, <1>2, Invariance, PTL DEF Spec, ImplementsStream, Stream!Spec

=============================================================================
