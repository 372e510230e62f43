--------------------------- MODULE CopyRefinement ---------------------------
(***************************************************************************)
(* With a buffer of any size but 0 the copy implements Pipe, for any ends, *)
(* streams and bounds: proof of CopyBidirectional's ImplementsPipe, step   *)
(* by step.                                                                *)
(***************************************************************************)
EXTENDS CopyProof

\* A direction ends after the end of the stream, with everything written, or
\* because the tunnel is closed; it is closed when it is done.
Ended(d) ==
  /\ copy[d].read_done => conn[d] # "open" /\ read[d] = sent[d]
  /\ copy[d].state # "running" =>
       finish \/ (copy[d].read_done /\ copy[d].pos = copy[d].cap)
  /\ closed[d] <=> copy[d].state = "done"

AllEnded == \A d \in Ends : Ended(d)

-----------------------------------------------------------------------------
(* The ends are told the truth.                                             *)

LEMMA EndedStays ==
  ASSUME NEW d \in Ends, Ended(d), finish => finish', UNCHANGED <<sent, conn>>,
         copy'[d] = copy[d], read'[d] = read[d], closed'[d] = closed[d]
  PROVE  Ended(d)'
BY DEF Ended

\* A read of 0 bytes into a buffer with room is the end of the stream.
LEMMA ReadReadyEnds ==
  ASSUME WorldOK, DataOK, NEW d \in Ends, ReadReady(d), copy[d].cap < BufSize,
         copy'[d].read_done
  PROVE  conn[d] = "eof" /\ read'[d] = sent[d]
<1>0. /\ sent[d] \in Nat /\ read[d] \in Nat /\ read[d] <= sent[d] /\ BufSize \in Nat
      /\ copy[d].cap \in Nat
  BY CopyParts, BufSizeAssumption DEF WorldOK, DataOK, Streams
<1>. DEFINE room == BufSize - copy[d].cap
            more == sent[d] - read[d]
<1>1. PICK n \in 0 .. Least(more, room) :
        /\ n = 0 => BufSize = copy[d].cap \/ (conn[d] = "eof" /\ read[d] = sent[d])
        /\ copy' = [copy EXCEPT ![d] = Filled(@, read[d], n)]
        /\ read' = [read EXCEPT ![d] = @ + n]
  BY DEF ReadReady
<1>2. copy'[d] = Filled(copy[d], read[d], n) /\ read'[d] = read[d] + n
  BY <1>1 DEF DataOK
<1>3. copy'[d].read_done = (n = 0)
  BY <1>2, CopyParts DEF Filled, Transfer
<1>4. n = 0
  BY <1>3
<1>5. BufSize # copy[d].cap
  BY <1>0
<1>. QED
  BY <1>0, <1>1, <1>2, <1>4, <1>5

LEMMA PeerEnds ==
  ASSUME CopyInv, AllEnded, NEW e \in Ends, Peer(e) PROVE AllEnded'
<1>1. UNCHANGED <<copy, read, closed, finish>>
  BY DEF Peer, Send, SendEof, Reset, Take, streamVars
<1>2. ASSUME NEW d \in Ends, conn[d] # "open"
      PROVE  conn'[d] # "open" /\ sent'[d] = sent[d]
  BY <1>2 DEF Peer, Send, SendEof, Reset, Take, peerVars, CopyInv, WorldOK
<1>. QED
  BY <1>1, <1>2 DEF AllEnded, Ended

\* A step inside direction d, by what it does to d.
LEMMA DirectionEnds ==
  ASSUME BufSize # 0, CopyInv, AllEnded, NEW d \in Ends, Direction(d) PROVE AllEnded'
<1>1. DataOK /\ WorldOK /\ UNCHANGED <<sent, conn, finish>> /\ Ended(d)
  BY DEF CopyInv, AllEnded, Direction, PollFinish, Fill, Flush, Write, TopUp, Written,
         LastFlush, Shutdown, Env, peerVars
<1>2. copy[d].pos \in Nat /\ copy[d].cap \in Nat /\ BufSize \in Nat /\ BufSize > 0
      /\ copy[d] \in Transfer
  BY <1>1, CopyParts, BufSizeAssumption
<1>. DEFINE Goal == /\ \A e \in Ends \ {d} : /\ copy'[e] = copy[e] /\ read'[e] = read[e]
                                             /\ closed'[e] = closed[e]
                    /\ Ended(d)'
<1>3. SUFFICES Goal
  BY <1>1, EndedStays DEF AllEnded
<1>4. ASSUME UNCHANGED <<copy, read, closed>> PROVE Goal
  BY <1>1, <1>4, EndedStays
<1>5. ASSUME ReadReady(d), copy[d].cap < BufSize, copy[d].state = "running"
      PROVE  Goal
  <2>1. /\ \A e \in Ends : copy'[e].state = copy[e].state
        /\ \A e \in Ends \ {d} : copy'[e] = copy[e] /\ read'[e] = read[e]
        /\ UNCHANGED closed
    BY <1>1, <1>5, ReadReadyKeeps DEF ReadReady
  <2>2. copy'[d].read_done => conn[d] = "eof" /\ read'[d] = sent[d]
    BY <1>1, <1>5, ReadReadyEnds
  <2>. QED
    BY <1>1, <1>5, <2>1, <2>2 DEF Ended
<1>6. CASE PollFinish(d)
  <2>1. /\ at = At(d, "finish") /\ UNCHANGED <<read, closed>>
        /\ \A e \in Ends \ {d} : copy'[e] = copy[e]
        /\ finish => copy'[d].state = "shutting"
        /\ ~ finish => copy'[d].state = copy[d].state
        /\ copy'[d].read_done = copy[d].read_done
    BY <1>1, <1>2, <1>6 DEF PollFinish, streamVars, DataOK, Transfer
  <2>2. copy[d].state = "running"
    BY <2>1, AtStep DEF Steps
  <2>. QED
    BY <1>1, <2>1, <2>2 DEF Ended
<1>7. CASE Fill(d)
  <2>1. copy[d].state = "running" /\ copy[d].cap < BufSize
    BY <1>2, <1>7, AtStep DEF Fill, Steps
  <2>. QED
    BY <1>4, <1>5, <1>7, <2>1 DEF Fill, ReadPending, Fail, streamVars
<1>8. CASE TopUp(d)
  <2>1. copy[d].state = "running" /\ copy[d].cap < BufSize
    BY <1>2, <1>8, AtStep DEF TopUp, Steps
  <2>. QED
    BY <1>4, <1>5, <1>8, <2>1 DEF TopUp, ReadPending, Fail, streamVars
<1>9. CASE Flush(d)
  <2>1. CASE /\ copy' = [copy EXCEPT ![d].need_flush = FALSE]
             /\ UNCHANGED <<read, closed>>
    <3>1. /\ copy'[d].state = copy[d].state /\ copy'[d].read_done = copy[d].read_done
          /\ copy'[d].pos = copy[d].pos /\ copy'[d].cap = copy[d].cap
          /\ \A e \in Ends \ {d} : copy'[e] = copy[e]
      BY <1>1, <1>2, <2>1 DEF DataOK, Transfer
    <3>. QED
      BY <1>1, <2>1, <3>1 DEF Ended
  <2>. QED
    BY <1>4, <1>9, <2>1 DEF Flush, FlushPending, Fail, streamVars
<1>10. CASE Write(d)
  <2>1. copy[d].state = "running"
    BY <1>10, AtStep DEF Write, Steps
  <2>2. CASE WriteReady(d)
    <3>1. /\ \A e \in Ends : copy'[e].state = copy[e].state
          /\ copy'[d].read_done = copy[d].read_done
          /\ \A e \in Ends \ {d} : copy'[e] = copy[e]
          /\ UNCHANGED <<read, closed>>
      BY <1>1, <2>2, WriteReadyKeeps DEF WriteReady
    <3>. QED
      BY <1>1, <2>1, <3>1 DEF Ended
  <2>. QED
    BY <1>4, <1>10, <2>2 DEF Write, WritePending, Fail, streamVars
<1>11. CASE Written(d)
  BY <1>4, <1>11 DEF Written, streamVars
<1>12. CASE LastFlush(d)
  <2>1. copy[d].state = "running" /\ copy[d].pos = copy[d].cap /\ copy[d].read_done
    BY <1>12, AtStep DEF LastFlush, Steps
  <2>2. CASE /\ copy' = [copy EXCEPT ![d].state = "shutting"]
             /\ UNCHANGED <<read, closed>>
    <3>1. /\ copy'[d].state = "shutting" /\ copy'[d].read_done = copy[d].read_done
          /\ copy'[d].pos = copy[d].pos /\ copy'[d].cap = copy[d].cap
          /\ \A e \in Ends \ {d} : copy'[e] = copy[e]
      BY <1>1, <1>2, <2>2 DEF DataOK, Transfer
    <3>. QED
      BY <1>1, <2>1, <2>2, <3>1 DEF Ended
  <2>. QED
    BY <1>4, <1>12, <2>2 DEF LastFlush, FlushPending, Fail, streamVars
<1>13. CASE Shutdown(d)
  <2>1. copy[d].state = "shutting"
    BY <1>13, AtStep DEF Shutdown, Steps
  <2>2. CASE /\ copy' = [copy EXCEPT ![d].state = "done"]
             /\ closed' = [closed EXCEPT ![d] = TRUE]
             /\ UNCHANGED read
    <3>1. /\ copy'[d].state = "done" /\ copy'[d].read_done = copy[d].read_done
          /\ copy'[d].pos = copy[d].pos /\ copy'[d].cap = copy[d].cap
          /\ closed'[d] = TRUE
          /\ \A e \in Ends \ {d} : copy'[e] = copy[e] /\ closed'[e] = closed[e]
      BY <1>1, <1>2, <2>2 DEF DataOK, Transfer
    <3>. QED
      BY <1>1, <2>1, <2>2, <3>1 DEF Ended
  <2>. QED
    BY <1>4, <1>13, <2>2 DEF Shutdown, FlushPending, Fail, streamVars
<1>. QED
  BY <1>6, <1>7, <1>8, <1>9, <1>10, <1>11, <1>12, <1>13 DEF Direction

LEMMA EndedStep ==
  ASSUME BufSize # 0, CopyInv, AllEnded, [Next]_vars PROVE AllEnded'
<1>1. CASE Poll \/ CloseTunnel \/ UNCHANGED vars
  BY <1>1, EndedStays DEF Poll, CloseTunnel, vars, peerVars, streamVars, AllEnded
<1>2. ASSUME NEW d \in Ends, Direction(d) PROVE AllEnded'
  BY <1>2, DirectionEnds
<1>3. ASSUME NEW e \in Ends, Peer(e) PROVE AllEnded'
  BY <1>3, PeerEnds
<1>. QED
  BY <1>1, <1>2, <1>3 DEF Next, Task

-----------------------------------------------------------------------------
(* What has arrived, as numbers.                                            *)

Numbers(n) == [i \in 1 .. n |-> i]

LEMMA NumbersType ==
  ASSUME NEW n \in Nat
  PROVE  Numbers(n) \in Seq(Nat) /\ Len(Numbers(n)) = n /\ \A i \in 1 .. n : Numbers(n)[i] = i
BY NumbersSeq DEF Numbers

LEMMA NumbersGrow ==
  ASSUME NEW m \in Nat, NEW n \in Nat, m <= n
  PROVE  Numbers(m) \o [i \in 1 .. n - m |-> m + i] = Numbers(n)
<1>. DEFINE new == [i \in 1 .. n - m |-> m + i]
<1>1. /\ new \in Seq(Nat) /\ Len(new) = n - m
      /\ \A i \in 1 .. n - m : new[i] = m + i
  <2>1. n - m \in Nat
    OBVIOUS
  <2>2. new \in [1 .. n - m -> Nat]
    OBVIOUS
  <2>. QED
    BY <2>1, <2>2
<1>. HIDE DEF new
<1>2. /\ Numbers(m) \o new \in Seq(Nat)
      /\ Len(Numbers(m) \o new) = n
      /\ \A i \in 1 .. n : (Numbers(m) \o new)[i] =
                             IF i <= m THEN Numbers(m)[i] ELSE new[i - m]
  <2>. DEFINE old == Numbers(m)
  <2>1. old \in Seq(Nat) /\ Len(old) = m
    BY NumbersType
  <2>. HIDE DEF old
  <2>2. /\ old \o new \in Seq(Nat)
        /\ Len(old \o new) = Len(old) + Len(new)
        /\ \A i \in 1 .. Len(old) + Len(new) :
             (old \o new)[i] = IF i <= Len(old) THEN old[i] ELSE new[i - Len(old)]
    BY <1>1, <2>1, ConcatProperties
  <2>3. Len(old) + Len(new) = n
    BY <1>1, <2>1
  <2>. QED
    BY <2>1, <2>2, <2>3 DEF old
<1>3. \A i \in 1 .. n : (Numbers(m) \o new)[i] = i
  <2>. TAKE i \in 1 .. n
  <2>1. CASE i <= m
    BY <1>2, <2>1, NumbersType
  <2>2. CASE ~ (i <= m)
    <3>1. i - m \in 1 .. n - m /\ m + (i - m) = i
      BY <2>2
    <3>. QED
      BY <1>1, <1>2, <2>2, <3>1
  <2>. QED
    BY <2>1, <2>2
<1>4. Numbers(m) \o new = Numbers(n)
  BY <1>2, <1>3, NumbersType, SeqEqual
<1>. QED
  BY <1>4 DEF new

LEMMA ShownIsNumbers ==
  ASSUME NEW o \in Seq(Nat), NEW v \in Nat, v <= Len(o), \A i \in 1 .. Len(o) : o[i] = i
  PROVE  SubSeq(o, 1, v) = Numbers(v)
<1>. DEFINE first == SubSeq(o, 1, v)
<1>1. /\ first \in Seq(Nat)
      /\ Len(first) = IF 1 <= v THEN v - 1 + 1 ELSE 0
      /\ \A i \in 1 .. v - 1 + 1 : first[i] = o[1 + i - 1]
  <2>1. 1 \in Int /\ v \in Int /\ \A i \in 1 .. v : o[i] \in Nat
    OBVIOUS
  <2>. HIDE DEF first
  <2>. QED
    BY <2>1, SubSeqProperties DEF first
<1>. HIDE DEF first
<1>2. Len(first) = v /\ \A i \in 1 .. v : first[i] = i
  <2>1. \A i \in 1 .. v : first[i] = o[i] /\ o[i] = i
    BY <1>1
  <2>. QED
    BY <1>1, <2>1
<1>3. first = Numbers(v)
  BY <1>1, <1>2, NumbersType, SeqEqual
<1>. QED
  BY <1>3 DEF first

LEMMA ArrivedIsNumbers ==
  /\ DataOK => Arrived = [e \in Ends |-> Numbers(visible[e])]
  /\ DataOK' => Arrived' = [e \in Ends |-> Numbers(visible'[e])]
<1>1. ASSUME DataOK PROVE \A e \in Ends : SubSeq(out[e], 1, visible[e]) = Numbers(visible[e])
  <2>1. ASSUME NEW e \in Ends
        PROVE  /\ out[e] \in Seq(Nat) /\ visible[e] \in Nat /\ visible[e] <= Len(out[e])
               /\ \A i \in 1 .. Len(out[e]) : out[e][i] = i
    BY <1>1 DEF DataOK, Streams, Carried, CarriedBy
  <2>. QED
    BY <2>1, ShownIsNumbers
<1>2. ASSUME DataOK'
      PROVE  \A e \in Ends : SubSeq(out'[e], 1, visible'[e]) = Numbers(visible'[e])
  <2>1. ASSUME NEW e \in Ends
        PROVE  /\ out'[e] \in Seq(Nat) /\ visible'[e] \in Nat /\ visible'[e] <= Len(out'[e])
               /\ \A i \in 1 .. Len(out'[e]) : out'[e][i] = i
    BY <1>2 DEF DataOK, Streams, Carried, CarriedBy
  <2>. QED
    BY <2>1, ShownIsNumbers
<1>. QED
  BY <1>1, <1>2 DEF Arrived

\* Showing the bytes up to v is the arrival of the numbers up to v.
LEMMA ShownArrives ==
  ASSUME DataOK, DataOK', NEW d \in Ends, NEW v \in Nat, visible[d] <= v,
         visible' = [visible EXCEPT ![d] = v]
  PROVE  /\ Arrived' = [Arrived EXCEPT ![d] = @ \o [i \in 1 .. v - Len(@) |-> Len(@) + i]]
         /\ Len(Arrived[d]) = visible[d]
<1>1. /\ Arrived = [e \in Ends |-> Numbers(visible[e])]
      /\ Arrived' = [e \in Ends |-> Numbers(visible'[e])]
  BY ArrivedIsNumbers
<1>2. \A e \in Ends : visible'[e] = IF e = d THEN v ELSE visible[e]
  BY DEF DataOK
<1>3. Arrived[d] = Numbers(visible[d]) /\ Len(Arrived[d]) = visible[d] /\ visible[d] \in Nat
  BY <1>1, CopyParts, NumbersType
<1>. DEFINE more == Arrived[d] \o [i \in 1 .. v - Len(Arrived[d]) |-> Len(Arrived[d]) + i]
<1>4. more = Numbers(v)
  BY <1>3, NumbersGrow
<1>. HIDE DEF more
<1>5. Arrived' = [e \in Ends |-> IF e = d THEN more ELSE Arrived[e]]
  BY <1>1, <1>2, <1>4
<1>6. Arrived' = [Arrived EXCEPT ![d] = more]
  BY <1>1, <1>5
<1>. QED
  BY <1>3, <1>6 DEF more

\* Nothing more is shown, whatever was written.
LEMMA NothingArrives ==
  ASSUME DataOK, DataOK', UNCHANGED visible PROVE UNCHANGED Arrived
BY ArrivedIsNumbers

-----------------------------------------------------------------------------
(* Step by step.                                                            *)

\* The step is one of the pipe or changes nothing of it.
Simulates == P!Next \/ UNCHANGED P!pipeVars

LEMMA SameEnds == P!Ends = Ends
BY DEF P!Ends, Ends

LEMMA StepIsNotOver ==
  ASSUME NEW d \in Ends, NEW s \in Steps \cup {"waiting"}
  PROVE  At(d, s) \notin {Returned, Failed}
BY AtEqual DEF Returned, Failed, Steps

\* Poll does not return while a direction is not done.
LEMMA LeaveIsNotOver ==
  ASSUME NEW c \in [Ends -> Transfer], NEW d \in Ends, NEW e \in Ends, c[e].state # "done"
  PROVE  Leave(d, c) \notin {Returned, Failed}
<1>1. CASE c["b"].state # "done" /\ Leave(d, c) = Entry("b", c)
  BY <1>1, StepIsNotOver DEF Entry, Steps, Ends
<1>2. CASE Leave(d, c) = Waiting
  BY <1>2, StepIsNotOver DEF Waiting, Ends
<1>. QED
  BY <1>1, <1>2, LeavePlaces

LEMMA StutterSimulates ==
  ASSUME DataOK, DataOK', UNCHANGED <<sent, conn, visible, closed, finish>>,
         at \notin {Returned, Failed}, at' \notin {Returned, Failed}
  PROVE  Simulates
BY NothingArrives DEF Simulates, P!pipeVars, IsOver

\* What is shown after a step that sends nothing was read, so it was sent.
LEMMA ShownWasSent ==
  ASSUME DataOK, DataOK', UNCHANGED sent, NEW d \in Ends, sent[d] \in Nat, NEW v \in Nat,
         visible' = [visible EXCEPT ![d] = v]
  PROVE  v <= sent[d] /\ v <= Len(out'[d])
<1>1. visible'[d] = v
  BY DEF DataOK
<1>2. /\ visible'[d] <= Len(out'[d]) /\ read'[d] <= sent[d]
      /\ Len(out'[d]) \in Nat /\ read'[d] \in Nat
      /\ copy'[d].pos \in Nat /\ copy'[d].cap \in Nat /\ copy'[d].pos <= copy'[d].cap
      /\ Len(out'[d]) + (copy'[d].cap - copy'[d].pos) = read'[d]
  BY BufSizeAssumption DEF DataOK, Streams, Carried, CarriedBy, Transfer
<1>3. Len(out'[d]) <= read'[d]
  BY <1>2
<1>. QED
  BY <1>1, <1>2, <1>3

\* Bytes that become visible arrive.
LEMMA ShowSimulates ==
  ASSUME CopyInv, CopyInv', AllEnded, NEW d \in Ends, copy[d].state # "done",
         NEW v \in Nat, visible[d] <= v, visible' = [visible EXCEPT ![d] = v],
         UNCHANGED <<sent, conn, closed, finish>>,
         at \notin {Returned, Failed}, at' \notin {Returned, Failed}
  PROVE  Simulates
<1>0. DataOK /\ DataOK' /\ sent[d] \in Nat
  BY DEF CopyInv, WorldOK
<1>1. CASE v = visible[d]
  <2>1. UNCHANGED visible
    BY <1>0, <1>1 DEF DataOK
  <2>. QED
    BY <1>0, <2>1, StutterSimulates
<1>2. CASE v # visible[d]
  <2>1. /\ Arrived' = [Arrived EXCEPT ![d] = @ \o [i \in 1 .. v - Len(@) |-> Len(@) + i]]
        /\ Len(Arrived[d]) = visible[d]
    BY <1>0, ShownArrives
  <2>2. v <= sent[d]
    BY <1>0, ShownWasSent
  <2>3. v \in Len(Arrived[d]) + 1 .. sent[d]
    <3>1. visible[d] \in Nat
      BY <1>0, CopyParts
    <3>. QED
      BY <1>0, <1>2, <2>1, <2>2, <3>1
  <2>4. ~ closed[d] /\ ~ IsOver /\ ~ IsOver'
    BY DEF AllEnded, Ended, IsOver
  <2>5. UNCHANGED <<sent, conn, closed, finish, IsOver>>
    BY DEF IsOver
  <2>6. P!Arrive(d)
    BY <2>1, <2>3, <2>4, <2>5, Zenon DEF P!Arrive
  <2>. QED
    BY <2>6, SameEnds DEF Simulates, P!Next
<1>. QED
  BY <1>1, <1>2

\* A step inside direction d that goes on there, or leaves it before it is done.
LEMMA GoesOnInside ==
  ASSUME CopyInv, CopyInv', NEW d \in Ends, NEW s \in Steps, at = At(d, s),
         copy'[d].state # "done",
         (\E t \in Steps : at' = At(d, t)) \/ at' = Leave(d, copy) \/ at' = Leave(d, copy'),
         copy[d].state # "done"
  PROVE  at \notin {Returned, Failed} /\ at' \notin {Returned, Failed}
<1>1. at \notin {Returned, Failed}
  BY StepIsNotOver
<1>2. copy \in [Ends -> Transfer] /\ copy' \in [Ends -> Transfer]
  BY DEF CopyInv, DataOK
<1>3. CASE \E t \in Steps : at' = At(d, t)
  BY <1>1, <1>3, StepIsNotOver
<1>4. CASE at' = Leave(d, copy) \/ at' = Leave(d, copy')
  BY <1>1, <1>2, <1>4, LeaveIsNotOver
<1>. QED
  BY <1>3, <1>4

LEMMA FailSimulates ==
  ASSUME CopyInv, CopyInv', NEW d \in Ends, NEW s \in Steps, at = At(d, s),
         ReadFails(d) \/ WriteFails(d), Fail, Env
  PROVE  Simulates
<1>1. at \notin {Returned, Failed}
  BY StepIsNotOver
<1>2. ~ IsOver /\ IsOver'
  BY <1>1 DEF IsOver, Fail
<1>3. IsOver' = TRUE
  BY <1>2 DEF IsOver
<1>4. \E e \in Ends : conn[e] = "reset"
  BY OtherEnd DEF ReadFails, WriteFails
<1>5. UNCHANGED <<sent, conn, closed, finish, Arrived>>
  BY NothingArrives DEF Fail, Env, peerVars, streamVars, CopyInv
<1>6. P!Break
  BY <1>2, <1>3, <1>4, <1>5, SameEnds DEF P!Break
<1>. QED
  BY <1>6 DEF Simulates, P!Next

LEMMA PeerSimulates ==
  ASSUME CopyInv, CopyInv', NEW e \in Ends, Peer(e) PROVE Simulates
<1>1. UNCHANGED <<visible, closed, finish, at>> /\ DataOK /\ DataOK'
  BY DEF Peer, Send, SendEof, Reset, Take, streamVars, CopyInv
<1>2. UNCHANGED <<Arrived, IsOver>>
  BY <1>1, NothingArrives DEF IsOver
<1>3. CASE Send(e)
  BY <1>1, <1>2, <1>3, SameEnds DEF Send, Simulates, P!Next, P!Send
<1>4. CASE SendEof(e)
  BY <1>1, <1>2, <1>4, SameEnds DEF SendEof, Simulates, P!Next, P!SendEof
<1>5. CASE Reset(e)
  BY <1>1, <1>2, <1>5, SameEnds DEF Reset, Simulates, P!Next, P!Reset
<1>6. CASE Take(e)
  BY <1>1, <1>2, <1>6 DEF Take, Simulates, P!pipeVars, peerVars
<1>. QED
  BY <1>3, <1>4, <1>5, <1>6 DEF Peer

LEMMA CloseTunnelSimulates ==
  ASSUME CopyInv, CopyInv', CloseTunnel PROVE Simulates
<1>1. UNCHANGED <<sent, conn, visible, closed, at>> /\ DataOK /\ DataOK' /\ finish' = TRUE
  BY DEF CloseTunnel, streamVars, peerVars, CopyInv
<1>2. UNCHANGED <<Arrived, IsOver>>
  BY <1>1, NothingArrives DEF IsOver
<1>. QED
  BY <1>1, <1>2 DEF Simulates, P!Next, P!CloseTunnel

LEMMA PollSimulates ==
  ASSUME CopyInv, CopyInv', Poll PROVE Simulates
<1>1. /\ UNCHANGED <<sent, conn, visible, closed, finish>> /\ DataOK /\ DataOK'
      /\ at = Waiting
  BY DEF Poll, streamVars, peerVars, CopyInv
<1>2. at' \notin {Returned, Failed}
  BY StepIsNotOver DEF Poll, PollStart, Entry, Steps, Ends
<1>3. at \notin {Returned, Failed}
  BY <1>1, StepIsNotOver DEF Waiting, Ends
<1>. QED
  BY <1>1, <1>2, <1>3, StutterSimulates

\* A step that shows nothing.
LEMMA QuietSimulates ==
  ASSUME CopyInv, CopyInv', NEW d \in Ends, NEW s \in Steps, at = At(d, s),
         UNCHANGED <<sent, conn, visible, closed, finish>>,
         copy'[d].state # "done",
         (\E t \in Steps : at' = At(d, t)) \/ at' = Leave(d, copy) \/ at' = Leave(d, copy')
  PROVE  Simulates
<1>1. copy[d].state # "done"
  BY AtStep
<1>2. at \notin {Returned, Failed} /\ at' \notin {Returned, Failed}
  BY <1>1, GoesOnInside
<1>. QED
  BY <1>2, StutterSimulates DEF CopyInv

LEMMA PollFinishSimulates ==
  ASSUME CopyInv, CopyInv', NEW d \in Ends, PollFinish(d) PROVE Simulates
<1>1. copy[d] \in Transfer /\ copy \in [Ends -> Transfer] /\ at = At(d, "finish")
  BY CopyParts DEF CopyInv, DataOK, PollFinish
<1>2. copy[d].state = "running"
  BY <1>1, AtStep DEF Steps
<1>3. copy'[d].state # "done"
  BY <1>1, <1>2 DEF PollFinish, Transfer
<1>4. UNCHANGED <<sent, conn, visible, closed, finish>>
      /\ \E t \in Steps : at' = At(d, t)
  BY DEF PollFinish, Env, peerVars, streamVars, GoTo, Steps
<1>. QED
  BY <1>1, <1>3, <1>4, QuietSimulates DEF Steps

LEMMA FillSimulates ==
  ASSUME CopyInv, CopyInv', NEW d \in Ends, Fill(d) PROVE Simulates
<1>1. at = At(d, "fill") /\ UNCHANGED <<sent, conn, finish>> /\ Env
  BY DEF Fill, Env, peerVars
<1>2. copy[d].state = "running"
  BY <1>1, AtStep DEF Steps
<1>3. CASE ReadReady(d) /\ GoTo(d, "write")
  <2>1. copy'[d].state = "running" /\ UNCHANGED <<visible, closed>>
    BY <1>1, <1>2, <1>3, ReadReadyKeeps DEF CopyInv, ReadReady
  <2>2. \E t \in Steps : at' = At(d, t)
    BY <1>3 DEF GoTo, Steps
  <2>. QED
    BY <1>1, <2>1, <2>2, QuietSimulates DEF Steps
<1>4. CASE /\ ReadPending(d)
           /\ at' = IF copy[d].need_flush THEN At(d, "flush") ELSE Leave(d, copy)
           /\ UNCHANGED copy
  <2>1. copy'[d].state = "running" /\ UNCHANGED <<visible, closed>>
    BY <1>2, <1>4 DEF ReadPending, streamVars
  <2>2. (\E t \in Steps : at' = At(d, t)) \/ at' = Leave(d, copy)
    BY <1>4 DEF Steps
  <2>. QED
    BY <1>1, <2>1, <2>2, QuietSimulates DEF Steps
<1>5. CASE ReadFails(d) /\ Fail
  BY <1>1, <1>5, FailSimulates DEF Steps
<1>. QED
  BY <1>3, <1>4, <1>5 DEF Fill

LEMMA TopUpSimulates ==
  ASSUME CopyInv, CopyInv', NEW d \in Ends, TopUp(d) PROVE Simulates
<1>1. at = At(d, "topup") /\ UNCHANGED <<sent, conn, finish>> /\ Env
  BY DEF TopUp, Env, peerVars
<1>2. copy[d].state = "running"
  BY <1>1, AtStep DEF Steps
<1>3. CASE ReadReady(d) /\ at' = Leave(d, copy)
  <2>1. copy'[d].state = "running" /\ UNCHANGED <<visible, closed>>
    BY <1>1, <1>2, <1>3, ReadReadyKeeps DEF CopyInv, ReadReady
  <2>. QED
    BY <1>1, <1>3, <2>1, QuietSimulates DEF Steps
<1>4. CASE ReadPending(d) /\ at' = Leave(d, copy) /\ UNCHANGED copy
  <2>1. copy'[d].state = "running" /\ UNCHANGED <<visible, closed>>
    BY <1>2, <1>4 DEF ReadPending, streamVars
  <2>. QED
    BY <1>1, <1>4, <2>1, QuietSimulates DEF Steps
<1>5. CASE ReadFails(d) /\ Fail
  BY <1>1, <1>5, FailSimulates DEF Steps
<1>. QED
  BY <1>3, <1>4, <1>5 DEF TopUp

LEMMA WrittenSimulates ==
  ASSUME CopyInv, CopyInv', NEW d \in Ends, Written(d) PROVE Simulates
<1>1. /\ at = At(d, "write") /\ UNCHANGED <<sent, conn, finish, visible, closed, copy>>
      /\ \E t \in Steps : at' = At(d, t)
  BY DEF Written, Env, peerVars, streamVars, GoTo, Steps
<1>2. copy'[d].state # "done"
  BY <1>1, AtStep DEF Steps
<1>. QED
  BY <1>1, <1>2, QuietSimulates DEF Steps

\* A step that shows v bytes of direction d.
LEMMA LoudSimulates ==
  ASSUME CopyInv, CopyInv', AllEnded, NEW d \in Ends, NEW s \in Steps, at = At(d, s),
         NEW v \in Nat, visible[d] <= v, visible' = [visible EXCEPT ![d] = v],
         UNCHANGED <<sent, conn, closed, finish>>, copy'[d].state # "done",
         (\E t \in Steps : at' = At(d, t)) \/ at' = Leave(d, copy) \/ at' = Leave(d, copy')
  PROVE  Simulates
<1>1. copy[d].state # "done"
  BY AtStep
<1>2. at \notin {Returned, Failed} /\ at' \notin {Returned, Failed}
  BY <1>1, GoesOnInside
<1>. QED
  BY <1>1, <1>2, ShowSimulates

LEMMA FlushPendingSimulates ==
  ASSUME CopyInv, CopyInv', AllEnded, NEW d \in Ends, NEW s \in Steps, at = At(d, s),
         FlushPending(d), UNCHANGED copy, at' = Leave(d, copy), Env
  PROVE  Simulates
<1>1. /\ UNCHANGED <<sent, conn, closed, finish>>
      /\ visible' = [visible EXCEPT ![d] = taken[d] + Window]
      /\ visible[d] <= taken[d] + Window
  BY FlushPendingKeeps DEF FlushPending, Env, peerVars, CopyInv
<1>2. taken[d] + Window \in Nat
  BY CopyParts, WindowAssumption DEF CopyInv
<1>3. copy'[d].state # "done"
  BY AtStep
<1>. QED
  BY <1>1, <1>2, <1>3, LoudSimulates

LEMMA WriteSimulates ==
  ASSUME CopyInv, CopyInv', AllEnded, NEW d \in Ends, Write(d) PROVE Simulates
<1>1. at = At(d, "write") /\ UNCHANGED <<sent, conn, finish>> /\ Env
  BY DEF Write, Env, peerVars
<1>2. copy[d].state = "running"
  BY <1>1, AtStep DEF Steps
<1>3. CASE WriteReady(d) /\ GoTo(d, "write")
  <2>1. copy'[d].state = "running" /\ UNCHANGED closed
    BY <1>1, <1>2, <1>3, WriteReadyKeeps DEF CopyInv, WriteReady
  <2>2. PICK v \in visible[d] .. Least(Len(out'[d]), taken[d] + Window) :
          visible' = [visible EXCEPT ![d] = v]
    BY <1>3 DEF WriteReady
  <2>3. v \in Nat /\ visible[d] <= v
    <3>1. visible[d] \in Nat /\ taken[d] + Window \in Nat /\ Len(out'[d]) \in Nat
      BY CopyParts, WindowAssumption DEF CopyInv, DataOK
    <3>. QED
      BY <3>1 DEF Least
  <2>4. \E t \in Steps : at' = At(d, t)
    BY <1>3 DEF GoTo, Steps
  <2>. QED
    BY <1>1, <2>1, <2>2, <2>3, <2>4, LoudSimulates DEF Steps
<1>4. CASE /\ WritePending(d)
           /\ at' = IF ~ copy[d].read_done /\ copy[d].cap < BufSize
                    THEN At(d, "topup") ELSE Leave(d, copy)
           /\ UNCHANGED copy
  <2>1. copy'[d].state = "running" /\ UNCHANGED <<visible, closed>>
    BY <1>2, <1>4 DEF WritePending, streamVars
  <2>2. (\E t \in Steps : at' = At(d, t)) \/ at' = Leave(d, copy)
    BY <1>4 DEF Steps
  <2>. QED
    BY <1>1, <2>1, <2>2, QuietSimulates DEF Steps
<1>5. CASE WriteFails(d) /\ Fail
  BY <1>1, <1>5, FailSimulates DEF Steps
<1>. QED
  BY <1>3, <1>4, <1>5 DEF Write

LEMMA FlushSimulates ==
  ASSUME CopyInv, CopyInv', AllEnded, NEW d \in Ends, Flush(d) PROVE Simulates
<1>1. at = At(d, "flush") /\ UNCHANGED <<sent, conn, finish>> /\ Env /\ DataOK
  BY DEF Flush, Env, peerVars, CopyInv
<1>2. copy[d].state = "running" /\ copy[d] \in Transfer
  BY <1>1, AtStep, CopyParts DEF Steps
<1>3. CASE /\ CanFlush(d)
           /\ Flushed(d)
           /\ copy' = [copy EXCEPT ![d].need_flush = FALSE]
           /\ UNCHANGED <<read, out, taken, closed>>
           /\ at' = Leave(d, copy)
  <2>1. /\ Len(out[d]) \in Nat /\ visible[d] <= Len(out[d])
        /\ visible' = [visible EXCEPT ![d] = Len(out[d])]
    BY <1>1, <1>3, FlushedFits DEF Flushed
  <2>2. copy'[d].state # "done"
    BY <1>1, <1>2, <1>3 DEF DataOK, Transfer
  <2>. QED
    BY <1>1, <1>3, <2>1, <2>2, LoudSimulates DEF Steps
<1>4. CASE FlushPending(d) /\ UNCHANGED copy /\ at' = Leave(d, copy)
  BY <1>1, <1>4, FlushPendingSimulates DEF Steps
<1>5. CASE WriteFails(d) /\ Fail
  BY <1>1, <1>5, FailSimulates DEF Steps
<1>. QED
  BY <1>3, <1>4, <1>5 DEF Flush

LEMMA LastFlushSimulates ==
  ASSUME CopyInv, CopyInv', AllEnded, NEW d \in Ends, LastFlush(d) PROVE Simulates
<1>1. at = At(d, "lastflush") /\ UNCHANGED <<sent, conn, finish>> /\ Env /\ DataOK
  BY DEF LastFlush, Env, peerVars, CopyInv
<1>2. CASE /\ CanFlush(d)
           /\ Flushed(d)
           /\ copy' = [copy EXCEPT ![d].state = "shutting"]
           /\ GoTo(d, "shutdown")
           /\ UNCHANGED <<read, out, taken, closed>>
  <2>1. /\ Len(out[d]) \in Nat /\ visible[d] <= Len(out[d])
        /\ visible' = [visible EXCEPT ![d] = Len(out[d])]
    BY <1>1, <1>2, FlushedFits DEF Flushed
  <2>2. copy'[d].state # "done"
    BY <1>1, <1>2, CopyParts DEF DataOK, Transfer
  <2>3. \E t \in Steps : at' = At(d, t)
    BY <1>2 DEF GoTo, Steps
  <2>. QED
    BY <1>1, <1>2, <2>1, <2>2, <2>3, LoudSimulates DEF Steps
<1>3. CASE FlushPending(d) /\ UNCHANGED copy /\ at' = Leave(d, copy)
  BY <1>1, <1>3, FlushPendingSimulates DEF Steps
<1>4. CASE WriteFails(d) /\ Fail
  BY <1>1, <1>4, FailSimulates DEF Steps
<1>. QED
  BY <1>2, <1>3, <1>4 DEF LastFlush

LEMMA ShutdownSimulates ==
  ASSUME CopyInv, CopyInv', AllEnded, AllEnded', NEW d \in Ends, Shutdown(d) PROVE Simulates
<1>1. at = At(d, "shutdown") /\ UNCHANGED <<sent, conn, finish>> /\ Env /\ DataOK /\ DataOK'
  BY DEF Shutdown, Env, peerVars, CopyInv
<1>2. copy[d].state = "shutting" /\ copy[d] \in Transfer
  BY <1>1, AtStep, CopyParts DEF Steps
<1>3. CASE /\ CanFlush(d)
           /\ Flushed(d)
           /\ closed' = [closed EXCEPT ![d] = TRUE]
           /\ copy' = [copy EXCEPT ![d].state = "done"]
           /\ at' = Leave(d, copy')
           /\ UNCHANGED <<read, out, taken>>
  <2>. DEFINE v == Len(out[d])
  <2>1. v \in Nat /\ visible[d] <= v /\ visible' = [visible EXCEPT ![d] = v]
    BY <1>1, <1>3, FlushedFits DEF Flushed
  <2>. HIDE DEF v
  <2>2. /\ Arrived' = [Arrived EXCEPT ![d] = @ \o [i \in 1 .. v - Len(@) |-> Len(@) + i]]
        /\ Len(Arrived[d]) = visible[d]
    BY <1>1, <2>1, ShownArrives
  <2>3. sent[d] \in Nat /\ visible[d] \in Nat /\ v <= sent[d]
    BY <1>1, <2>1, CopyParts, ShownWasSent DEF CopyInv, WorldOK
  <2>4. v \in Len(Arrived[d]) .. sent[d]
    BY <2>1, <2>2, <2>3
  \* Unless the tunnel is closed, all that was sent has been written.
  <2>5. finish \/ (conn[d] # "open" /\ v = sent[d])
    <3>1. CASE finish
      BY <3>1
    <3>2. CASE ~ finish
      <4>1. copy[d].read_done /\ copy[d].pos = copy[d].cap
            /\ conn[d] # "open" /\ read[d] = sent[d]
        BY <1>2, <3>2 DEF AllEnded, Ended
      <4>2. /\ Len(out[d]) + (copy[d].cap - copy[d].pos) = read[d]
            /\ Len(out[d]) \in Nat /\ copy[d].pos \in Nat
        BY <1>1, CopyParts DEF CarriedBy
      <4>3. Len(out[d]) = read[d]
        BY <4>1, <4>2
      <4>. QED
        BY <4>1, <4>3 DEF v
    <3>. QED
      BY <3>1, <3>2
  \* It is the end of the connection if the other direction has ended.
  <2>6. ~ closed[d] /\ ~ IsOver
    BY <1>1, <1>2, StepIsNotOver DEF AllEnded, Ended, IsOver, Steps
  <2>7. copy' \in [Ends -> Transfer] /\ \A f \in Ends : closed'[f] <=> copy'[f].state = "done"
    BY <1>1 DEF DataOK, AllEnded, Ended
  <2>8. IsOver' = (\A f \in Ends : closed'[f])
    <3>1. CASE \A f \in Ends : copy'[f].state = "done"
      <4>1. at' = Returned
        BY <1>3, <3>1 DEF Leave, Ends
      <4>. QED
        BY <2>7, <3>1, <4>1 DEF IsOver
    <3>2. CASE ~ \A f \in Ends : copy'[f].state = "done"
      <4>1. at' \notin {Returned, Failed}
        BY <1>3, <2>7, <3>2, LeaveIsNotOver
      <4>2. ~ \A f \in Ends : closed'[f]
        BY <2>7, <3>2
      <4>3. ~ IsOver'
        BY <4>1 DEF IsOver
      <4>4. IsOver' \in BOOLEAN /\ (\A f \in Ends : closed'[f]) \in BOOLEAN
        BY DEF IsOver
      <4>. QED
        BY <4>2, <4>3, <4>4
    <3>. QED
      BY <3>1, <3>2
  <2>9. P!Close(d)
    BY <1>1, <1>3, <2>2, <2>4, <2>5, <2>6, <2>8, SameEnds, Zenon DEF P!Close
  <2>. QED
    BY <2>9, SameEnds DEF Simulates, P!Next
<1>4. CASE FlushPending(d) /\ UNCHANGED copy /\ at' = Leave(d, copy)
  BY <1>1, <1>4, FlushPendingSimulates DEF Steps
<1>5. CASE WriteFails(d) /\ Fail
  BY <1>1, <1>5, FailSimulates DEF Steps
<1>. QED
  BY <1>3, <1>4, <1>5 DEF Shutdown

-----------------------------------------------------------------------------
LEMMA InitSimulates ==
  ASSUME Init PROVE P!Init
<1>1. DataOK
  BY CopyInvStarts DEF CopyInv
<1>2. Arrived = [e \in Ends |-> <<>>]
  <2>1. Arrived = [e \in Ends |-> Numbers(0)]
    BY <1>1, ArrivedIsNumbers DEF Init
  <2>2. Numbers(0) = <<>>
    BY NumbersType
  <2>. QED
    BY <2>1, <2>2
<1>3. IsOver = FALSE
  BY StepIsNotOver DEF Init, IsOver, Waiting, Ends
<1>. QED
  BY <1>2, <1>3, SameEnds DEF Init, P!Init

LEMMA EndedStarts ==
  ASSUME Init PROVE AllEnded
BY DEF Init, AllEnded, Ended, NewCopy

LEMMA NextSimulates ==
  ASSUME CopyInv, CopyInv', AllEnded, AllEnded', [Next]_vars PROVE Simulates
<1>1. CASE Poll
  BY <1>1, PollSimulates
<1>2. ASSUME NEW d \in Ends, Direction(d) PROVE Simulates
  BY <1>2, PollFinishSimulates, FillSimulates, FlushSimulates, WriteSimulates,
     TopUpSimulates, WrittenSimulates, LastFlushSimulates, ShutdownSimulates DEF Direction
<1>3. CASE CloseTunnel
  BY <1>3, CloseTunnelSimulates
<1>4. ASSUME NEW e \in Ends, Peer(e) PROVE Simulates
  BY <1>4, PeerSimulates
<1>5. CASE UNCHANGED vars
  BY <1>5 DEF vars, Simulates, P!pipeVars, Arrived, IsOver
<1>. QED
  BY <1>1, <1>2, <1>3, <1>4, <1>5 DEF Next, Task

\* With a buffer of any size but 0 the copy keeps the promise of a connection:
\* every byte that arrives was sent, in order and once, the end of a stream is
\* passed on after all of it or on the closing of the tunnel, and the connection
\* ends only when both directions have or an end was reset.
THEOREM PipeImplemented ==
  ASSUME BufSize # 0
  PROVE  Spec => ImplementsPipe
<1>1. Init => AllEnded /\ P!Init
  BY EndedStarts, InitSimulates
<1>2. CopyInv /\ AllEnded /\ [Next]_vars => AllEnded'
  BY EndedStep
<1>3. CopyInv /\ CopyInv' /\ AllEnded /\ AllEnded' /\ [Next]_vars => [P!Next]_(P!pipeVars)
  BY NextSimulates DEF Simulates
<1>. QED
  BY <1>1, <1>2, <1>3, CopyInvAlways, PTL DEF Spec, ImplementsPipe, P!Spec
=============================================================================
