-------------------------- MODULE CopyBidirectional --------------------------
(***************************************************************************)
(* copy_bidirectional (src/aio.rs): the future that copies between the two *)
(* streams of a connection, one buffer per direction, until both have      *)
(* ended, one fails, or the tunnel is closed.                              *)
(*                                                                         *)
(* The future runs when its task is polled, and the task is polled again   *)
(* only after something it registered its waker with has happened. A step  *)
(* is one call of poll_read, poll_write, poll_flush, poll_shutdown or of   *)
(* the finish signal, with the code up to the next; the two ends and the   *)
(* signal act between any two of them.                                     *)
(*                                                                         *)
(* A direction is named by the end it reads from. A stream to an end keeps *)
(* some bytes to itself until it is flushed (Hold; a TLS session does, plain *)
(* TCP does not) and has up to Window bytes under way. In the proxy end a   *)
(* is the client, always plain TCP, and end b the remote.                   *)
(***************************************************************************)
EXTENDS Integers, Sequences

CONSTANTS
  BufSize,   \* copy_buffer_size
  Loads,     \* bound: the cases of how many bytes each end sends at most
  Window,    \* bytes under way to an end
  Hold,      \* end -> bytes the stream to it may keep until it is flushed
  Failures,  \* the ends that may reset their connection
  Takers     \* the ends assumed to take what arrives

Ends == {"a", "b"}

ASSUME BufSizeAssumption == BufSize \in Nat
ASSUME LoadsAssumption == Loads \subseteq [Ends -> Nat]
ASSUME WindowAssumption == Window \in Nat \ {0}
ASSUME HoldAssumption == Hold \in [Ends -> Nat]
ASSUME FailuresAssumption == Failures \subseteq Ends
ASSUME TakersAssumption == Takers \subseteq Ends

VARIABLES
  sent,     \* end -> how many bytes it has sent (byte i is the number i)
  conn,     \* end -> "open", "eof" (sends no more) or "reset"
  read,     \* end -> how many of its bytes were read
  out,      \* end -> what was written to the other end of what it sent
  visible,  \* end -> how many bytes of out left the proxy
  taken,    \* end -> how many of them the other end has taken
  closed,   \* end -> poll_shutdown of the other end's stream is done
  finish,   \* the finish signal: the tunnel was closed
  copy,     \* end -> TransferState of the direction, with its CopyBuffer
  at,       \* where the future is
  waits,    \* the events the task's waker is registered with
  woken     \* the task is to be polled

peerVars == <<sent, conn>>
streamVars == <<read, out, visible, taken, closed>>
vars == <<sent, conn, read, out, visible, taken, closed,
          finish, copy, at, waits, woken>>

Other(e) == IF e = "a" THEN "b" ELSE "a"

Least(m, n) == IF m <= n THEN m ELSE n

-----------------------------------------------------------------------------
NewCopy == [state |-> "running", pos |-> 0, cap |-> 0,
            buf |-> [i \in 1 .. BufSize |-> 0],
            read_done |-> FALSE, need_flush |-> FALSE]

At(d, step) == [dir |-> d, step |-> step]

Waiting == At("a", "waiting")    \* poll returned Pending
Returned == At("a", "returned")  \* poll returned Ready(Ok(..))
Failed == At("a", "failed")      \* poll returned Ready(Err(..))

IsOver == at \in {Returned, Failed}

Init ==
  /\ sent = [e \in Ends |-> 0]
  /\ conn = [e \in Ends |-> "open"]
  /\ read = [e \in Ends |-> 0]
  /\ out = [e \in Ends |-> <<>>]
  /\ visible = [e \in Ends |-> 0]
  /\ taken = [e \in Ends |-> 0]
  /\ closed = [e \in Ends |-> FALSE]
  /\ finish = FALSE
  /\ copy = [e \in Ends |-> NewCopy]
  /\ at = Waiting
  /\ waits = {}
  /\ woken = TRUE

-----------------------------------------------------------------------------
(* The ends and the signal.                                                 *)

Readable(e) == <<"read", e>>
Writable(e) == <<"write", e>>
Signal == <<"finish", "">>

\* The events wake the task if it waits for one of them.
Happen(events) ==
  /\ woken' = (woken \/ events \cap waits # {})
  /\ waits' = waits \ events

Send(e) ==
  /\ conn[e] = "open"
  /\ sent' = [sent EXCEPT ![e] = @ + 1]
  /\ \E load \in Loads : \A f \in Ends : sent'[f] <= load[f]
  /\ Happen({Readable(e)})
  /\ UNCHANGED <<conn, streamVars, finish, copy, at>>

SendEof(e) ==
  /\ conn[e] = "open"
  /\ conn' = [conn EXCEPT ![e] = "eof"]
  /\ Happen({Readable(e)})
  /\ UNCHANGED <<sent, streamVars, finish, copy, at>>

Reset(e) ==
  /\ e \in Failures
  /\ conn[e] # "reset"
  /\ conn' = [conn EXCEPT ![e] = "reset"]
  /\ Happen({Readable(e), Writable(e)})
  /\ UNCHANGED <<sent, streamVars, finish, copy, at>>

\* The other end takes a byte that came from e.
Take(e) ==
  /\ conn[Other(e)] # "reset"
  /\ taken[e] < visible[e]
  /\ taken' = [taken EXCEPT ![e] = @ + 1]
  /\ Happen({Writable(Other(e))})
  /\ UNCHANGED <<peerVars, read, out, visible, closed, finish, copy, at>>

CloseTunnel ==
  /\ ~ finish
  /\ finish' = TRUE
  /\ Happen({Signal})
  /\ UNCHANGED <<peerVars, streamVars, copy, at>>

-----------------------------------------------------------------------------
(* What a poll_... call on a stream can return. Ready results change the    *)
(* stream and the copy; Pending registers the waker; errors need a reset.   *)

Wait(event) == waits' = waits \cup {event} /\ UNCHANGED woken

NoWait == UNCHANGED <<waits, woken>>

\* poll_fill_buf: the copy after n bytes are read behind the first cap.
Filled(c, first, n) ==
  [c EXCEPT !.buf = [i \in 1 .. BufSize |-> IF i \in c.cap + 1 .. c.cap + n
                                            THEN first + (i - c.cap)
                                            ELSE @[i]],
            !.cap = @ + n,
            !.read_done = (n = 0)]

ReadReady(d) ==
  \E n \in 0 .. Least(sent[d] - read[d], BufSize - copy[d].cap) :
    /\ n = 0 => BufSize = copy[d].cap \/ (conn[d] = "eof" /\ read[d] = sent[d])
    /\ copy' = [copy EXCEPT ![d] = Filled(@, read[d], n)]
    /\ read' = [read EXCEPT ![d] = @ + n]
    /\ UNCHANGED <<out, visible, taken, closed>>

ReadPending(d) ==
  /\ conn[d] = "open" /\ read[d] = sent[d] /\ copy[d].cap < BufSize
  /\ Wait(Readable(d))
  /\ UNCHANGED streamVars

ReadFails(d) == conn[d] = "reset"

WriteFails(d) == conn[Other(d)] = "reset"

UnderWay(d) == Len(out[d]) - taken[d]

Room(d) == Window + Hold[Other(d)]

\* Part of what is written may stay in the stream until a flush.
WriteReady(d) ==
  LET c == copy[d] IN
  /\ ~ WriteFails(d)
  /\ \E i \in 1 .. Least(c.cap - c.pos, Room(d) - UnderWay(d)) :
    /\ out' = [out EXCEPT ![d] = @ \o SubSeq(c.buf, c.pos + 1, c.pos + i)]
    /\ \E v \in visible[d] .. Least(Len(out'[d]), taken[d] + Window) :
         /\ Len(out'[d]) - v <= Hold[Other(d)]
         /\ visible' = [visible EXCEPT ![d] = v]
    /\ copy' = [copy EXCEPT ![d].pos = @ + i, ![d].need_flush = TRUE]
    /\ UNCHANGED <<read, taken, closed>>

WritePending(d) ==
  /\ ~ WriteFails(d)
  /\ UnderWay(d) = Room(d)
  /\ Wait(Writable(Other(d)))
  /\ UNCHANGED streamVars

\* poll_flush sends what the window takes, and is Ready when that is all.
CanFlush(d) == ~ WriteFails(d) /\ UnderWay(d) <= Window

Flushed(d) == visible' = [visible EXCEPT ![d] = Len(out[d])]

FlushPending(d) ==
  /\ ~ WriteFails(d)
  /\ UnderWay(d) > Window
  /\ visible' = [visible EXCEPT ![d] = taken[d] + Window]
  /\ Wait(Writable(Other(d)))
  /\ UNCHANGED <<read, out, taken, closed>>

-----------------------------------------------------------------------------
(* The future: where it goes on after a direction is done with for now.     *)

Entry(d, c) ==
  At(d, IF c[d].state = "running" THEN "finish" ELSE "shutdown")

PollStart(c) ==
  IF c["a"].state # "done" THEN Entry("a", c) ELSE Entry("b", c)

\* Fault: the connection ends with the first direction that ends.
LeaveFirstDone(d, c) ==
  IF \E e \in Ends : c[e].state = "done" THEN Returned
  ELSE IF d = "a" THEN Entry("b", c)
  ELSE Waiting

\* transfer_one_direction(d) returned: the other direction is polled, or
\* poll returns.
Leave(d, c) ==
  IF d = "a" /\ c["b"].state # "done" THEN Entry("b", c)
  ELSE IF \A e \in Ends : c[e].state = "done" THEN Returned
  ELSE Waiting

GoTo(d, step) == at' = At(d, step)

Fail == at' = Failed /\ UNCHANGED <<streamVars, copy>> /\ NoWait

Env == UNCHANGED <<peerVars, finish>>

Poll ==
  /\ at = Waiting
  /\ woken
  /\ woken' = FALSE
  /\ at' = PollStart(copy)
  /\ UNCHANGED <<peerVars, streamVars, finish, copy, waits>>

\* Fault: the buffer is refilled behind its old position.
PollFinishKeepsPos(d) ==
  /\ at = At(d, "finish")
  /\ IF finish
     THEN /\ copy' = [copy EXCEPT ![d].state = "shutting"]
          /\ GoTo(d, "shutdown")
          /\ NoWait
     ELSE /\ Wait(Signal)
          /\ IF copy[d].pos = copy[d].cap /\ ~ copy[d].read_done
             THEN /\ copy' = [copy EXCEPT ![d].cap = 0]
                  /\ GoTo(d, "fill")
             ELSE /\ GoTo(d, "write")
                  /\ UNCHANGED copy
  /\ UNCHANGED streamVars
  /\ Env

\* Fault: the signal is polled only when the buffer is empty.
PollFinishWhenEmpty(d) ==
  /\ at = At(d, "finish")
  /\ IF finish /\ copy[d].pos = copy[d].cap
     THEN /\ copy' = [copy EXCEPT ![d].state = "shutting"]
          /\ GoTo(d, "shutdown")
          /\ NoWait
     ELSE IF copy[d].pos = copy[d].cap /\ ~ copy[d].read_done
     THEN /\ copy' = [copy EXCEPT ![d].pos = 0, ![d].cap = 0]
          /\ GoTo(d, "fill")
          /\ Wait(Signal)
     ELSE /\ GoTo(d, "write")
          /\ UNCHANGED copy
          /\ NoWait
  /\ UNCHANGED streamVars
  /\ Env

\* The head of poll_copy's loop.
PollFinish(d) ==
  /\ at = At(d, "finish")
  /\ IF finish
     THEN /\ copy' = [copy EXCEPT ![d].state = "shutting"]
          /\ GoTo(d, "shutdown")
          /\ NoWait
     ELSE /\ Wait(Signal)
          /\ IF copy[d].pos = copy[d].cap /\ ~ copy[d].read_done
             THEN /\ copy' = [copy EXCEPT ![d].pos = 0, ![d].cap = 0]
                  /\ GoTo(d, "fill")
             ELSE /\ GoTo(d, "write")
                  /\ UNCHANGED copy
  /\ UNCHANGED streamVars
  /\ Env

\* Fault: nothing is flushed while there is nothing to read.
FillNoFlush(d) ==
  /\ at = At(d, "fill")
  /\ \/ ReadReady(d) /\ GoTo(d, "write") /\ NoWait
     \/ ReadPending(d) /\ at' = Leave(d, copy) /\ UNCHANGED copy
     \/ ReadFails(d) /\ Fail
  /\ Env

\* The buffer is empty.
Fill(d) ==
  /\ at = At(d, "fill")
  /\ \/ ReadReady(d) /\ GoTo(d, "write") /\ NoWait
     \/ /\ ReadPending(d)
        /\ at' = IF copy[d].need_flush THEN At(d, "flush") ELSE Leave(d, copy)
        /\ UNCHANGED copy
     \/ ReadFails(d) /\ Fail
  /\ Env

\* Nothing to read now: what was written is flushed.
Flush(d) ==
  /\ at = At(d, "flush")
  /\ \/ /\ CanFlush(d)
        /\ Flushed(d)
        /\ copy' = [copy EXCEPT ![d].need_flush = FALSE]
        /\ NoWait
        /\ UNCHANGED <<read, out, taken, closed>>
        /\ at' = Leave(d, copy)
     \/ FlushPending(d) /\ UNCHANGED copy /\ at' = Leave(d, copy)
     \/ WriteFails(d) /\ Fail
  /\ Env

\* Fault: what remains in the buffer is dropped when the stream is full.
WriteDrops(d) ==
  /\ at = At(d, "write")
  /\ copy[d].pos < copy[d].cap
  /\ \/ WriteReady(d) /\ GoTo(d, "write") /\ NoWait
     \/ /\ WritePending(d)
        /\ copy' = [copy EXCEPT ![d].pos = copy[d].cap]
        /\ at' = Leave(d, copy)
     \/ WriteFails(d) /\ Fail
  /\ Env

\* There is something to write. When the stream is full, a buffer with room is
\* topped up.
Write(d) ==
  /\ at = At(d, "write")
  /\ copy[d].pos < copy[d].cap
  /\ \/ WriteReady(d) /\ GoTo(d, "write") /\ NoWait
     \/ /\ WritePending(d)
        /\ at' = IF ~ copy[d].read_done /\ copy[d].cap < BufSize
                 THEN At(d, "topup") ELSE Leave(d, copy)
        /\ UNCHANGED copy
     \/ WriteFails(d) /\ Fail
  /\ Env

TopUp(d) ==
  /\ at = At(d, "topup")
  /\ \/ ReadReady(d) /\ at' = Leave(d, copy) /\ NoWait
     \/ ReadPending(d) /\ at' = Leave(d, copy) /\ UNCHANGED copy
     \/ ReadFails(d) /\ Fail
  /\ Env

\* Fault: the end of the stream is reported by any short read.
WrittenShort(d) ==
  /\ at = At(d, "write")
  /\ copy[d].pos = copy[d].cap
  /\ GoTo(d, IF copy[d].read_done \/ copy[d].cap < BufSize
             THEN "lastflush" ELSE "finish")
  /\ UNCHANGED <<streamVars, copy>>
  /\ NoWait
  /\ Env

\* The buffer is written.
Written(d) ==
  /\ at = At(d, "write")
  /\ copy[d].pos = copy[d].cap
  /\ GoTo(d, IF copy[d].read_done THEN "lastflush" ELSE "finish")
  /\ UNCHANGED <<streamVars, copy>>
  /\ NoWait
  /\ Env

\* All was read and written. need_flush is not reset: it is not used again.
LastFlush(d) ==
  /\ at = At(d, "lastflush")
  /\ \/ /\ CanFlush(d)
        /\ Flushed(d)
        /\ copy' = [copy EXCEPT ![d].state = "shutting"]
        /\ GoTo(d, "shutdown")
        /\ NoWait
        /\ UNCHANGED <<read, out, taken, closed>>
     \/ FlushPending(d) /\ UNCHANGED copy /\ at' = Leave(d, copy)
     \/ WriteFails(d) /\ Fail
  /\ Env

\* poll_shutdown flushes before it closes.
Shutdown(d) ==
  /\ at = At(d, "shutdown")
  /\ \/ /\ CanFlush(d)
        /\ Flushed(d)
        /\ closed' = [closed EXCEPT ![d] = TRUE]
        /\ copy' = [copy EXCEPT ![d].state = "done"]
        /\ at' = Leave(d, copy')
        /\ NoWait
        /\ UNCHANGED <<read, out, taken>>
     \/ FlushPending(d) /\ UNCHANGED copy /\ at' = Leave(d, copy)
     \/ WriteFails(d) /\ Fail
  /\ Env

-----------------------------------------------------------------------------
Direction(d) ==
  \/ PollFinish(d)
  \/ Fill(d)
  \/ Flush(d)
  \/ Write(d)
  \/ TopUp(d)
  \/ Written(d)
  \/ LastFlush(d)
  \/ Shutdown(d)

Task == Poll \/ \E d \in Ends : Direction(d)

Peer(e) == Send(e) \/ SendEof(e) \/ Reset(e) \/ Take(e)

Next == Task \/ CloseTunnel \/ \E e \in Ends : Peer(e)

Spec == Init /\ [][Next]_vars

\* The runtime polls the task when it was woken. Of the ends only the takers
\* are relied on (bytes that come from e are taken by the other end).
FairSpec ==
  /\ Spec
  /\ WF_vars(Task)
  /\ \A e \in Ends : Other(e) \in Takers => WF_vars(Take(e))

-----------------------------------------------------------------------------
(* Properties.                                                              *)

Steps == {"finish", "fill", "flush", "write", "topup", "lastflush", "shutdown"}

\* Every variable has its type; in particular pos never passes cap, which the
\* code asserts in debug builds.
TypeOK ==
  /\ sent \in [Ends -> Nat]
  /\ conn \in [Ends -> {"open", "eof", "reset"}]
  /\ read \in [Ends -> Nat]
  /\ out \in [Ends -> Seq(Nat)]
  /\ visible \in [Ends -> Nat]
  /\ taken \in [Ends -> Nat]
  /\ closed \in [Ends -> BOOLEAN]
  /\ finish \in BOOLEAN
  /\ copy \in [Ends -> [state : {"running", "shutting", "done"},
                        pos : 0 .. BufSize, cap : 0 .. BufSize,
                        buf : [1 .. BufSize -> Nat],
                        read_done : BOOLEAN, need_flush : BOOLEAN]]
  /\ \A d \in Ends : copy[d].pos <= copy[d].cap
  /\ at \in [dir : Ends, step : Steps] \cup {Waiting, Returned, Failed}
  /\ waits \subseteq {Readable(e) : e \in Ends} \cup {Writable(e) : e \in Ends}
                    \cup {Signal}
  /\ woken \in BOOLEAN

\* While the copy runs, the bytes read are those written and those in the
\* buffer between pos and cap: topping up and partial writes lose, repeat and
\* reorder nothing.
NothingLost ==
  \A d \in Ends :
    out[d] \o SubSeq(copy[d].buf, copy[d].pos + 1, copy[d].cap)
      = [i \in 1 .. read[d] |-> i]

\* What the other end has yet to take keeps a flush from finishing, and the
\* task is registered for it.
FlushBlocked(d) ==
  /\ UnderWay(d) > Window /\ ~ WriteFails(d)
  /\ Writable(Other(d)) \in waits

\* Likewise a write of what is in the buffer.
WriteBlocked(d) ==
  /\ UnderWay(d) = Room(d) /\ ~ WriteFails(d)
  /\ Writable(Other(d)) \in waits

ReadBlocked(d) ==
  /\ read[d] = sent[d] /\ conn[d] = "open"
  /\ Readable(d) \in waits

\* A direction can do nothing until something happens that wakes the task: a
\* running one waits for the signal, and for the reader if its buffer is empty
\* (also for the stream to be flushed if it holds something), for the writer
\* if it is not, for its last flush if all was read; after that it waits for
\* the flush of the shutdown.
Settled(d) ==
  LET c == copy[d] IN
  /\ c.state = "running" =>
       /\ ~ finish /\ Signal \in waits
       /\ c.pos < c.cap => WriteBlocked(d)
       /\ c.pos = c.cap /\ c.read_done => FlushBlocked(d)
       /\ c.pos = c.cap /\ ~ c.read_done => ReadBlocked(d)
       /\ c.pos = c.cap /\ c.need_flush => FlushBlocked(d)
  /\ c.state = "shutting" => FlushBlocked(d)

\* Waiting is safe: whenever the future waits and was not woken, each direction
\* is blocked, be it in a read, a write, one of its flushes or its shutdown,
\* and the waker is registered with what would unblock it. (A direction that can
\* go on while nothing will poll the task hangs although both ends are ready.)
NoLostWakeup == at = Waiting /\ ~ woken => \A d \in Ends : Settled(d)

\* What has reached the other end of what e sent.
Arrived == [e \in Ends |-> SubSeq(out[e], 1, visible[e])]

\* The copy implements what a connection promises.
P == INSTANCE Pipe WITH arrived <- Arrived, over <- IsOver

ImplementsPipe == P!Spec

IsReset == \E e \in Ends : conn[e] = "reset"

\* What an end sends reaches the other end if that takes what arrives: also
\* while both keep the connection open, when the other direction has ended,
\* and when the sender itself takes nothing of the other direction. (An end
\* sends only so much, so that the copy must catch up with it.)
Delivered ==
  \A e \in Ends : Other(e) \in Takers =>
    []<>(visible[e] = sent[e] \/ finish \/ IsReset)

\* An end that has sent everything is passed on to the other likewise.
EofPassedOn ==
  \A e \in Ends : Other(e) \in Takers =>
    (conn[e] = "eof" ~> closed[e] \/ IsReset)

\* When the tunnel is closed the copy ends, even if an end on plain TCP takes
\* nothing.
FinishEnds == finish ~> IsOver
=============================================================================
