-------------------------------- MODULE Pipe --------------------------------
(***************************************************************************)
(* What an established connection promises to its two ends, the client and *)
(* the remote: what one end sends arrives at the other in order and whole, *)
(* the end of the stream is passed on after everything before it, and only *)
(* a reset of an end or the closing of the tunnel cuts a stream short.     *)
(*                                                                         *)
(* Byte i of a stream is the number i.                                     *)
(***************************************************************************)
EXTENDS Integers, Sequences

Ends == {"a", "b"}

VARIABLES
  sent,     \* end -> how many bytes it has sent
  conn,     \* end -> "open", "eof" (sends no more) or "reset"
  arrived,  \* end -> what has arrived at the other end of what it sent
  closed,   \* end -> the other end was told that it sends no more
  finish,   \* the tunnel was closed
  over      \* the connection is at its end

pipeVars == <<sent, conn, arrived, closed, finish, over>>

Init ==
  /\ sent = [e \in Ends |-> 0]
  /\ conn = [e \in Ends |-> "open"]
  /\ arrived = [e \in Ends |-> <<>>]
  /\ closed = [e \in Ends |-> FALSE]
  /\ finish = FALSE
  /\ over = FALSE

Send(e) ==
  /\ conn[e] = "open"
  /\ sent' = [sent EXCEPT ![e] = @ + 1]
  /\ UNCHANGED <<conn, arrived, closed, finish, over>>

SendEof(e) ==
  /\ conn[e] = "open"
  /\ conn' = [conn EXCEPT ![e] = "eof"]
  /\ UNCHANGED <<sent, arrived, closed, finish, over>>

Reset(e) ==
  /\ conn[e] # "reset"
  /\ conn' = [conn EXCEPT ![e] = "reset"]
  /\ UNCHANGED <<sent, arrived, closed, finish, over>>

CloseTunnel ==
  /\ finish' = TRUE
  /\ UNCHANGED <<sent, conn, arrived, closed, over>>

\* The next bytes that were sent arrive.
Arrive(e) ==
  /\ ~ closed[e]
  /\ ~ over
  /\ \E n \in Len(arrived[e]) + 1 .. sent[e] :
       arrived' = [arrived EXCEPT ![e] =
                     @ \o [i \in 1 .. n - Len(@) |-> Len(@) + i]]
  /\ UNCHANGED <<sent, conn, closed, finish, over>>

\* The end of the stream is passed on: all of it arrived, with this step at
\* the latest, or the tunnel was closed. It ends the connection if the other
\* direction has come to its end already.
Close(e) ==
  /\ ~ closed[e]
  /\ ~ over
  /\ closed' = [closed EXCEPT ![e] = TRUE]
  /\ \E n \in Len(arrived[e]) .. sent[e] :
       /\ arrived' = [arrived EXCEPT ![e] =
                        @ \o [i \in 1 .. n - Len(@) |-> Len(@) + i]]
       /\ finish \/ (conn[e] # "open" /\ n = sent[e])
  /\ over' = (\A f \in Ends : closed'[f])
  /\ UNCHANGED <<sent, conn, finish>>

\* An error of either end breaks both directions.
Break ==
  /\ ~ over
  /\ \E e \in Ends : conn[e] = "reset"
  /\ over' = TRUE
  /\ UNCHANGED <<sent, conn, arrived, closed, finish>>

Next ==
  \/ \E e \in Ends : Send(e) \/ SendEof(e) \/ Reset(e) \/ Arrive(e) \/ Close(e)
  \/ CloseTunnel
  \/ Break

Spec == Init /\ [][Next]_pipeVars
=============================================================================
