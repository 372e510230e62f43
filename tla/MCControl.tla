----------------------------- MODULE MCControl -----------------------------
(***************************************************************************)
(* Values for the constants of Control.                                    *)
(***************************************************************************)
EXTENDS Control

Sock(host, port) == [host |-> host, port |-> port, rest |-> FALSE]

\* The tunnel's socket, as a port, in full and by name; and its remotes.
Short == Sock(NoHost, 3000)
Full  == Sock("127.0.0.1", 3000)
Named == Sock("localhost", 3000)
Remote == Sock(NoHost, 3001)
Broken == [Remote EXCEPT !.rest = TRUE]

Input(op, args) == [op |-> op, args |-> args, options |-> <<>>]

Retries(n) == <<[name |-> "retries", value |-> 1], [name |-> "retries", value |-> n]>>

MCDefault == [remote_connect_retries |-> 3, errors_till_dead |-> 1]

Lines ==
  {[Input("open", <<Full, Remote>>) EXCEPT !.options = Retries(5)],
   [Input("open", <<Short, Remote>>) EXCEPT !.options = Retries(-1)],
   Input("open", <<Named, Remote>>),
   Input("close", <<Short>>),
   Input("close", <<Named>>),
   Input("add", <<Full, Remote>>),
   Input("remove", <<Short, Remote>>),
   Input("remove", <<Short, Broken>>),
   Input("status", <<>>),
   Input("detail", <<Short>>),
   Input("help", <<Broken>>)}

Calls ==
  {Input("open", <<Full>>),
   Input("open", <<Named>>),
   Input("close", <<Full>>),
   Input("add", <<Full, Remote>>),
   Input("number", <<>>),
   Input("remotes", <<Short>>),
   Input("info", <<Full>>)}

FirstTunnel == <<ParseLine(Input("open", <<Short, Remote>>))>>

\* Both names are of one address.
OneAddress == [k \in SocketSpec |-> IF k.port = 3000 THEN {"lo4"} ELSE {}]

\* localhost is resolved to two addresses.
TwoAddresses ==
  [k \in SocketSpec |->
     CASE k.port # 3000 -> {}
       [] k.host = "localhost" -> {"lo4", "lo6"}
       [] OTHER -> {"lo4"}]
=============================================================================
