---------------------------- MODULE TunnelSpec ----------------------------
(***************************************************************************)
(* Texts that name sockets and tunnels and what they are parsed to         *)
(* (src/tunnel.rs, src/tunnel/parser.rs).                                  *)
(*                                                                         *)
(* A text is abstracted to what the parser tells apart: whether it names a *)
(* host or a port only, the port, and whether anything is left after them  *)
(* (which covers every text that does not start as a socket). What it is   *)
(* parsed to is the normal form of a socket, the key of the registry.      *)
(***************************************************************************)
EXTENDS Integers, Sequences

CONSTANTS
  Hosts,           \* host names and addresses
  NoHost,          \* the host of a text that is a port only
  LoopbackHost,    \* "127.0.0.1"
  Ports,
  DefaultOptions   \* the options of a tunnel opened without

ASSUME HostsAssumption == LoopbackHost \in Hosts /\ NoHost \notin Hosts
ASSUME DefaultOptionsAssumption ==
  DefaultOptions \in [remote_connect_retries : Nat, errors_till_dead : Nat]

SocketSpec == [host : Hosts, port : Ports]

NoSpec == [host |-> NoHost, port |-> 0]

Text == [host : Hosts \cup {NoHost}, port : Ports, rest : BOOLEAN]

\* SocketSpec::from_str; NoSpec is an error.
ParseSpec(text) ==
  IF text.rest THEN NoSpec
  ELSE [host |-> IF text.host = NoHost THEN LoopbackHost ELSE text.host,
        port |-> text.port]

-----------------------------------------------------------------------------
(* Options, name=value in a row. Two names stand for all of them; a value   *)
(* that does not parse is a negative number.                                *)

TunnelOptions == [remote_connect_retries : Nat, errors_till_dead : Nat]

OptionNames == {"retries", "errors"}

OptionsParse(items) ==
  \A i \in DOMAIN items : items[i].name \in OptionNames /\ items[i].value >= 0

\* The last item of a name counts.
OptionValue(items, name, default) ==
  LET named == {i \in DOMAIN items : items[i].name = name}
  IN IF named = {} THEN default
     ELSE items[CHOOSE i \in named : \A j \in named : j <= i].value

ParseOptions(items) ==
  [remote_connect_retries |->
     OptionValue(items, "retries", DefaultOptions.remote_connect_retries),
   errors_till_dead |->
     OptionValue(items, "errors", DefaultOptions.errors_till_dead)]
=============================================================================
