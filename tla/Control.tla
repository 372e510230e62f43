------------------------------ MODULE Control ------------------------------
(***************************************************************************)
(* The control interfaces at work on one registry: sessions of the line    *)
(* protocol (src/controller.rs, src/controller/protocol.rs), JSON-RPC      *)
(* calls (src/rpc.rs) and the tunnels main opens at the start              *)
(* (src/main.rs), all through create_tunnel, stop_tunnel (src/lib.rs) and  *)
(* the methods of State.                                                   *)
(*                                                                         *)
(* Proxy opens a tunnel in one step. Here a request is one step per lock   *)
(* of the registry: between two of them, and while an address is being     *)
(* bound, other callers proceed. A running accept loop is known by the     *)
(* address it holds, which nothing else can bind until the loop has ended; *)
(* a tunnel's `addr` stands for the close channel to that loop.            *)
(*                                                                         *)
(* number_of_tunnels changes with the map, which it follows at once in the *)
(* code; nothing but the exporter reads it. The map is counted in one      *)
(* step; the code adds up its shards one by one, so that with keys in      *)
(* several of them a count made during OPEN and CLOSE may mix two moments. *)
(*                                                                         *)
(* Left out: the wording of answers, statistics, connections.              *)
(***************************************************************************)
EXTENDS TunnelSpec, FiniteSets

CONSTANTS
  Sessions,    \* sessions of the line protocol there can be at one time
  RpcCalls,    \* JSON-RPC calls there can be at one time
  NoRequest,
  NoOptions,
  Addrs,       \* socket addresses
  NoAddr,
  Addresses,   \* SocketSpec -> the addresses it resolves to
  LineInputs,  \* the lines and
  RpcInputs,   \* the calls of callers: records op, args, options
  Launch       \* the tunnels of the command line: a sequence of requests

Ops == {"open", "close", "add", "remove", "status", "number", "detail", "info",
        "remotes", "help", "invalid"}

AnyRequest ==
  [op : Ops, key : SocketSpec \cup {NoSpec}, remotes : SUBSET SocketSpec,
   options : TunnelOptions \cup {NoOptions}]

ValidRequest ==
  {q \in AnyRequest :
     q.op = "open" => q.key \in SocketSpec /\ q.options \in TunnelOptions}

Main == "main"

Callers == Sessions \cup RpcCalls \cup {Main}

ASSUME CallersAssumption ==
  Sessions \cap RpcCalls = {} /\ Main \notin Sessions \cup RpcCalls
ASSUME AddressesAssumption ==
  Addresses \in [SocketSpec -> SUBSET Addrs] /\ NoAddr \notin Addrs
ASSUME InputsAssumption ==
  LineInputs \cup RpcInputs
    \subseteq [op : Ops, args : Seq(Text),
               options : Seq([name : STRING, value : Int])]
ASSUME LaunchAssumption ==
  Launch \in Seq(ValidRequest)

VARIABLES
  tunnels,   \* StateInner.tunnels: key -> TunnelInfo, for the open tunnels
  gauge,     \* StateInner.tunnels_counter, the exported number_of_tunnels
  loops,     \* address -> key of the accept loop that listens on it
  told,      \* addresses of the loops whose close channel was used or dropped
  call,      \* caller -> what it is doing
  accepting, \* run_controller accepts sessions
  launched   \* the number of tunnels main has taken up

vars == <<tunnels, gauge, loops, told, call, accepting, launched>>

-----------------------------------------------------------------------------
(* Requests.                                                                *)

Request(op, key, remotes, options) ==
  [op |-> op, key |-> key, remotes |-> remotes, options |-> options]

Invalid == Request("invalid", NoSpec, {}, NoOptions)

\* How many sockets a request names.
Arity(op) ==
  CASE op \in {"close", "detail", "info", "remotes"} -> {1}
    [] op \in {"add", "remove"} -> {2}
    [] op = "open" -> Nat \ {0}
    [] OTHER -> {0}

\* CommandRequest::from_str, and the first lines of the RPC methods.
Parse(input) ==
  LET specs == [i \in DOMAIN input.args |-> ParseSpec(input.args[i])]
  IN IF \/ Len(specs) \notin Arity(input.op)
        \/ \E i \in DOMAIN specs : specs[i] = NoSpec
        \/ ~ OptionsParse(input.options)
     THEN Invalid
     ELSE Request(input.op,
                  IF specs = <<>> THEN NoSpec ELSE specs[1],
                  {specs[i] : i \in DOMAIN specs \ {1}},
                  IF input.op = "open"
                  THEN ParseOptions(input.options) ELSE NoOptions)

\* `tunnel=remote,...` needs a remote; the RPC method does not.
ParseTunnel(line) == IF Len(line.args) < 2 THEN Invalid ELSE Parse(line)

\* What follows HELP is not read.
ParseLine(line) ==
  CASE line.op = "help" -> Request("help", NoSpec, {}, NoOptions)
    [] line.op = "open" -> ParseTunnel(line)
    [] OTHER -> Parse(line)

-----------------------------------------------------------------------------
(* Callers. `last`: the session ends once the answer is sent.               *)

\* "seen" is half of an answer.
Result(status, count, remotes, options) ==
  [status |-> status, count |-> count, remotes |-> remotes, options |-> options]

NoResult == Result("none", 0, {}, NoOptions)
Ok       == Result("ok", 0, {}, NoOptions)
Sorry    == Result("sorry", 0, {}, NoOptions)

Results ==
  [status : {"none", "seen", "ok", "sorry"}, count : Nat,
   remotes : SUBSET SocketSpec, options : TunnelOptions \cup {NoOptions}]

CallPcs == {"closed", "idle", "start", "bind", "contains", "insert", "signal",
            "again", "answer"}

Call == [pc : CallPcs, request : ValidRequest \cup {NoRequest}, result : Results,
         addr : Addrs \cup {NoAddr}, last : BOOLEAN]

IdleCall == [pc |-> "idle", request |-> NoRequest, result |-> NoResult,
             addr |-> NoAddr, last |-> FALSE]

ClosedCall == [IdleCall EXCEPT !.pc = "closed"]

Begun(request) == [IdleCall EXCEPT !.pc = "start", !.request = request]

Bound(c) == call[c].pc \in {"contains", "insert"}

\* Addresses something listens on.
Held == DOMAIN loops \cup {call[c].addr : c \in {d \in Callers : Bound(d)}}

IsOpen(k) == k \in DOMAIN tunnels

\* c executes `op`: it is at this point of it.
At(c, pc, ops) == call[c].pc = pc /\ call[c].request.op \in ops

Key(c) == call[c].request.key

Goto(c, pc) == call' = [call EXCEPT ![c].pc = pc]

See(c, result) == call' = [call EXCEPT ![c].pc = "again", ![c].result = result]

\* Fault: the listener bound outlives an OPEN that is answered.
AnswerKeepsAddr(c, result) ==
  call' = [call EXCEPT ![c].pc = "answer", ![c].result = result]

Answer(c, result) ==
  call' = [call EXCEPT ![c].pc = "answer", ![c].result = result,
                       ![c].addr = NoAddr]

-----------------------------------------------------------------------------
Init ==
  /\ tunnels = [k \in {} |-> {}]
  /\ gauge = 0
  /\ loops = [a \in {} |-> NoSpec]
  /\ told = {}
  /\ call = [c \in Callers |-> IF c \in Sessions THEN ClosedCall ELSE IdleCall]
  /\ accepting = TRUE
  /\ launched = 0

-----------------------------------------------------------------------------
(* Requests arrive and are answered.                                        *)

Unchanged == UNCHANGED <<tunnels, gauge, loops, told, accepting, launched>>

\* run_controller accepts a session.
Connect(c) ==
  /\ accepting
  /\ call[c].pc = "closed"
  /\ call' = [call EXCEPT ![c] = IdleCall]
  /\ Unchanged

\* An error of accept ends run_controller for good; the sessions go on.
StopAccepting ==
  /\ accepting
  /\ accepting' = FALSE
  /\ UNCHANGED <<tunnels, gauge, loops, told, call, launched>>

ReadLine(c) ==
  /\ call[c].pc = "idle"
  /\ \E line \in LineInputs : call' = [call EXCEPT ![c] = Begun(ParseLine(line))]
  /\ Unchanged

\* A line that is too long or not UTF-8, an unfinished one at the end of the
\* input, or a read error: it is answered, and then the reader is at its end.
ReadGarbage(c) ==
  /\ call[c].pc = "idle"
  /\ call' = [call EXCEPT ![c] = [Begun(Invalid) EXCEPT !.last = TRUE]]
  /\ Unchanged

\* EXIT, or the end of the input.
Leave(c) ==
  /\ call[c].pc = "idle"
  /\ call' = [call EXCEPT ![c] = ClosedCall]
  /\ Unchanged

CallRpc(c) ==
  /\ call[c].pc = "idle"
  /\ \E input \in RpcInputs : call' = [call EXCEPT ![c] = Begun(Parse(input))]
  /\ Unchanged

\* A caller that goes away drops the future of its call where that waits; a
\* session goes on with its command.
CancelRpc(c) ==
  /\ call[c].pc = "bind"
  /\ call' = [call EXCEPT ![c] = IdleCall]
  /\ Unchanged

\* main opens its tunnels one after the other.
LaunchNext ==
  /\ call[Main].pc = "idle"
  /\ launched < Len(Launch)
  /\ launched' = launched + 1
  /\ call' = [call EXCEPT ![Main] = Begun(Launch[launched + 1])]
  /\ UNCHANGED <<tunnels, gauge, loops, told, accepting>>

\* The answer is sent or fails to be; main only logs an error.
Answered(c) ==
  /\ call[c].pc = "answer"
  /\ call' = [call EXCEPT ![c] = IF call[c].last THEN ClosedCall ELSE IdleCall]
  /\ Unchanged

-----------------------------------------------------------------------------
(* OPEN: create_tunnel.                                                     *)

CheckExists(c) ==
  /\ At(c, "start", {"open"})
  /\ IF IsOpen(Key(c)) THEN Answer(c, Sorry) ELSE Goto(c, "bind")
  /\ Unchanged

\* Fault: an address in use can be bound.
BindShared(c) ==
  /\ call[c].pc = "bind"
  /\ \E a \in Addresses[Key(c)] :
       call' = [call EXCEPT ![c].pc = "contains", ![c].addr = a]
  /\ Unchanged

\* bind tries the addresses of the key until one is free and can be bound.
Bind(c) ==
  /\ call[c].pc = "bind"
  /\ \/ Answer(c, Sorry)
     \/ \E a \in Addresses[Key(c)] \ Held :
          call' = [call EXCEPT ![c].pc = "contains", ![c].addr = a]
  /\ Unchanged

\* add_tunnel looks again; the listener goes with an error.
CheckContains(c) ==
  /\ call[c].pc = "contains"
  /\ IF IsOpen(Key(c)) THEN Answer(c, Sorry) ELSE Goto(c, "insert")
  /\ Unchanged

\* A TunnelInfo that is replaced is dropped, and its close channel with it.
Insert(c) ==
  LET k == Key(c)
      a == call[c].addr
      q == call[c].request IN
  /\ call[c].pc = "insert"
  /\ tunnels' = [j \in DOMAIN tunnels \cup {k} |->
                   IF j = k THEN [addr |-> a, members |-> q.remotes,
                                  options |-> q.options]
                   ELSE tunnels[j]]
  /\ told' = IF IsOpen(k) THEN told \cup {tunnels[k].addr} ELSE told
  /\ gauge' = gauge + 1
  /\ loops' = [b \in DOMAIN loops \cup {a} |-> IF b = a THEN k ELSE loops[b]]
  /\ Answer(c, Ok)
  /\ UNCHANGED <<accepting, launched>>

-----------------------------------------------------------------------------
(* CLOSE: stop_tunnel, and the accept loop.                                 *)

RemoveTunnel(c) ==
  LET k == Key(c) IN
  /\ At(c, "start", {"close"})
  /\ IF IsOpen(k)
     THEN /\ tunnels' = [j \in DOMAIN tunnels \ {k} |-> tunnels[j]]
          /\ gauge' = gauge - 1
          /\ call' = [call EXCEPT ![c].pc = "signal", ![c].result = Ok,
                                  ![c].addr = tunnels[k].addr]
     ELSE Answer(c, Sorry) /\ UNCHANGED <<tunnels, gauge>>
  /\ UNCHANGED <<loops, told, accepting, launched>>

\* Fault: the close channel outlives the TunnelInfo and nothing is sent on it.
SignalNobody(c) ==
  /\ call[c].pc = "signal"
  /\ Answer(c, call[c].result)
  /\ Unchanged

Signal(c) ==
  /\ call[c].pc = "signal"
  /\ told' = told \cup {call[c].addr}
  /\ Answer(c, call[c].result)
  /\ UNCHANGED <<tunnels, gauge, loops, accepting, launched>>

\* The loop on a polls its close channel and ends; the address is free.
Stop(a) ==
  /\ a \in DOMAIN loops \cap told
  /\ loops' = [b \in DOMAIN loops \ {a} |-> loops[b]]
  /\ told' = told \ {a}
  /\ UNCHANGED <<tunnels, gauge, call, accepting, launched>>

-----------------------------------------------------------------------------
(* The other requests.                                                      *)

\* ADD and REMOVE name one remote.
ChangeRemotes(c) ==
  LET q == call[c].request
      fits == IsOpen(q.key) /\ \A r \in q.remotes :
                (r \in tunnels[q.key].members) <=> q.op = "remove"
  IN /\ At(c, "start", {"add", "remove"})
     /\ IF fits
        THEN /\ tunnels' = [tunnels EXCEPT ![q.key].members =
                              IF q.op = "add" THEN @ \cup q.remotes
                              ELSE @ \ q.remotes]
             /\ Answer(c, Ok)
        ELSE Answer(c, Sorry) /\ UNCHANGED tunnels
     /\ UNCHANGED <<gauge, loops, told, accepting, launched>>

CountNow == Result("ok", Cardinality(DOMAIN tunnels), {}, NoOptions)

\* STATUS answers "No tunnels", or reads the number again.
Status(c) ==
  /\ At(c, "start", {"status"})
  /\ IF DOMAIN tunnels = {} THEN Answer(c, CountNow) ELSE Goto(c, "again")
  /\ Unchanged

StatusAgain(c) ==
  /\ At(c, "again", {"status"}) \/ At(c, "start", {"number"})
  /\ Answer(c, CountNow)
  /\ Unchanged

Info(c) ==
  /\ At(c, "start", {"info"})
  /\ Answer(c, IF IsOpen(Key(c))
               THEN Result("ok", 0, tunnels[Key(c)].members, tunnels[Key(c)].options)
               ELSE Sorry)
  /\ Unchanged

Remotes(c) ==
  /\ At(c, "start", {"remotes"})
  /\ Answer(c, IF IsOpen(Key(c))
               THEN Result("ok", 0, tunnels[Key(c)].members, NoOptions) ELSE Sorry)
  /\ Unchanged

\* DETAIL reads the remotes, then the options.
Detail(c) ==
  /\ At(c, "start", {"detail"})
  /\ IF IsOpen(Key(c))
     THEN See(c, Result("seen", 0, tunnels[Key(c)].members, NoOptions))
     ELSE Answer(c, Sorry)
  /\ Unchanged

\* Fault: a tunnel that has gone since is shown with default options.
DetailAgainOrDefault(c) ==
  /\ At(c, "again", {"detail"})
  /\ Answer(c, Result("ok", 0, call[c].result.remotes,
                      IF IsOpen(Key(c)) THEN tunnels[Key(c)].options
                      ELSE DefaultOptions))
  /\ Unchanged

DetailAgain(c) ==
  /\ At(c, "again", {"detail"})
  /\ Answer(c, IF IsOpen(Key(c))
               THEN Result("ok", 0, call[c].result.remotes, tunnels[Key(c)].options)
               ELSE Sorry)
  /\ Unchanged

Reply(c) ==
  /\ \/ At(c, "start", {"help"}) /\ Answer(c, Ok)
     \/ At(c, "start", {"invalid"}) /\ Answer(c, Sorry)
  /\ Unchanged

-----------------------------------------------------------------------------
\* What a caller's request does by itself.
Exec(c) ==
  \/ CheckExists(c)
  \/ Bind(c)
  \/ CheckContains(c)
  \/ Insert(c)
  \/ RemoveTunnel(c)
  \/ Signal(c)
  \/ ChangeRemotes(c)
  \/ Status(c)
  \/ StatusAgain(c)
  \/ Info(c)
  \/ Remotes(c)
  \/ Detail(c)
  \/ DetailAgain(c)
  \/ Reply(c)

Next ==
  \/ \E c \in Callers : Exec(c) \/ Answered(c)
  \/ \E c \in Sessions : Connect(c) \/ ReadLine(c) \/ ReadGarbage(c) \/ Leave(c)
  \/ \E c \in RpcCalls : CallRpc(c) \/ CancelRpc(c)
  \/ StopAccepting
  \/ LaunchNext
  \/ \E a \in Addrs : Stop(a)

Spec == Init /\ [][Next]_vars

\* A task that is ready is polled. Nothing is assumed of callers, nor that the
\* resolution of a name comes back.
Fairness ==
  /\ \A c \in Callers : WF_vars(Signal(c))
  /\ \A a \in Addrs : WF_vars(Stop(a))

FairSpec == Spec /\ Fairness

-----------------------------------------------------------------------------
(* Properties.                                                              *)

TunnelInfo == [addr : Addrs, members : SUBSET SocketSpec, options : TunnelOptions]

\* Every variable has its type; a caller at a step of OPEN has an OPEN, and has
\* an address exactly from binding it to spawning the loop on it (or to the
\* failure in between, which gives it back), or while it closes that loop.
TypeOK ==
  /\ DOMAIN tunnels \subseteq SocketSpec
  /\ \A k \in DOMAIN tunnels : tunnels[k] \in TunnelInfo
  /\ gauge \in Int
  /\ DOMAIN loops \subseteq Addrs
  /\ \A a \in DOMAIN loops : loops[a] \in SocketSpec
  /\ told \subseteq Addrs
  /\ accepting \in BOOLEAN
  /\ launched \in 0 .. Len(Launch)
  /\ call \in [Callers -> Call]
  /\ \A c \in Callers :
       /\ call[c].pc \in {"start", "bind", "contains", "insert", "signal", "again"}
            => call[c].request \in ValidRequest
       /\ call[c].pc \in {"bind", "contains", "insert"}
            => call[c].request.op = "open"
       /\ call[c].addr # NoAddr <=> call[c].pc \in {"contains", "insert", "signal"}

\* The accept loop on a belongs to a tunnel that is open.
IsOwned(a) == \E k \in DOMAIN tunnels : tunnels[k].addr = a

IsClosing(a) == \E c \in Callers : call[c].pc = "signal" /\ call[c].addr = a

\* Every open tunnel has its accept loop, which was not told to end, and every
\* accept loop that runs is the one of an open tunnel, or is told to end, or
\* is about to be: no address stays taken by a loop that CLOSE cannot reach,
\* whichever of several OPEN, CLOSE and OPEN again of one key or one address
\* come between each other's steps.
LoopsOwned ==
  /\ \A k \in DOMAIN tunnels :
       /\ tunnels[k].addr \in DOMAIN loops \ told
       /\ loops[tunnels[k].addr] = k
  /\ told \subseteq DOMAIN loops
  /\ \A a \in DOMAIN loops : IsOwned(a) \/ a \in told \/ IsClosing(a)

\* number_of_tunnels is the number of tunnels open, with several callers that
\* open and close one key at a time. (Each key resolves to one address. The
\* description of the instrument.)
GaugeIsCount == gauge = Cardinality(DOMAIN tunnels)

\* A loop that lost its tunnel ends, which frees its address for the next
\* OPEN: also when callers do not take their answers.
AddressFreed ==
  \A a \in Addrs :
    (a \in DOMAIN loops /\ ~ IsOwned(a)) ~> a \notin DOMAIN loops

-----------------------------------------------------------------------------
(* The interfaces implement the registry they promise. A request has had    *)
(* its effect when its result is known.                                     *)

Requests ==
  {Invalid} \cup {ParseLine(line) : line \in LineInputs}
            \cup {Parse(input) : input \in RpcInputs}
            \cup {Launch[i] : i \in DOMAIN Launch}

RegistryView ==
  [k \in DOMAIN tunnels |->
     [members |-> tunnels[k].members, options |-> tunnels[k].options]]

View(v) ==
  [pc |-> CASE v.pc \in {"closed", "idle"} -> "idle"
            [] v.pc \in {"signal", "answer"} -> "done"
            [] OTHER -> "pending",
   request |-> v.request,
   result  |-> v.result]

CallView == [c \in Callers |-> View(call[c])]

Promise == INSTANCE Registry WITH registry <- RegistryView, call <- CallView

\* Whatever requests are under way at once, each takes effect at one moment,
\* between its arrival and its answer, as if it were alone: OPEN answers OK
\* only if it made the tunnel, of several CLOSE of one tunnel one is answered
\* OK, STATUS shows a number there was, DETAIL remotes and, later, options there
\* were.
ImplementsRegistry == Promise!Spec
=============================================================================
