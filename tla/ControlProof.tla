---------------------------- MODULE ControlProof ----------------------------
(***************************************************************************)
(* Proofs about Control for any callers, requests, addresses and names: no *)
(* address is kept by an accept loop that CLOSE cannot reach, and where a  *)
(* name has one address the count of tunnels is exact.                     *)
(***************************************************************************)
EXTENDS Control, TLAPS, FiniteSetTheorems, WellFoundedInduction

USE CallersAssumption, AddressesAssumption, HostsAssumption,
    DefaultOptionsAssumption

-----------------------------------------------------------------------------
(* What requests are parsed to.                                             *)

LEMMA GreatestIndex ==
  ASSUME NEW n \in Nat, NEW S \in SUBSET (1 .. n), S # {}
  PROVE  \E i \in S : \A j \in S : j <= i
<1>. DEFINE T == {n - i : i \in S}
<1>0. \A i \in S : i \in 1 .. n
  OBVIOUS
<1>1. T \subseteq Nat /\ T # {}
  <2>1. \A i \in S : n - i \in Nat
    BY <1>0
  <2>2. PICK i \in S : TRUE
    OBVIOUS
  <2>3. n - i \in T
    BY <2>2
  <2>. QED
    BY <2>1, <2>3
<1>2. \E x \in T : \A y \in T : <<y, x>> \notin OpToRel(<, Nat)
  <2>. HIDE DEF T
  <2>. QED
    BY <1>1, NatLessThanWellFounded, WFMin
<1>3. PICK x \in T : \A y \in T : ~ (y < x)
  <2>. HIDE DEF T
  <2>. QED
    BY <1>1, <1>2 DEF OpToRel
<1>4. PICK i \in S : x = n - i
  OBVIOUS
<1>5. ASSUME NEW j \in S PROVE j <= i
  <2>1. ~ (n - j < n - i)
    BY <1>3, <1>4
  <2>2. i \in Int /\ j \in Int
    BY <1>0
  <2>. QED
    BY <2>1, <2>2
<1>. QED
  BY <1>5

\* Items of an option list.
Items == Seq([name : STRING, value : Int])

LEMMA ElementType ==
  ASSUME NEW S, NEW s \in Seq(S), NEW i \in DOMAIN s
  PROVE  s[i] \in S
OBVIOUS

LEMMA OptionValueType ==
  ASSUME NEW items \in Items, OptionsParse(items), NEW name, NEW default \in Nat
  PROVE  OptionValue(items, name, default) \in Nat
<1>. DEFINE named == {i \in DOMAIN items : items[i].name = name}
<1>1. CASE named = {}
  BY <1>1 DEF OptionValue
<1>2. CASE named # {}
  <2>. DEFINE last == CHOOSE i \in named : \A j \in named : j <= i
  <2>1. Len(items) \in Nat /\ named \in SUBSET (1 .. Len(items))
    BY DEF Items
  <2>2. \E i \in named : \A j \in named : j <= i
    <3>. HIDE DEF named
    <3>. QED
      BY <1>2, <2>1, GreatestIndex
  <2>3. last \in named
    BY <2>2
  <2>4. last \in DOMAIN items
    BY <2>3
  <2>5. items[last].value \in Int
    <3>1. \A i \in DOMAIN items : items[i] \in [name : STRING, value : Int]
      BY ElementType DEF Items
    <3>. HIDE DEF last
    <3>. QED
      BY <2>4, <3>1
  <2>6. items[last].value >= 0
    BY <2>4 DEF OptionsParse
  <2>7. OptionValue(items, name, default) = items[last].value
    BY <1>2 DEF OptionValue
  <2>. QED
    BY <2>5, <2>6, <2>7
<1>. QED
  BY <1>1, <1>2

LEMMA OptionsType ==
  ASSUME NEW items \in Items, OptionsParse(items)
  PROVE  ParseOptions(items) \in TunnelOptions
<1>1. OptionValue(items, "retries", DefaultOptions.remote_connect_retries) \in Nat
  BY OptionValueType
<1>2. OptionValue(items, "errors", DefaultOptions.errors_till_dead) \in Nat
  BY OptionValueType
<1>. QED
  BY <1>1, <1>2 DEF ParseOptions, TunnelOptions

LEMMA SpecType ==
  ASSUME NEW text \in Text, ParseSpec(text) # NoSpec
  PROVE  ParseSpec(text) \in SocketSpec
BY DEF ParseSpec, Text, SocketSpec, NoSpec

LEMMA InvalidIsValidRequest == Invalid \in ValidRequest
BY DEF Invalid, Request, ValidRequest, AnyRequest, Ops

LEMMA ParsedIsValidRequest ==
  ASSUME NEW input \in [op : Ops, args : Seq(Text), options : Items]
  PROVE  Parse(input) \in ValidRequest
<1>. DEFINE specs == [i \in DOMAIN input.args |-> ParseSpec(input.args[i])]
            bad == \/ Len(specs) \notin Arity(input.op)
                   \/ \E i \in DOMAIN specs : specs[i] = NoSpec
                   \/ ~ OptionsParse(input.options)
            key == IF specs = <<>> THEN NoSpec ELSE specs[1]
            remotes == {specs[i] : i \in DOMAIN specs \ {1}}
            options == IF input.op = "open"
                       THEN ParseOptions(input.options) ELSE NoOptions
<1>1. CASE bad
  <2>1. Parse(input) = Invalid
    BY <1>1 DEF Parse
  <2>. QED
    BY <2>1, InvalidIsValidRequest
<1>2. CASE ~ bad
  <2>1. Parse(input) = Request(input.op, key, remotes, options)
    BY <1>2 DEF Parse
  <2>2. Len(input.args) \in Nat /\ DOMAIN input.args = 1 .. Len(input.args)
        /\ \A i \in DOMAIN input.args : input.args[i] \in Text
    OBVIOUS
  <2>3. \A i \in DOMAIN specs : specs[i] \in SocketSpec
    BY <1>2, <2>2, SpecType
  <2>4. Len(specs) = Len(input.args)
    BY <2>2
  <2>5. input.op = "open" => specs # <<>> /\ 1 \in DOMAIN specs
    BY <1>2, <2>2, <2>4 DEF Arity
  <2>6. specs # <<>> => 1 \in DOMAIN specs
    BY <2>2, <2>4
  <2>7. key \in SocketSpec \cup {NoSpec} /\ remotes \in SUBSET SocketSpec
    <3>. HIDE DEF specs
    <3>. QED
      BY <2>3, <2>6
  <2>8. input.op = "open" => key \in SocketSpec
    <3>. HIDE DEF specs
    <3>. QED
      BY <2>3, <2>5
  <2>9. options \in TunnelOptions \cup {NoOptions}
        /\ (input.op = "open" => options \in TunnelOptions)
    BY <1>2, OptionsType
  <2>. HIDE DEF specs, key, remotes, options
  <2>. QED
    BY <2>1, <2>7, <2>8, <2>9 DEF Request, ValidRequest, AnyRequest
<1>. QED
  BY <1>1, <1>2

LEMMA LineIsValidRequest ==
  ASSUME NEW line \in [op : Ops, args : Seq(Text), options : Items]
  PROVE  ParseLine(line) \in ValidRequest
<1>1. Request("help", NoSpec, {}, NoOptions) \in ValidRequest
  BY DEF Request, ValidRequest, AnyRequest, Ops
<1>. QED
  BY <1>1, ParsedIsValidRequest, InvalidIsValidRequest DEF ParseLine, ParseTunnel

-----------------------------------------------------------------------------
(* Types: of one caller, of the rest, and what a step of one caller does.   *)

Proper(v) ==
  /\ v \in Call
  /\ v.pc \in {"start", "bind", "contains", "insert", "signal", "again"}
       => v.request \in ValidRequest
  /\ v.pc \in {"bind", "contains", "insert"} => v.request.op = "open"
  /\ v.addr # NoAddr <=> v.pc \in {"contains", "insert", "signal"}

CallsOK ==
  /\ call \in [Callers -> Call]
  /\ \A c \in Callers : Proper(call[c])

WorldOK ==
  /\ DOMAIN tunnels \subseteq SocketSpec
  /\ IsFiniteSet(DOMAIN tunnels)
  /\ \A k \in DOMAIN tunnels : tunnels[k] \in TunnelInfo
  /\ gauge \in Int
  /\ DOMAIN loops \subseteq Addrs
  /\ \A a \in DOMAIN loops : loops[a] \in SocketSpec
  /\ told \subseteq Addrs
  /\ accepting \in BOOLEAN
  /\ launched \in 0 .. Len(Launch)

TypeInv == CallsOK /\ WorldOK

LEMMA TypeInvImpliesTypeOK == TypeInv => TypeOK
BY DEF TypeInv, CallsOK, WorldOK, Proper, TypeOK

\* The step sets call[c] to v and leaves the other callers alone.
Moves(c, v) ==
  /\ Proper(v)
  /\ call' \in [Callers -> Call]
  /\ call'[c] = v
  /\ \A d \in Callers \ {c} : call'[d] = call[d]

LEMMA AssignMoves ==
  ASSUME CallsOK, NEW c \in Callers, NEW v, Proper(v),
         call' = [call EXCEPT ![c] = v]
  PROVE  Moves(c, v)
BY DEF CallsOK, Proper, Moves

LEMMA MovesKeepCalls ==
  ASSUME CallsOK, NEW c \in Callers, NEW v, Moves(c, v)
  PROVE  CallsOK'
<1>1. call' \in [Callers -> Call]
  BY DEF Moves
<1>2. ASSUME NEW d \in Callers PROVE Proper(call'[d])
  <2>1. CASE d = c
    BY <2>1 DEF Moves
  <2>2. CASE d # c
    BY <2>2 DEF Moves, CallsOK
  <2>. QED
    BY <2>1, <2>2
<1>. QED
  BY <1>1, <1>2 DEF CallsOK, Proper

\* A step of one caller to where it holds no address.
Rests(c) == \E v : Moves(c, v) /\ v.pc \notin {"contains", "insert", "signal"}

LEMMA BegunProper ==
  ASSUME NEW request \in ValidRequest
  PROVE  /\ Proper(Begun(request))
         /\ Proper([Begun(request) EXCEPT !.last = TRUE])
         /\ Begun(request).pc = "start"
BY DEF Begun, IdleCall, NoResult, Result, Results, Proper, Call, CallPcs

LEMMA IdleProper ==
  /\ Proper(IdleCall) /\ Proper(ClosedCall)
  /\ IdleCall.pc = "idle" /\ ClosedCall.pc = "closed"
BY DEF ClosedCall, IdleCall, NoResult, Result, Results, Proper, Call, CallPcs

LEMMA GotoMoves ==
  ASSUME CallsOK, NEW c \in Callers,
         NEW pc \in {"bind", "insert", "again"}, Goto(c, pc),
         call[c].request \in ValidRequest,
         pc # "again" => call[c].request.op = "open",
         pc = "insert" <=> call[c].addr # NoAddr
  PROVE  Moves(c, [call[c] EXCEPT !.pc = pc])
<1>1. call[c] \in Call
  BY DEF CallsOK
<1>2. Proper([call[c] EXCEPT !.pc = pc])
  BY <1>1 DEF Proper, Call, CallPcs
<1>3. call' = [call EXCEPT ![c] = [call[c] EXCEPT !.pc = pc]]
  BY DEF Goto
<1>. QED
  BY <1>2, <1>3, AssignMoves

LEMMA AnswerMoves ==
  ASSUME CallsOK, NEW c \in Callers, NEW result \in Results, Answer(c, result)
  PROVE  Rests(c)
<1>. DEFINE v == [call[c] EXCEPT !.pc = "answer", !.result = result, !.addr = NoAddr]
<1>1. call[c] \in Call
  BY DEF CallsOK
<1>2. v.pc = "answer" /\ v \in Call /\ v.addr = NoAddr
  BY <1>1 DEF Call, CallPcs
<1>3. Proper(v)
  BY <1>2 DEF Proper
<1>4. call' = [call EXCEPT ![c] = v]
  BY DEF Answer
<1>. QED
  BY <1>2, <1>3, <1>4, AssignMoves DEF Rests

LEMMA SeeMoves ==
  ASSUME CallsOK, NEW c \in Callers, NEW result \in Results, See(c, result),
         call[c].request \in ValidRequest, call[c].addr = NoAddr
  PROVE  Rests(c)
<1>. DEFINE v == [call[c] EXCEPT !.pc = "again", !.result = result]
<1>1. call[c] \in Call
  BY DEF CallsOK
<1>2. v.pc = "again" /\ v \in Call /\ v.addr = NoAddr /\ v.request = call[c].request
  BY <1>1 DEF Call, CallPcs
<1>3. Proper(v)
  BY <1>2 DEF Proper
<1>4. call' = [call EXCEPT ![c] = v]
  BY DEF See
<1>. QED
  BY <1>2, <1>3, <1>4, AssignMoves DEF Rests

LEMMA ResultTypes ==
  /\ Ok \in Results /\ Sorry \in Results /\ NoResult \in Results
  /\ \A n \in Nat, remotes \in SUBSET SocketSpec,
        options \in TunnelOptions \cup {NoOptions} :
       /\ Result("ok", n, remotes, options) \in Results
       /\ Result("seen", n, remotes, options) \in Results
BY DEF Ok, Sorry, NoResult, Result, Results

-----------------------------------------------------------------------------
(* The type invariant is inductive.                                         *)

LEMMA TypeInit == Init => TypeInv
<1>. SUFFICES ASSUME Init PROVE TypeInv
  OBVIOUS
<1>1. CallsOK
  BY IdleProper DEF Init, CallsOK, Proper
<1>2. IsFiniteSet(DOMAIN tunnels) /\ DOMAIN tunnels = {}
  BY FS_EmptySet DEF Init
<1>3. 0 \in 0 .. Len(Launch)
  BY LaunchAssumption
<1>. QED
  BY <1>1, <1>2, <1>3 DEF Init, TypeInv, WorldOK

\* Nothing but the callers changes.
LEMMA UnchangedWorld ==
  ASSUME WorldOK, Unchanged PROVE WorldOK'
BY DEF WorldOK, Unchanged

LEMMA ReadLineMoves ==
  ASSUME CallsOK, NEW c \in Sessions, ReadLine(c) PROVE Rests(c)
<1>1. PICK line \in LineInputs : call' = [call EXCEPT ![c] = Begun(ParseLine(line))]
  BY DEF ReadLine
<1>2. ParseLine(line) \in ValidRequest
  BY InputsAssumption, LineIsValidRequest DEF Items
<1>. QED
  BY <1>1, <1>2, BegunProper, AssignMoves DEF Rests, Callers

LEMMA CallRpcMoves ==
  ASSUME CallsOK, NEW c \in RpcCalls, CallRpc(c) PROVE Rests(c)
<1>1. PICK input \in RpcInputs : call' = [call EXCEPT ![c] = Begun(Parse(input))]
  BY DEF CallRpc
<1>2. Parse(input) \in ValidRequest
  BY InputsAssumption, ParsedIsValidRequest DEF Items
<1>. QED
  BY <1>1, <1>2, BegunProper, AssignMoves DEF Rests, Callers

LEMMA ReadGarbageMoves ==
  ASSUME CallsOK, NEW c \in Callers, ReadGarbage(c) PROVE Rests(c)
<1>1. [Begun(Invalid) EXCEPT !.last = TRUE].pc = "start"
  BY DEF Begun, IdleCall
<1>. QED
  BY <1>1, InvalidIsValidRequest, BegunProper, AssignMoves DEF ReadGarbage, Rests

LEMMA LaunchMoves ==
  ASSUME TypeInv, LaunchNext
  PROVE  Rests(Main) /\ launched' \in 0 .. Len(Launch)
<1>1. Len(Launch) \in Nat /\ launched + 1 \in 1 .. Len(Launch)
  BY LaunchAssumption DEF LaunchNext, TypeInv, WorldOK
<1>2. Launch[launched + 1] \in ValidRequest
  BY <1>1, LaunchAssumption
<1>3. Rests(Main)
  BY <1>2, BegunProper, AssignMoves DEF LaunchNext, TypeInv, Rests, Callers
<1>. QED
  BY <1>1, <1>3 DEF LaunchNext

\* Waiting for a request, and its end.
LEMMA IdleMoves ==
  ASSUME CallsOK, NEW c \in Callers,
         Connect(c) \/ Leave(c) \/ CancelRpc(c) \/ Answered(c)
  PROVE  Rests(c) /\ Unchanged
<1>1. call' = [call EXCEPT ![c] = IdleCall] \/ call' = [call EXCEPT ![c] = ClosedCall]
  BY DEF Connect, Leave, CancelRpc, Answered
<1>2. Unchanged
  BY DEF Connect, Leave, CancelRpc, Answered
<1>. QED
  BY <1>1, <1>2, IdleProper, AssignMoves DEF Rests

LEMMA CountNowType ==
  ASSUME WorldOK PROVE CountNow \in Results
<1>1. Cardinality(DOMAIN tunnels) \in Nat
  BY FS_CardinalityType DEF WorldOK
<1>. QED
  BY <1>1, ResultTypes DEF CountNow

\* Steps of a request that read the registry at most.
LEMMA ReadingMoves ==
  ASSUME TypeInv, NEW c \in Callers,
         \/ CheckExists(c)
         \/ Status(c)
         \/ StatusAgain(c)
         \/ Info(c)
         \/ Remotes(c)
         \/ Detail(c)
         \/ DetailAgain(c)
         \/ Reply(c)
  PROVE  Rests(c) /\ Unchanged
<1>. USE DEF TypeInv
<1>1. Unchanged
  BY DEF CheckExists, Status, StatusAgain, Info, Remotes, Detail, DetailAgain, Reply
<1>2. call[c].pc = "start" => call[c].addr = NoAddr /\ call[c].request \in ValidRequest
  BY DEF CallsOK, Proper
<1>3. CASE CheckExists(c)
  <2>1. CASE Answer(c, Sorry)
    BY <1>1, <2>1, AnswerMoves, ResultTypes
  <2>2. CASE Goto(c, "bind")
    <3>1. Moves(c, [call[c] EXCEPT !.pc = "bind"])
      BY <1>2, <1>3, <2>2, GotoMoves DEF CheckExists, At
    <3>2. [call[c] EXCEPT !.pc = "bind"].pc = "bind"
      BY DEF CallsOK, Proper, Call
    <3>. QED
      BY <1>1, <3>1, <3>2 DEF Rests
  <2>. QED
    BY <1>3, <2>1, <2>2 DEF CheckExists
<1>4. ASSUME call[c].pc = "start", Goto(c, "again") PROVE Rests(c)
  <2>1. Moves(c, [call[c] EXCEPT !.pc = "again"])
    BY <1>2, <1>4, GotoMoves
  <2>2. [call[c] EXCEPT !.pc = "again"].pc = "again"
    BY DEF CallsOK, Proper, Call
  <2>. QED
    BY <2>1, <2>2 DEF Rests
<1>5. CASE Status(c)
  BY <1>1, <1>4, <1>5, CountNowType, AnswerMoves DEF Status, At
<1>6. CASE StatusAgain(c)
  BY <1>1, <1>6, CountNowType, AnswerMoves DEF StatusAgain
<1>7. ASSUME IsOpen(Key(c))
      PROVE  /\ tunnels[Key(c)].options \in TunnelOptions
             /\ tunnels[Key(c)].members \in SUBSET SocketSpec
  BY <1>7 DEF IsOpen, WorldOK, TunnelInfo
<1>8. call[c].result.remotes \in SUBSET SocketSpec
  BY DEF CallsOK, Call, Results
<1>10. CASE Info(c)
  <2>1. ASSUME IsOpen(Key(c))
        PROVE  Result("ok", 0, tunnels[Key(c)].members, tunnels[Key(c)].options)
                 \in Results
    BY <1>7, <2>1, ResultTypes
  <2>. QED
    BY <1>1, <1>10, <2>1, ResultTypes, AnswerMoves DEF Info
<1>11. CASE Remotes(c)
  <2>1. ASSUME IsOpen(Key(c))
        PROVE  Result("ok", 0, tunnels[Key(c)].members, NoOptions) \in Results
    BY <1>7, <2>1, ResultTypes
  <2>. QED
    BY <1>1, <1>11, <2>1, ResultTypes, AnswerMoves DEF Remotes
<1>12. CASE Detail(c)
  <2>1. CASE IsOpen(Key(c))
    <3>1. Result("seen", 0, tunnels[Key(c)].members, NoOptions) \in Results
      BY <1>7, <2>1, ResultTypes
    <3>. QED
      BY <1>1, <1>2, <1>12, <2>1, <3>1, SeeMoves DEF Detail, At
  <2>2. CASE ~ IsOpen(Key(c))
    BY <1>1, <1>12, <2>2, ResultTypes, AnswerMoves DEF Detail
  <2>. QED
    BY <2>1, <2>2
<1>13. CASE DetailAgain(c)
  <2>1. ASSUME IsOpen(Key(c))
        PROVE  Result("ok", 0, call[c].result.remotes, tunnels[Key(c)].options)
                 \in Results
    BY <1>7, <1>8, <2>1, ResultTypes
  <2>. QED
    BY <1>1, <1>13, <2>1, ResultTypes, AnswerMoves DEF DetailAgain
<1>9. CASE Reply(c)
  BY <1>1, <1>9, ResultTypes, AnswerMoves DEF Reply
<1>. QED
  BY <1>3, <1>5, <1>6, <1>9, <1>10, <1>11, <1>12, <1>13

\* c has bound a.
Binds(c, a) ==
  /\ a \in Addresses[Key(c)] \ Held
  /\ Moves(c, [call[c] EXCEPT !.pc = "contains", !.addr = a])

LEMMA BindMoves ==
  ASSUME TypeInv, NEW c \in Callers, Bind(c)
  PROVE  Unchanged /\ (Rests(c) \/ \E a \in Addrs : Binds(c, a))
<1>1. Unchanged
  BY DEF Bind
<1>2. CASE Answer(c, Sorry)
  BY <1>1, <1>2, AnswerMoves, ResultTypes DEF TypeInv
<1>3. ASSUME NEW a \in Addresses[Key(c)] \ Held,
             call' = [call EXCEPT ![c].pc = "contains", ![c].addr = a]
      PROVE  Binds(c, a) /\ a \in Addrs
  <2>. DEFINE v == [call[c] EXCEPT !.pc = "contains", !.addr = a]
  <2>1. /\ call[c] \in Call /\ call[c].request \in ValidRequest
        /\ call[c].request.op = "open"
    BY DEF Bind, TypeInv, CallsOK, Proper
  <2>2. Key(c) \in SocketSpec
    BY <2>1 DEF Key, ValidRequest
  <2>3. a \in Addrs
    BY <1>3, <2>2
  <2>4. Proper(v)
    BY <2>1, <2>3 DEF Proper, Call, CallPcs
  <2>5. call' = [call EXCEPT ![c] = v]
    BY <1>3
  <2>. QED
    BY <1>3, <2>3, <2>4, <2>5, AssignMoves DEF Binds, TypeInv
<1>. QED
  BY <1>1, <1>2, <1>3 DEF Bind

LEMMA CheckContainsMoves ==
  ASSUME TypeInv, NEW c \in Callers, CheckContains(c)
  PROVE  /\ Unchanged
         /\ Rests(c) \/ (/\ ~ IsOpen(Key(c))
                         /\ Moves(c, [call[c] EXCEPT !.pc = "insert"]))
<1>1. Unchanged
  BY DEF CheckContains
<1>2. CASE IsOpen(Key(c))
  BY <1>1, <1>2, AnswerMoves, ResultTypes DEF CheckContains, TypeInv
<1>3. CASE ~ IsOpen(Key(c))
  <2>1. /\ call[c].request \in ValidRequest /\ call[c].request.op = "open"
        /\ call[c].addr # NoAddr
    BY DEF CheckContains, TypeInv, CallsOK, Proper
  <2>. QED
    BY <1>1, <1>3, <2>1, GotoMoves DEF CheckContains, TypeInv
<1>. QED
  BY <1>2, <1>3

LEMMA InsertMoves ==
  ASSUME TypeInv, NEW c \in Callers, Insert(c)
  PROVE  Rests(c) /\ WorldOK' /\ Key(c) \in SocketSpec /\ call[c].addr \in Addrs
<1>1. /\ call[c].request \in ValidRequest /\ call[c].request.op = "open"
      /\ call[c].addr \in Addrs
  BY DEF Insert, TypeInv, CallsOK, Proper, Call
<1>2. Rests(c)
  BY AnswerMoves, ResultTypes DEF Insert, TypeInv
<1>3. Key(c) \in SocketSpec /\ call[c].request.remotes \in SUBSET SocketSpec
      /\ call[c].request.options \in TunnelOptions
  BY <1>1 DEF Key, ValidRequest, AnyRequest
<1>4. IsFiniteSet(DOMAIN tunnels \cup {Key(c)})
  BY FS_AddElement DEF TypeInv, WorldOK
<1>5. WorldOK'
  BY <1>1, <1>3, <1>4 DEF Insert, TypeInv, WorldOK, TunnelInfo, IsOpen
<1>. QED
  BY <1>1, <1>2, <1>3, <1>5

\* c has removed the open tunnel of its key and is about to signal its loop.
Removes(c) ==
  /\ Key(c) \in DOMAIN tunnels
  /\ tunnels' = [j \in DOMAIN tunnels \ {Key(c)} |-> tunnels[j]]
  /\ gauge' = gauge - 1
  /\ Moves(c, [call[c] EXCEPT !.pc = "signal", !.result = Ok,
                              !.addr = tunnels[Key(c)].addr])

LEMMA RemoveMoves ==
  ASSUME TypeInv, NEW c \in Callers, RemoveTunnel(c)
  PROVE  /\ WorldOK'
         /\ UNCHANGED <<loops, told>>
         /\ (Rests(c) /\ UNCHANGED <<tunnels, gauge>>) \/ Removes(c)
<1>. DEFINE k == Key(c)
<1>1. call[c] \in Call /\ call[c].request \in ValidRequest
  BY DEF RemoveTunnel, At, TypeInv, CallsOK, Proper
<1>2. CASE IsOpen(k)
  <2>. DEFINE v == [call[c] EXCEPT !.pc = "signal", !.result = Ok,
                                   !.addr = tunnels[k].addr]
  <2>1. tunnels[k].addr \in Addrs
    BY <1>2 DEF IsOpen, TypeInv, WorldOK, TunnelInfo
  <2>2. Proper(v)
    BY <1>1, <2>1, ResultTypes DEF Proper, Call, CallPcs
  <2>3. call' = [call EXCEPT ![c] = v]
    BY <1>2 DEF RemoveTunnel
  <2>4. Removes(c)
    BY <1>2, <2>2, <2>3, AssignMoves DEF RemoveTunnel, Removes, IsOpen, TypeInv
  <2>5. IsFiniteSet(DOMAIN tunnels \ {k})
    BY FS_RemoveElement DEF TypeInv, WorldOK
  <2>6. WorldOK'
    BY <1>2, <2>5 DEF RemoveTunnel, TypeInv, WorldOK
  <2>. QED
    BY <2>4, <2>6 DEF RemoveTunnel
<1>3. CASE ~ IsOpen(k)
  BY <1>3, AnswerMoves, ResultTypes DEF RemoveTunnel, TypeInv, WorldOK
<1>. QED
  BY <1>2, <1>3

LEMMA SignalMoves ==
  ASSUME TypeInv, NEW c \in Callers, Signal(c)
  PROVE  Rests(c) /\ WorldOK'
<1>1. call[c] \in Call /\ call[c].addr \in Addrs
  BY DEF Signal, TypeInv, CallsOK, Proper, Call
<1>2. Rests(c)
  BY <1>1, AnswerMoves DEF Signal, TypeInv, Call
<1>3. WorldOK'
  BY <1>1 DEF Signal, TypeInv, WorldOK
<1>. QED
  BY <1>2, <1>3

LEMMA StopKeepsTypes ==
  ASSUME TypeInv, NEW a \in Addrs, Stop(a)
  PROVE  CallsOK' /\ WorldOK'
<1>1. CallsOK'
  BY DEF Stop, TypeInv, CallsOK, Proper
<1>2. WorldOK'
  BY DEF Stop, TypeInv, WorldOK
<1>. QED
  BY <1>1, <1>2

\* The tunnels open and their accept loops stay the same.
SameTunnels ==
  /\ DOMAIN tunnels' = DOMAIN tunnels
  /\ \A k \in DOMAIN tunnels : tunnels'[k].addr = tunnels[k].addr
  /\ UNCHANGED <<gauge, loops, told>>

LEMMA ChangeRemotesMoves ==
  ASSUME TypeInv, NEW c \in Callers, ChangeRemotes(c)
  PROVE  Rests(c) /\ WorldOK' /\ SameTunnels
<1>1. call[c].request \in AnyRequest
  BY DEF ChangeRemotes, At, TypeInv, CallsOK, Proper, ValidRequest
<1>2. Rests(c)
  BY AnswerMoves, ResultTypes DEF ChangeRemotes, TypeInv
<1>0. UNCHANGED <<gauge, loops, told, accepting, launched>>
  BY DEF ChangeRemotes
<1>3. CASE UNCHANGED tunnels
  BY <1>0, <1>2, <1>3 DEF TypeInv, WorldOK, SameTunnels
<1>4. ASSUME IsOpen(call[c].request.key), NEW members,
             members \subseteq tunnels[call[c].request.key].members
                         \cup call[c].request.remotes,
             tunnels' = [tunnels EXCEPT ![call[c].request.key].members = members]
      PROVE  WorldOK' /\ SameTunnels
  <2>1. members \in SUBSET SocketSpec
    BY <1>1, <1>4 DEF AnyRequest, IsOpen, TypeInv, WorldOK, TunnelInfo
  <2>2. DOMAIN tunnels' = DOMAIN tunnels
    BY <1>4
  <2>3. ASSUME NEW k \in DOMAIN tunnels
        PROVE  tunnels'[k] \in TunnelInfo /\ tunnels'[k].addr = tunnels[k].addr
    BY <1>4, <2>1 DEF TypeInv, WorldOK, TunnelInfo
  <2>. QED
    BY <1>0, <2>2, <2>3 DEF TypeInv, WorldOK, SameTunnels
<1>. DEFINE q == call[c].request
            old == tunnels[q.key].members
            new == IF q.op = "add" THEN old \cup q.remotes ELSE old \ q.remotes
<1>5. \/ UNCHANGED tunnels
      \/ IsOpen(q.key) /\ tunnels' = [tunnels EXCEPT ![q.key].members = new]
  BY DEF ChangeRemotes, IsOpen
<1>6. new \subseteq old \cup q.remotes
  OBVIOUS
<1>. HIDE DEF new
<1>. QED
  BY <1>2, <1>3, <1>4, <1>5, <1>6

LEMMA RestsKeepCalls ==
  ASSUME CallsOK, NEW c \in Callers, Rests(c) PROVE CallsOK'
BY MovesKeepCalls DEF Rests

LEMMA TypeNext ==
  ASSUME TypeInv, [Next]_vars
  PROVE  TypeInv'
<1>1. CASE UNCHANGED vars
  BY <1>1 DEF vars, TypeInv, CallsOK, WorldOK, Proper
<1>2. ASSUME NEW c \in Callers, Exec(c) PROVE TypeInv'
  <2>1. CASE \/ CheckExists(c)
             \/ Status(c)
             \/ StatusAgain(c)
             \/ Info(c)
             \/ Remotes(c)
             \/ Detail(c)
             \/ DetailAgain(c)
             \/ Reply(c)
    BY <2>1, ReadingMoves, RestsKeepCalls, UnchangedWorld DEF TypeInv
  <2>2. CASE Bind(c)
    BY <2>2, BindMoves, RestsKeepCalls, MovesKeepCalls, UnchangedWorld
       DEF TypeInv, Binds
  <2>3. CASE CheckContains(c)
    BY <2>3, CheckContainsMoves, RestsKeepCalls, MovesKeepCalls, UnchangedWorld
       DEF TypeInv
  <2>4. CASE Insert(c)
    BY <2>4, InsertMoves, RestsKeepCalls DEF TypeInv
  <2>5. CASE RemoveTunnel(c)
    BY <2>5, RemoveMoves, RestsKeepCalls, MovesKeepCalls DEF TypeInv, Removes
  <2>6. CASE Signal(c)
    BY <2>6, SignalMoves, RestsKeepCalls DEF TypeInv
  <2>7. CASE ChangeRemotes(c)
    BY <2>7, ChangeRemotesMoves, RestsKeepCalls DEF TypeInv
  <2>. QED
    BY <1>2, <2>1, <2>2, <2>3, <2>4, <2>5, <2>6, <2>7 DEF Exec
<1>3. ASSUME NEW c \in Callers,
             Connect(c) \/ Leave(c) \/ CancelRpc(c) \/ Answered(c)
      PROVE  TypeInv'
  BY <1>3, IdleMoves, RestsKeepCalls, UnchangedWorld DEF TypeInv
<1>4. ASSUME NEW c \in Sessions, ReadLine(c) \/ ReadGarbage(c) PROVE TypeInv'
  BY <1>4, ReadLineMoves, ReadGarbageMoves, RestsKeepCalls, UnchangedWorld
     DEF TypeInv, ReadLine, ReadGarbage, Callers
<1>5. ASSUME NEW c \in RpcCalls, CallRpc(c) PROVE TypeInv'
  BY <1>5, CallRpcMoves, RestsKeepCalls, UnchangedWorld
     DEF TypeInv, CallRpc, Callers
<1>6. CASE StopAccepting
  BY <1>6 DEF StopAccepting, TypeInv, CallsOK, WorldOK, Proper
<1>7. CASE LaunchNext
  <2>1. CallsOK'
    BY <1>7, LaunchMoves, RestsKeepCalls DEF TypeInv, Callers
  <2>2. WorldOK'
    BY <1>7, LaunchMoves DEF LaunchNext, TypeInv, WorldOK
  <2>. QED
    BY <2>1, <2>2 DEF TypeInv
<1>8. ASSUME NEW a \in Addrs, Stop(a) PROVE TypeInv'
  BY <1>8, StopKeepsTypes DEF TypeInv
<1>. QED
  BY <1>1, <1>2, <1>3, <1>4, <1>5, <1>6, <1>7, <1>8 DEF Next, Callers

\* Every variable keeps its type; an address is held by a caller exactly while
\* it makes or ends an accept loop on it.
THEOREM TypeCorrect == Spec => []TypeOK
<1>1. Spec => []TypeInv
  BY TypeInit, TypeNext, PTL DEF Spec
<1>. QED
  BY <1>1, TypeInvImpliesTypeOK, PTL

-----------------------------------------------------------------------------
(* LoopsOwned holds because a bound address is nobody else's: no loop       *)
(* listens on it and no other caller has it; and because only one caller    *)
(* gets to close a loop, which no tunnel has and no one has told before.    *)

BoundAlone ==
  \A c \in Callers : Bound(c) =>
    /\ call[c].addr \in Addresses[Key(c)] \ DOMAIN loops
    /\ \A d \in Callers \ {c} : Bound(d) => call[d].addr # call[c].addr

ClosesAlone ==
  \A c \in Callers : call[c].pc = "signal" =>
    /\ call[c].addr \in DOMAIN loops \ told
    /\ ~ IsOwned(call[c].addr)
    /\ \A d \in Callers \ {c} :
         call[d].pc = "signal" => call[d].addr # call[c].addr

OnOwnAddress == \A k \in DOMAIN tunnels : tunnels[k].addr \in Addresses[k]

Ownership == LoopsOwned /\ BoundAlone /\ ClosesAlone /\ OnOwnAddress

LEMMA OwnershipInit == Init => Ownership
BY DEF Init, Ownership, LoopsOwned, BoundAlone, ClosesAlone, OnOwnAddress, Bound,
       ClosedCall, IdleCall, Callers

\* A caller that closes nothing goes on without an address.
LEMMA RestsKeepOwnership ==
  ASSUME Ownership, NEW c \in Callers, Rests(c), call[c].pc # "signal", SameTunnels
  PROVE  Ownership'
<1>. USE DEF Ownership, SameTunnels, Rests, Moves
<1>1. \A d \in Callers \ {c} : call'[d] = call[d]
  OBVIOUS
<1>2. call'[c].pc \notin {"contains", "insert", "signal"}
  OBVIOUS
<1>3. \A a : IsOwned(a)' <=> IsOwned(a)
  BY DEF IsOwned
<1>4. \A a : IsClosing(a)' <=> IsClosing(a)
  BY <1>1, <1>2 DEF IsClosing
<1>5. LoopsOwned'
  BY <1>3, <1>4 DEF LoopsOwned
<1>6. BoundAlone'
  BY <1>1, <1>2 DEF BoundAlone, Bound, Key
<1>7. ClosesAlone'
  BY <1>1, <1>2, <1>3 DEF ClosesAlone
<1>8. OnOwnAddress'
  BY DEF OnOwnAddress
<1>. QED
  BY <1>5, <1>6, <1>7, <1>8

LEMMA SameCallsKeepOwnership ==
  ASSUME Ownership, UNCHANGED call, SameTunnels
  PROVE  Ownership'
<1>. USE DEF Ownership, SameTunnels
<1>1. \A a : IsOwned(a)' <=> IsOwned(a)
  BY DEF IsOwned
<1>2. \A a : IsClosing(a)' <=> IsClosing(a)
  BY DEF IsClosing
<1>3. LoopsOwned'
  BY <1>1, <1>2 DEF LoopsOwned
<1>4. BoundAlone' /\ OnOwnAddress'
  BY DEF BoundAlone, OnOwnAddress, Bound, Key
<1>5. ClosesAlone'
  BY <1>1 DEF ClosesAlone
<1>. QED
  BY <1>3, <1>4, <1>5

\* A caller that has an address of its own, or gets it.
LEMMA HoldsKeepOwnership ==
  ASSUME Ownership, SameTunnels, NEW c \in Callers, NEW a,
         call[c].pc # "signal",
         \A d \in Callers \ {c} : call'[d] = call[d],
         call'[c].pc \in {"contains", "insert"},
         call'[c].addr = a,
         call'[c].request = call[c].request,
         a \in Addresses[Key(c)] \ DOMAIN loops,
         \A d \in Callers \ {c} : Bound(d) => call[d].addr # a
  PROVE  Ownership'
<1>1. \A b : IsOwned(b)' <=> IsOwned(b)
  BY DEF IsOwned, SameTunnels
<1>2. \A b : IsClosing(b)' <=> IsClosing(b)
  BY DEF IsClosing
<1>3. LoopsOwned'
  BY <1>1, <1>2 DEF LoopsOwned, Ownership, SameTunnels
<1>4. BoundAlone'
  <2>1. \A d \in Callers : Key(d)' = Key(d)
    BY DEF Key
  <2>2. \A d \in Callers \ {c} : Bound(d)' <=> Bound(d)
    BY DEF Bound
  <2>3. ASSUME NEW d \in Callers, Bound(d)'
        PROVE  /\ call'[d].addr \in Addresses[Key(d)] \ DOMAIN loops
               /\ \A e \in Callers \ {d} : Bound(e)' => call'[e].addr # call'[d].addr
    <3>1. CASE d = c
      BY <2>2, <3>1
    <3>2. CASE d # c
      <4>1. Bound(d)
        BY <2>2, <2>3, <3>2
      <4>. QED
        BY <2>2, <3>2, <4>1 DEF Ownership, BoundAlone
    <3>. QED
      BY <3>1, <3>2
  <2>. QED
    BY <2>1, <2>3 DEF BoundAlone, SameTunnels
<1>5. ClosesAlone'
  <2>1. \A d \in Callers : call'[d].pc = "signal" => d # c /\ call'[d] = call[d]
    OBVIOUS
  <2>. QED
    BY <1>1, <2>1 DEF ClosesAlone, Ownership, SameTunnels
<1>6. OnOwnAddress'
  BY DEF OnOwnAddress, Ownership, SameTunnels
<1>. QED
  BY <1>3, <1>4, <1>5, <1>6 DEF Ownership

LEMMA BindKeepsOwnership ==
  ASSUME TypeInv, Ownership, NEW c \in Callers, NEW a \in Addrs, Binds(c, a),
         call[c].pc = "bind", SameTunnels
  PROVE  Ownership'
<1>1. /\ \A d \in Callers \ {c} : call'[d] = call[d]
      /\ call'[c].pc = "contains" /\ call'[c].addr = a
      /\ call'[c].request = call[c].request
  BY DEF Binds, Moves, TypeInv, CallsOK, Proper, Call
<1>2. a \notin DOMAIN loops /\ \A d \in Callers : Bound(d) => call[d].addr # a
  BY DEF Held, Binds
<1>3. a \in Addresses[Key(c)]
  BY DEF Binds
<1>. QED
  BY <1>1, <1>2, <1>3, HoldsKeepOwnership

LEMMA CheckContainsKeepsOwnership ==
  ASSUME TypeInv, Ownership, NEW c \in Callers, call[c].pc = "contains",
         Moves(c, [call[c] EXCEPT !.pc = "insert"]), SameTunnels
  PROVE  Ownership'
<1>1. /\ \A d \in Callers \ {c} : call'[d] = call[d]
      /\ call'[c].pc = "insert" /\ call'[c].addr = call[c].addr
      /\ call'[c].request = call[c].request
  BY DEF Moves, TypeInv, CallsOK, Proper, Call
<1>2. /\ call[c].addr \in Addresses[Key(c)] \ DOMAIN loops
      /\ \A d \in Callers \ {c} : Bound(d) => call[d].addr # call[c].addr
  BY DEF Ownership, BoundAlone, Bound
<1>. QED
  BY <1>1, <1>2, HoldsKeepOwnership

LEMMA InsertKeepsOwnership ==
  ASSUME TypeInv, Ownership, NEW c \in Callers, Insert(c)
  PROVE  Ownership'
<1>0. PICK k, a : k = Key(c) /\ a = call[c].addr
  OBVIOUS
<1>1. /\ \A d \in Callers \ {c} : call'[d] = call[d]
      /\ call'[c].pc \notin {"contains", "insert", "signal"}
  BY InsertMoves DEF Rests, Moves
<1>2. /\ a \in Addresses[k] \ DOMAIN loops
      /\ \A d \in Callers \ {c} : Bound(d) => call[d].addr # a
  BY <1>0 DEF Insert, Ownership, BoundAlone, Bound
<1>3. /\ DOMAIN tunnels' = DOMAIN tunnels \cup {k}
      /\ tunnels'[k].addr = a
      /\ \A j \in DOMAIN tunnels \ {k} : tunnels'[j] = tunnels[j]
  BY <1>0 DEF Insert
<1>4. /\ DOMAIN loops' = DOMAIN loops \cup {a}
      /\ loops'[a] = k
      /\ \A b \in DOMAIN loops : loops'[b] = loops[b]
  BY <1>0, <1>2 DEF Insert
<1>5. told' = told \cup (IF IsOpen(k) THEN {tunnels[k].addr} ELSE {})
  BY <1>0 DEF Insert
<1>6. \A j \in DOMAIN tunnels : tunnels[j].addr \in DOMAIN loops \ told
                                /\ loops[tunnels[j].addr] = j
  BY DEF Ownership, LoopsOwned
<1>7. IsOwned(a)' /\ \A b : IsOwned(b)' => b = a \/ IsOwned(b)
  BY <1>3 DEF IsOwned
<1>8. \A b : IsClosing(b)' <=> IsClosing(b)
  BY <1>1 DEF IsClosing, Insert
<1>9. LoopsOwned'
  <2>1. told' \subseteq DOMAIN loops'
    BY <1>4, <1>5, <1>6 DEF IsOpen, Ownership, LoopsOwned
  <2>2. ASSUME NEW j \in DOMAIN tunnels'
        PROVE  /\ tunnels'[j].addr \in DOMAIN loops' \ told'
               /\ loops'[tunnels'[j].addr] = j
    <3>1. CASE j = k
      BY <1>2, <1>3, <1>4, <1>5, <1>6, <3>1 DEF IsOpen, Ownership, LoopsOwned
    <3>2. CASE j # k
      BY <1>3, <1>4, <1>5, <1>6, <3>2 DEF IsOpen
    <3>. QED
      BY <3>1, <3>2
  <2>3. ASSUME NEW b \in DOMAIN loops'
        PROVE  IsOwned(b)' \/ b \in told' \/ IsClosing(b)'
    <3>1. CASE b = a
      BY <1>7, <3>1
    <3>2. CASE b \in DOMAIN loops /\ IsOwned(b)
      <4>1. PICK j \in DOMAIN tunnels : tunnels[j].addr = b
        BY <3>2 DEF IsOwned
      <4>2. CASE j = k
        BY <1>5, <4>1, <4>2 DEF IsOpen
      <4>3. CASE j # k
        BY <1>3, <4>1, <4>3 DEF IsOwned
      <4>. QED
        BY <4>2, <4>3
    <3>3. CASE b \in DOMAIN loops /\ ~ IsOwned(b)
      BY <1>5, <1>8, <3>3 DEF Ownership, LoopsOwned
    <3>. QED
      BY <1>4, <3>1, <3>2, <3>3
  <2>. QED
    BY <2>1, <2>2, <2>3 DEF LoopsOwned
<1>10. BoundAlone'
  <2>1. \A d \in Callers : Bound(d)' => d # c /\ Bound(d) /\ call'[d] = call[d]
    BY <1>1 DEF Bound
  <2>. QED
    BY <1>2, <1>4, <2>1 DEF Ownership, BoundAlone, Key
<1>11. ClosesAlone'
  <2>1. \A d \in Callers : call'[d].pc = "signal" => d # c /\ call'[d] = call[d]
    BY <1>1
  <2>2. \A d \in Callers : call[d].pc = "signal" =>
          /\ call[d].addr # a
          /\ IsOpen(k) => call[d].addr # tunnels[k].addr
    BY <1>2 DEF Ownership, ClosesAlone, IsOwned, IsOpen
  <2>. QED
    BY <1>4, <1>5, <1>7, <2>1, <2>2 DEF Ownership, ClosesAlone
<1>12. OnOwnAddress'
  BY <1>2, <1>3 DEF Ownership, OnOwnAddress
<1>. QED
  BY <1>9, <1>10, <1>11, <1>12 DEF Ownership

LEMMA RemovesKeepsOwnership ==
  ASSUME TypeInv, Ownership, NEW c \in Callers, call[c].pc = "start",
         Removes(c), UNCHANGED <<loops, told>>
  PROVE  Ownership'
<1>. DEFINE k == Key(c)
            a == tunnels[k].addr
<1>1. /\ \A d \in Callers \ {c} : call'[d] = call[d]
      /\ call'[c].pc = "signal" /\ call'[c].addr = a
  BY DEF Removes, Moves, TypeInv, CallsOK, Proper, Call
<1>2. /\ k \in DOMAIN tunnels
      /\ DOMAIN tunnels' = DOMAIN tunnels \ {k}
      /\ \A j \in DOMAIN tunnels' : tunnels'[j] = tunnels[j]
  BY DEF Removes
<1>3. \A j \in DOMAIN tunnels : tunnels[j].addr \in DOMAIN loops \ told
                                /\ loops[tunnels[j].addr] = j
  BY DEF Ownership, LoopsOwned
<1>4. \A b : IsOwned(b)' <=> IsOwned(b) /\ b # a
  BY <1>2, <1>3 DEF IsOwned
<1>5. IsOwned(a)
  BY <1>2 DEF IsOwned
<1>. HIDE DEF k, a
<1>6. \A b : IsClosing(b)' <=> IsClosing(b) \/ b = a
  BY <1>1 DEF IsClosing
<1>7. LoopsOwned'
  BY <1>2, <1>3, <1>4, <1>6 DEF Ownership, LoopsOwned
<1>8. BoundAlone'
  <2>1. \A d \in Callers : Bound(d)' => d # c /\ Bound(d) /\ call'[d] = call[d]
    BY <1>1 DEF Bound
  <2>. QED
    BY <2>1 DEF Ownership, BoundAlone, Key
<1>9. ClosesAlone'
  <2>1. a \in DOMAIN loops \ told
    BY <1>2, <1>3 DEF a
  <2>2. \A d \in Callers : call[d].pc = "signal" => call[d].addr # a
    BY <1>5 DEF Ownership, ClosesAlone
  <2>3. ASSUME NEW d \in Callers, call'[d].pc = "signal"
        PROVE  /\ call'[d].addr \in DOMAIN loops \ told
               /\ \A j \in DOMAIN tunnels' : tunnels'[j].addr # call'[d].addr
               /\ \A e \in Callers \ {d} :
                    call'[e].pc = "signal" => call'[e].addr # call'[d].addr
    <3>1. CASE d = c
      <4>1. \A j \in DOMAIN tunnels' : tunnels'[j].addr # a
        BY <1>2, <1>3 DEF a
      <4>. QED
        BY <1>1, <2>1, <2>2, <3>1, <4>1
    <3>2. CASE d # c
      <4>1. call'[d] = call[d] /\ call[d].pc = "signal"
        BY <1>1, <2>3, <3>2
      <4>2. /\ call[d].addr \in DOMAIN loops \ told
            /\ \A j \in DOMAIN tunnels' : tunnels'[j].addr # call[d].addr
            /\ \A e \in Callers \ {d} :
                 call[e].pc = "signal" => call[e].addr # call[d].addr
        BY <1>2, <4>1 DEF Ownership, ClosesAlone, IsOwned
      <4>3. \A e \in Callers \ {d} :
              call'[e].pc = "signal" => call'[e].addr # call[d].addr
        BY <1>1, <2>2, <4>1, <4>2
      <4>. QED
        BY <4>1, <4>2, <4>3
    <3>. QED
      BY <3>1, <3>2
  <2>. QED
    BY <2>3 DEF ClosesAlone, IsOwned
<1>10. OnOwnAddress'
  BY <1>2 DEF Ownership, OnOwnAddress
<1>. QED
  BY <1>7, <1>8, <1>9, <1>10 DEF Ownership

LEMMA SignalKeepsOwnership ==
  ASSUME TypeInv, Ownership, NEW c \in Callers, Signal(c)
  PROVE  Ownership'
<1>. DEFINE a == call[c].addr
<1>1. /\ \A d \in Callers \ {c} : call'[d] = call[d]
      /\ call'[c].pc \notin {"contains", "insert", "signal"}
  BY SignalMoves DEF Rests, Moves
<1>2. UNCHANGED <<tunnels, loops>> /\ told' = told \cup {a} /\ call[c].pc = "signal"
  BY DEF Signal
<1>3. /\ a \in DOMAIN loops \ told
      /\ ~ IsOwned(a)
      /\ \A d \in Callers \ {c} : call[d].pc = "signal" => call[d].addr # a
  BY <1>2 DEF Ownership, ClosesAlone
<1>4. \A b : IsOwned(b)' <=> IsOwned(b)
  BY <1>2 DEF IsOwned
<1>5. \A b : IsClosing(b) => IsClosing(b)' \/ b = a
  BY <1>1 DEF IsClosing
<1>. HIDE DEF a
<1>6. LoopsOwned'
  BY <1>2, <1>3, <1>4, <1>5 DEF Ownership, LoopsOwned, IsOwned
<1>7. BoundAlone'
  <2>1. \A d \in Callers : Bound(d)' => d # c /\ Bound(d) /\ call'[d] = call[d]
    BY <1>1 DEF Bound
  <2>. QED
    BY <1>2, <2>1 DEF Ownership, BoundAlone, Key
<1>8. ClosesAlone'
  <2>1. \A d \in Callers : call'[d].pc = "signal" => d # c /\ call'[d] = call[d]
    BY <1>1
  <2>. QED
    BY <1>2, <1>3, <1>4, <2>1 DEF Ownership, ClosesAlone
<1>9. OnOwnAddress'
  BY <1>2 DEF Ownership, OnOwnAddress
<1>. QED
  BY <1>6, <1>7, <1>8, <1>9 DEF Ownership

LEMMA StopKeepsOwnership ==
  ASSUME TypeInv, Ownership, NEW a \in Addrs, Stop(a)
  PROVE  Ownership'
<1>1. UNCHANGED <<tunnels, call>> /\ a \in told /\ told' = told \ {a}
      /\ DOMAIN loops' = DOMAIN loops \ {a}
      /\ \A b \in DOMAIN loops' : loops'[b] = loops[b]
  BY DEF Stop
<1>2. ~ IsOwned(a)
  BY <1>1 DEF Ownership, LoopsOwned, IsOwned
<1>3. \A b : (IsOwned(b)' <=> IsOwned(b)) /\ (IsClosing(b)' <=> IsClosing(b))
  BY <1>1 DEF IsOwned, IsClosing
<1>4. LoopsOwned'
  BY <1>1, <1>2, <1>3 DEF Ownership, LoopsOwned, IsOwned
<1>5. BoundAlone'
  BY <1>1 DEF Ownership, BoundAlone, Bound, Key
<1>6. ClosesAlone'
  BY <1>1, <1>3 DEF Ownership, ClosesAlone
<1>7. OnOwnAddress'
  BY <1>1 DEF Ownership, OnOwnAddress
<1>. QED
  BY <1>4, <1>5, <1>6, <1>7 DEF Ownership

LEMMA UnchangedIsSameTunnels == Unchanged => SameTunnels
BY DEF Unchanged, SameTunnels

LEMMA OwnershipNext ==
  ASSUME TypeInv, Ownership, [Next]_vars
  PROVE  Ownership'
<1>. USE UnchangedIsSameTunnels, RestsKeepOwnership
<1>1. CASE UNCHANGED vars
  BY <1>1, SameCallsKeepOwnership DEF vars, SameTunnels
<1>2. ASSUME NEW c \in Callers, Exec(c) PROVE Ownership'
  <2>1. CASE \/ CheckExists(c)
             \/ Status(c)
             \/ StatusAgain(c)
             \/ Info(c)
             \/ Remotes(c)
             \/ Detail(c)
             \/ DetailAgain(c)
             \/ Reply(c)
    <3>1. call[c].pc # "signal"
      BY <2>1 DEF CheckExists, Status, StatusAgain, Info, Remotes, Detail,
                  DetailAgain, Reply, At
    <3>. QED
      BY <2>1, <3>1, ReadingMoves
  <2>2. CASE Bind(c)
    <3>1. call[c].pc = "bind"
      BY <2>2 DEF Bind
    <3>. QED
      BY <2>2, <3>1, BindMoves, BindKeepsOwnership
  <2>3. CASE CheckContains(c)
    <3>1. call[c].pc = "contains"
      BY <2>3 DEF CheckContains
    <3>. QED
      BY <2>3, <3>1, CheckContainsMoves, CheckContainsKeepsOwnership
  <2>4. CASE Insert(c)
    BY <2>4, InsertKeepsOwnership
  <2>5. CASE RemoveTunnel(c)
    <3>1. call[c].pc = "start"
      BY <2>5 DEF RemoveTunnel, At
    <3>2. CASE Rests(c) /\ UNCHANGED <<tunnels, gauge>>
      BY <2>5, <3>1, <3>2, RemoveMoves DEF SameTunnels
    <3>3. CASE Removes(c)
      BY <2>5, <3>1, <3>3, RemoveMoves, RemovesKeepsOwnership
    <3>. QED
      BY <2>5, <3>2, <3>3, RemoveMoves
  <2>6. CASE Signal(c)
    BY <2>6, SignalKeepsOwnership
  <2>7. CASE ChangeRemotes(c)
    <3>1. call[c].pc = "start"
      BY <2>7 DEF ChangeRemotes, At
    <3>. QED
      BY <2>7, <3>1, ChangeRemotesMoves
  <2>. QED
    BY <1>2, <2>1, <2>2, <2>3, <2>4, <2>5, <2>6, <2>7 DEF Exec
<1>3. ASSUME NEW c \in Callers,
             Connect(c) \/ Leave(c) \/ CancelRpc(c) \/ Answered(c)
      PROVE  Ownership'
  <2>1. call[c].pc # "signal"
    BY <1>3 DEF Connect, Leave, CancelRpc, Answered
  <2>. QED
    BY <1>3, <2>1, IdleMoves DEF TypeInv
<1>4. ASSUME NEW c \in Sessions, ReadLine(c) \/ ReadGarbage(c) PROVE Ownership'
  <2>1. call[c].pc # "signal" /\ Unchanged /\ c \in Callers
    BY <1>4 DEF ReadLine, ReadGarbage, Callers
  <2>. QED
    BY <1>4, <2>1, ReadLineMoves, ReadGarbageMoves DEF TypeInv
<1>5. ASSUME NEW c \in RpcCalls, CallRpc(c) PROVE Ownership'
  <2>1. call[c].pc # "signal" /\ Unchanged /\ c \in Callers
    BY <1>5 DEF CallRpc, Callers
  <2>. QED
    BY <1>5, <2>1, CallRpcMoves DEF TypeInv
<1>6. CASE StopAccepting
  BY <1>6, SameCallsKeepOwnership DEF StopAccepting, SameTunnels
<1>7. CASE LaunchNext
  <2>1. call[Main].pc # "signal" /\ SameTunnels /\ Main \in Callers
    BY <1>7 DEF LaunchNext, SameTunnels, Callers
  <2>. QED
    BY <1>7, <2>1, LaunchMoves
<1>8. ASSUME NEW a \in Addrs, Stop(a) PROVE Ownership'
  BY <1>8, StopKeepsOwnership
<1>. QED
  BY <1>1, <1>2, <1>3, <1>4, <1>5, <1>6, <1>7, <1>8 DEF Next, Callers

LEMMA Invariant == Spec => [](TypeInv /\ Ownership)
<1>1. Init => TypeInv /\ Ownership
  BY TypeInit, OwnershipInit
<1>2. TypeInv /\ Ownership /\ [Next]_vars => (TypeInv /\ Ownership)'
  BY TypeNext, OwnershipNext
<1>. QED
  BY <1>1, <1>2, PTL DEF Spec

\* Whatever names and addresses there are and however many callers open and
\* close tunnels at once, every accept loop is an open tunnel's or is told to
\* end, or is about to be told.
THEOREM LoopsAreOwned == Spec => []LoopsOwned
BY Invariant, PTL DEF Ownership

-----------------------------------------------------------------------------
(* add_tunnel looks and then inserts, under two locks. The address between  *)
(* them is what keeps a second OPEN of the same key out.                    *)

OneAddressPerName == \A k \in SocketSpec : \A a, b \in Addresses[k] : a = b

LEMMA InsertsNewKey ==
  ASSUME OneAddressPerName, TypeInv, Ownership, NEW c \in Callers, Insert(c)
  PROVE  ~ IsOpen(Key(c))
<1>1. call[c].addr \in Addresses[Key(c)] \ DOMAIN loops
  BY DEF Insert, Ownership, BoundAlone, Bound
<1>2. Key(c) \in SocketSpec
  BY InsertMoves
<1>3. IsOpen(Key(c)) => tunnels[Key(c)].addr \in Addresses[Key(c)] \cap DOMAIN loops
  BY DEF IsOpen, Ownership, LoopsOwned, OnOwnAddress
<1>. QED
  BY <1>1, <1>2, <1>3 DEF OneAddressPerName

LEMMA GaugeNext ==
  ASSUME OneAddressPerName, TypeInv, Ownership, GaugeIsCount, [Next]_vars
  PROVE  GaugeIsCount'
<1>1. IsFiniteSet(DOMAIN tunnels) /\ Cardinality(DOMAIN tunnels) \in Nat
  BY FS_CardinalityType DEF TypeInv, WorldOK
<1>2. ASSUME NEW c \in Callers, Insert(c) PROVE GaugeIsCount'
  <2>1. Key(c) \notin DOMAIN tunnels
    BY <1>2, InsertsNewKey DEF IsOpen
  <2>2. DOMAIN tunnels' = DOMAIN tunnels \cup {Key(c)} /\ gauge' = gauge + 1
    BY <1>2 DEF Insert
  <2>. QED
    BY <1>1, <2>1, <2>2, FS_AddElement DEF GaugeIsCount
<1>3. ASSUME NEW c \in Callers, Removes(c) PROVE GaugeIsCount'
  <2>1. DOMAIN tunnels' = DOMAIN tunnels \ {Key(c)} /\ gauge' = gauge - 1
        /\ Key(c) \in DOMAIN tunnels
    BY <1>3 DEF Removes
  <2>. QED
    BY <1>1, <2>1, FS_RemoveElement DEF GaugeIsCount
<1>4. ASSUME DOMAIN tunnels' = DOMAIN tunnels, gauge' = gauge PROVE GaugeIsCount'
  BY <1>4 DEF GaugeIsCount
<1>5. ASSUME NEW c \in Callers, Exec(c) PROVE GaugeIsCount'
  <2>1. CASE Insert(c)
    BY <1>2, <2>1
  <2>2. CASE RemoveTunnel(c)
    BY <1>3, <1>4, <2>2, RemoveMoves
  <2>3. CASE ChangeRemotes(c)
    BY <1>4, <2>3, ChangeRemotesMoves DEF SameTunnels
  <2>4. CASE Signal(c)
    BY <1>4, <2>4 DEF Signal
  <2>5. CASE ~ (Insert(c) \/ RemoveTunnel(c) \/ ChangeRemotes(c) \/ Signal(c))
    <3>1. Unchanged
      BY <1>5, <2>5 DEF Exec, CheckExists, Bind, CheckContains, Status, StatusAgain,
                        Info, Remotes, Detail, DetailAgain, Reply
    <3>. QED
      BY <1>4, <3>1 DEF Unchanged
  <2>. QED
    BY <2>1, <2>2, <2>3, <2>4, <2>5
<1>6. ASSUME NEW c \in Callers,
             \/ Answered(c)
             \/ Connect(c) \/ ReadLine(c) \/ ReadGarbage(c) \/ Leave(c)
             \/ CallRpc(c) \/ CancelRpc(c)
      PROVE  GaugeIsCount'
  BY <1>4, <1>6 DEF Answered, Connect, ReadLine, ReadGarbage, Leave, CallRpc,
                    CancelRpc, Unchanged
<1>7. CASE StopAccepting \/ LaunchNext \/ (\E a \in Addrs : Stop(a)) \/ UNCHANGED vars
  BY <1>4, <1>7 DEF StopAccepting, LaunchNext, Stop, vars
<1>. QED
  BY <1>5, <1>6, <1>7 DEF Next, Callers

\* Where every name has one address, number_of_tunnels counts the open tunnels
\* exactly: the look and the insertion of add_tunnel cannot be told from one step.
THEOREM GaugeExact ==
  ASSUME OneAddressPerName
  PROVE  Spec => []GaugeIsCount
<1>1. Init => GaugeIsCount
  BY FS_EmptySet DEF Init, GaugeIsCount
<1>2. TypeInv /\ Ownership /\ GaugeIsCount /\ [Next]_vars => GaugeIsCount'
  BY GaugeNext
<1>. QED
  BY <1>1, <1>2, Invariant, PTL DEF Spec
=============================================================================
