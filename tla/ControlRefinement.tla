------------------------- MODULE ControlRefinement -------------------------
(***************************************************************************)
(* Where every name has one address, the control interfaces implement      *)
(* Registry for any callers and requests: proof of Control's               *)
(* ImplementsRegistry, step by step.                                       *)
(***************************************************************************)
EXTENDS ControlProof

\* A caller that waits for nothing has neither a request nor a result.
IdleIsBlank ==
  \A c \in Callers : call[c].pc \in {"idle", "closed"} =>
    call[c].request = NoRequest /\ call[c].result = NoResult

\* DETAIL has seen the remotes when it looks again.
DetailHasSeen ==
  \A c \in Callers : At(c, "again", {"detail"}) => call[c].result.status = "seen"

LEMMA BlankView ==
  /\ View(IdleCall) = Promise!IdleCall
  /\ View(ClosedCall) = Promise!IdleCall
BY DEF View, IdleCall, ClosedCall, NoResult, Result, Promise!IdleCall,
       Promise!NoResult, Promise!Result

LEMMA SameResults ==
  /\ Promise!Ok = Ok /\ Promise!Sorry = Sorry
  /\ \A status, n, remotes, options :
       Promise!Result(status, n, remotes, options) = Result(status, n, remotes, options)
BY DEF Ok, Sorry, Result, Promise!Ok, Promise!Sorry, Promise!Result

LEMMA SameCardinality ==
  ASSUME NEW S PROVE Promise!Cardinality(S) = Cardinality(S)
BY DEF Promise!Cardinality, Cardinality

LEMMA MovesView ==
  ASSUME CallsOK, NEW c \in Callers, NEW v, Moves(c, v)
  PROVE  CallView' = [CallView EXCEPT ![c] = View(v)]
<1>1. CallView' = [d \in Callers |-> View(call'[d])]
  BY DEF CallView, View
<1>2. \A d \in Callers : View(call'[d]) = IF d = c THEN View(v) ELSE View(call[d])
  BY DEF Moves
<1>. QED
  BY <1>1, <1>2 DEF CallView

Pending == {"start", "bind", "contains", "insert", "again"}

LEMMA ViewOfCall ==
  ASSUME NEW c \in Callers
  PROVE  /\ CallView[c].request = call[c].request
         /\ CallView[c].result = call[c].result
         /\ call[c].pc \in Pending => CallView[c].pc = "pending"
         /\ call[c].pc \in {"signal", "answer"} => CallView[c].pc = "done"
         /\ call[c].pc \in {"idle", "closed"} => CallView[c].pc = "idle"
BY DEF CallView, View, Pending

\* An answer is the moment the request has had its effect.
LEMMA AnswerIsDone ==
  ASSUME CallsOK, NEW c \in Callers, NEW ops, NEW result,
         call[c].pc \in Pending, call[c].request.op \in ops, Answer(c, result)
  PROVE  Promise!Done(c, ops, result)
<1>. DEFINE v == [call[c] EXCEPT !.pc = "answer", !.result = result, !.addr = NoAddr]
<1>1. call[c] \in Call
  BY DEF CallsOK
<1>2. v.pc = "answer" /\ v.result = result /\ v.request = call[c].request
  BY <1>1 DEF Call
<1>3. View(v) = [pc |-> "done", request |-> call[c].request, result |-> result]
  BY <1>2 DEF View
<1>4. \A d \in Callers : call'[d] = IF d = c THEN v ELSE call[d]
  BY DEF Answer, CallsOK
<1>. HIDE DEF v
<1>5. CallView' = [d \in Callers |-> View(call'[d])]
  BY DEF CallView, View
<1>6. CallView' = [CallView EXCEPT ![c].pc = "done", ![c].result = result]
  BY <1>3, <1>4, <1>5 DEF CallView, View
<1>. QED
  BY <1>6, ViewOfCall DEF Promise!Done

LEMMA GotoIsStutter ==
  ASSUME CallsOK, NEW c \in Callers, NEW pc \in Pending,
         call[c].pc \in Pending, Goto(c, pc)
  PROVE  UNCHANGED CallView
<1>1. \A d \in Callers :
        /\ call'[d].request = call[d].request
        /\ call'[d].result = call[d].result
        /\ call'[d].pc = IF d = c THEN pc ELSE call[d].pc
  BY DEF Goto, CallsOK, Call
<1>. QED
  BY <1>1 DEF CallView, View, Pending

LEMMA SeeIsPending ==
  ASSUME CallsOK, NEW c \in Callers, NEW result,
         call[c].pc \in Pending, See(c, result)
  PROVE  CallView' = [CallView EXCEPT ![c].result = result]
<1>1. \A d \in Callers :
        /\ call'[d].request = call[d].request
        /\ call'[d].result = IF d = c THEN result ELSE call[d].result
        /\ call'[d].pc = IF d = c THEN "again" ELSE call[d].pc
  BY DEF See, CallsOK, Call
<1>2. \A d \in Callers :
        View(call'[d]) = IF d = c THEN [View(call[d]) EXCEPT !.result = result]
                         ELSE View(call[d])
  BY <1>1 DEF View, Pending
<1>3. CallView' = [d \in Callers |-> View(call'[d])]
  BY DEF CallView, View
<1>. QED
  BY <1>2, <1>3 DEF CallView

\* The concrete step is a step of the abstract registry or changes nothing of it.
Simulates == Promise!Next \/ UNCHANGED <<RegistryView, CallView>>

LEMMA UnchangedRegistry ==
  ASSUME UNCHANGED tunnels PROVE UNCHANGED RegistryView
BY DEF RegistryView

LEMMA RegistryFacts ==
  /\ DOMAIN RegistryView = DOMAIN tunnels
  /\ \A k \in DOMAIN tunnels :
       /\ RegistryView[k].members = tunnels[k].members
       /\ RegistryView[k].options = tunnels[k].options
  /\ \A c \in Callers : Promise!Known(c) <=> IsOpen(Key(c))
BY ViewOfCall DEF RegistryView, Promise!Known, IsOpen, Key

-----------------------------------------------------------------------------
LEMMA CheckExistsSimulates ==
  ASSUME TypeInv, NEW c \in Callers, CheckExists(c) PROVE Simulates
<1>1. call[c].pc \in Pending /\ call[c].request.op \in {"open"} /\ CallsOK
      /\ UNCHANGED RegistryView
  BY UnchangedRegistry DEF CheckExists, At, Pending, TypeInv, Unchanged
<1>2. CASE Answer(c, Sorry)
  BY <1>1, <1>2, AnswerIsDone, SameResults
     DEF Simulates, Promise!Next, Promise!Open
<1>3. CASE Goto(c, "bind")
  BY <1>1, <1>3, GotoIsStutter DEF Simulates, Pending
<1>. QED
  BY <1>2, <1>3 DEF CheckExists

LEMMA BindSimulates ==
  ASSUME TypeInv, NEW c \in Callers, Bind(c) PROVE Simulates
<1>1. call[c].pc \in Pending /\ call[c].request.op \in {"open"} /\ CallsOK
      /\ UNCHANGED RegistryView
  BY UnchangedRegistry DEF Bind, Pending, TypeInv, Unchanged, CallsOK, Proper
<1>2. CASE Answer(c, Sorry)
  BY <1>1, <1>2, AnswerIsDone, SameResults
     DEF Simulates, Promise!Next, Promise!Open
<1>3. ASSUME NEW a, call' = [call EXCEPT ![c].pc = "contains", ![c].addr = a]
      PROVE  UNCHANGED CallView
  <2>1. \A d \in Callers :
          /\ call'[d].request = call[d].request
          /\ call'[d].result = call[d].result
          /\ call'[d].pc = IF d = c THEN "contains" ELSE call[d].pc
    BY <1>3 DEF TypeInv, CallsOK, Call
  <2>. QED
    BY <1>1, <2>1 DEF CallView, View, Pending
<1>. QED
  BY <1>1, <1>2, <1>3 DEF Bind, Simulates

LEMMA CheckContainsSimulates ==
  ASSUME TypeInv, NEW c \in Callers, CheckContains(c) PROVE Simulates
<1>1. call[c].pc \in Pending /\ call[c].request.op \in {"open"} /\ CallsOK
      /\ UNCHANGED RegistryView
  BY UnchangedRegistry DEF CheckContains, Pending, TypeInv, Unchanged, CallsOK, Proper
<1>2. CASE Answer(c, Sorry)
  BY <1>1, <1>2, AnswerIsDone, SameResults
     DEF Simulates, Promise!Next, Promise!Open
<1>3. CASE Goto(c, "insert")
  BY <1>1, <1>3, GotoIsStutter DEF Simulates, Pending
<1>. QED
  BY <1>2, <1>3 DEF CheckContains

LEMMA InsertSimulates ==
  ASSUME OneAddressPerName, TypeInv, Ownership, NEW c \in Callers, Insert(c)
  PROVE  Simulates
<1>. DEFINE q == call[c].request
<1>1. call[c].pc \in Pending /\ q.op \in {"open"} /\ CallsOK
  BY DEF Insert, Pending, TypeInv, CallsOK, Proper
<1>2. Promise!Done(c, {"open"}, Promise!Ok)
  BY <1>1, AnswerIsDone, SameResults DEF Insert
<1>3. ~ Promise!Known(c)
  BY InsertsNewKey, RegistryFacts
<1>4. RegistryView' = [k \in DOMAIN RegistryView \cup {q.key} |->
                         IF k = q.key
                         THEN [members |-> q.remotes, options |-> q.options]
                         ELSE RegistryView[k]]
  BY DEF RegistryView, Insert, Key
<1>5. CallView[c].request = q
  BY ViewOfCall
<1>6. Promise!Open(c)
  BY <1>2, <1>3, <1>4, <1>5 DEF Promise!Open
<1>. QED
  BY <1>6 DEF Simulates, Promise!Next

LEMMA RemoveSimulates ==
  ASSUME TypeInv, NEW c \in Callers, RemoveTunnel(c) PROVE Simulates
<1>. DEFINE k == Key(c)
<1>1. call[c].pc \in Pending /\ call[c].request.op \in {"close"} /\ CallsOK
  BY DEF RemoveTunnel, At, Pending, TypeInv
<1>2. CASE IsOpen(k)
  <2>1. \A d \in Callers :
          /\ call'[d].request = call[d].request
          /\ call'[d].result = IF d = c THEN Ok ELSE call[d].result
          /\ call'[d].pc = IF d = c THEN "signal" ELSE call[d].pc
    BY <1>1, <1>2 DEF RemoveTunnel, CallsOK, Call
  <2>2. CallView' = [CallView EXCEPT ![c].pc = "done", ![c].result = Ok]
    BY <2>1 DEF CallView, View
  <2>3. Promise!Done(c, {"close"}, Promise!Ok)
    BY <1>1, <2>2, ViewOfCall, SameResults DEF Promise!Done
  <2>4. RegistryView' = [j \in DOMAIN RegistryView \ {k} |-> RegistryView[j]]
    BY <1>2 DEF RegistryView, RemoveTunnel
  <2>5. CallView[c].request.key = k
    BY ViewOfCall DEF Key
  <2>6. Promise!Close(c)
    BY <1>2, <2>3, <2>4, <2>5, RegistryFacts DEF Promise!Close
  <2>. QED
    BY <2>6 DEF Simulates, Promise!Next
<1>3. CASE ~ IsOpen(k)
  <2>1. Promise!Done(c, {"close"}, Promise!Sorry) /\ UNCHANGED RegistryView
    BY <1>1, <1>3, AnswerIsDone, SameResults, UnchangedRegistry DEF RemoveTunnel
  <2>2. Promise!Close(c)
    BY <1>3, <2>1, RegistryFacts DEF Promise!Close
  <2>. QED
    BY <2>2 DEF Simulates, Promise!Next
<1>. QED
  BY <1>2, <1>3

LEMMA SignalSimulates ==
  ASSUME TypeInv, NEW c \in Callers, Signal(c) PROVE Simulates
<1>1. \A d \in Callers :
        /\ call'[d].request = call[d].request
        /\ call'[d].result = call[d].result
        /\ call'[d].pc = IF d = c THEN "answer" ELSE call[d].pc
  BY DEF Signal, Answer, TypeInv, CallsOK, Call
<1>2. UNCHANGED CallView
  BY <1>1 DEF CallView, View, Signal
<1>. QED
  BY <1>2, UnchangedRegistry DEF Simulates, Signal

LEMMA ChangeRemotesSimulates ==
  ASSUME TypeInv, NEW c \in Callers, ChangeRemotes(c) PROVE Simulates
<1>. DEFINE q == call[c].request
            fits == IsOpen(q.key) /\ \A r \in q.remotes :
                      (r \in tunnels[q.key].members) <=> q.op = "remove"
            new == IF q.op = "add" THEN tunnels[q.key].members \cup q.remotes
                   ELSE tunnels[q.key].members \ q.remotes
            abstract == Promise!Known(c) /\ \A r \in q.remotes :
                          (r \in Promise!Tunnel(c).members) <=> q.op = "remove"
<1>1. call[c].pc \in Pending /\ q.op \in {"add", "remove"} /\ CallsOK
  BY DEF ChangeRemotes, At, Pending, TypeInv
<1>2. CallView[c].request = q
  BY ViewOfCall
<1>3. IsOpen(q.key) => Promise!Tunnel(c).members = tunnels[q.key].members
  BY <1>2, RegistryFacts DEF Promise!Tunnel, IsOpen
<1>4. Promise!Known(c) <=> IsOpen(q.key)
  BY RegistryFacts DEF Key
<1>5. abstract <=> fits
  BY <1>3, <1>4
<1>6. CASE fits
  <2>1. Promise!Done(c, {"add", "remove"}, Promise!Ok)
    BY <1>1, <1>6, AnswerIsDone, SameResults DEF ChangeRemotes
  <2>2. tunnels' = [tunnels EXCEPT ![q.key].members = new]
    BY <1>6 DEF ChangeRemotes
  <2>3. q.key \in DOMAIN tunnels
    BY <1>6 DEF IsOpen
  <2>4. \A k \in DOMAIN tunnels : tunnels[k] \in TunnelInfo
    BY DEF TypeInv, WorldOK
  <2>. HIDE DEF new
  <2>5. /\ DOMAIN tunnels' = DOMAIN tunnels
        /\ \A k \in DOMAIN tunnels :
             /\ tunnels'[k].options = tunnels[k].options
             /\ tunnels'[k].members = IF k = q.key THEN new ELSE tunnels[k].members
    BY <2>2, <2>3, <2>4 DEF TunnelInfo
  <2>6. RegistryView' = [RegistryView EXCEPT ![q.key].members = new]
    BY <2>3, <2>5 DEF RegistryView
  <2>7. RegistryView[q.key].members = tunnels[q.key].members
    BY <2>3, RegistryFacts
  <2>8. RegistryView' = [RegistryView EXCEPT ![q.key].members =
                           IF q.op = "add" THEN @ \cup q.remotes ELSE @ \ q.remotes]
    BY <2>6, <2>7 DEF new
  <2>9. Promise!Change(c)
    BY <1>2, <1>5, <1>6, <2>1, <2>8 DEF Promise!Change
  <2>. QED
    BY <2>9 DEF Simulates, Promise!Next
<1>7. CASE ~ fits
  <2>1. Promise!Done(c, {"add", "remove"}, Promise!Sorry) /\ UNCHANGED RegistryView
    BY <1>1, <1>7, AnswerIsDone, SameResults, UnchangedRegistry DEF ChangeRemotes
  <2>2. Promise!Change(c)
    BY <1>2, <1>5, <1>7, <2>1 DEF Promise!Change
  <2>. QED
    BY <2>2 DEF Simulates, Promise!Next
<1>. QED
  BY <1>6, <1>7

\* STATUS takes effect with its last reading, DETAIL with each.
LEMMA ReadingSimulates ==
  ASSUME TypeInv, DetailHasSeen, NEW c \in Callers,
         \/ Status(c) \/ StatusAgain(c)
         \/ Info(c) \/ Remotes(c)
         \/ Detail(c) \/ DetailAgain(c)
         \/ Reply(c)
  PROVE  Simulates
<1>1. call[c].pc \in Pending /\ CallsOK /\ UNCHANGED RegistryView
  BY UnchangedRegistry
     DEF Status, StatusAgain, Info, Remotes, Detail, DetailAgain, Reply, At, Pending,
         TypeInv, Unchanged
<1>2. CountNow =
        Promise!Result("ok", Promise!Cardinality(DOMAIN RegistryView), {}, NoOptions)
  BY SameResults, SameCardinality, RegistryFacts DEF CountNow
<1>3. ASSUME call[c].request.op \in {"status", "number"}, Answer(c, CountNow)
      PROVE  Simulates
  <2>. DEFINE counted ==
         Promise!Result("ok", Promise!Cardinality(DOMAIN RegistryView), {}, NoOptions)
  <2>. HIDE DEF counted
  <2>1. counted = CountNow
    BY <1>2 DEF counted
  <2>2. Promise!Done(c, {"status", "number"}, counted)
    BY <1>1, <1>3, <2>1, AnswerIsDone
  <2>3. Promise!Count(c)
    BY <1>1, <2>2, Zenon DEF Promise!Count, counted
  <2>. QED
    BY <2>3 DEF Simulates, Promise!Next
<1>4. CASE Goto(c, "again")
  BY <1>1, <1>4, GotoIsStutter DEF Simulates, Pending
<1>5. ASSUME IsOpen(Key(c))
      PROVE  /\ Promise!Known(c)
             /\ Promise!Tunnel(c).members = tunnels[Key(c)].members
             /\ Promise!Tunnel(c).options = tunnels[Key(c)].options
  BY <1>5, RegistryFacts, ViewOfCall DEF Promise!Tunnel, IsOpen, Key
<1>6. ASSUME ~ IsOpen(Key(c)),
             call[c].request.op \in {"info", "remotes", "detail"}, Answer(c, Sorry)
      PROVE  Simulates
  <2>1. ~ Promise!Known(c)
    BY <1>6, RegistryFacts
  <2>2. \A ops : call[c].request.op \in ops => Promise!Done(c, ops, Promise!Sorry)
    BY <1>1, <1>6, AnswerIsDone, SameResults
  <2>3. Promise!Look(c)
    BY <1>1, <1>6, <2>1, <2>2 DEF Promise!Look
  <2>. QED
    BY <2>3 DEF Simulates, Promise!Next
<1>7. CASE Status(c)
  BY <1>3, <1>4, <1>7 DEF Status, At
<1>8. CASE StatusAgain(c)
  BY <1>3, <1>8 DEF StatusAgain, At
<1>9. CASE Info(c)
  <2>1. CASE IsOpen(Key(c))
    <3>. DEFINE shown ==
           Promise!Result("ok", 0, Promise!Tunnel(c).members, Promise!Tunnel(c).options)
    <3>1. Answer(c, shown)
      BY <1>5, <1>9, <2>1, SameResults DEF Info
    <3>2. Promise!Done(c, {"info"}, shown)
      BY <1>1, <1>9, <3>1, AnswerIsDone DEF Info, At
    <3>3. Promise!Look(c)
      BY <1>1, <1>5, <2>1, <3>2 DEF Promise!Look
    <3>. QED
      BY <3>3 DEF Simulates, Promise!Next
  <2>2. CASE ~ IsOpen(Key(c))
    BY <1>6, <1>9, <2>2 DEF Info, At
  <2>. QED
    BY <2>1, <2>2
<1>10. CASE Remotes(c)
  <2>1. CASE IsOpen(Key(c))
    <3>. DEFINE shown == Promise!Result("ok", 0, Promise!Tunnel(c).members, NoOptions)
    <3>1. Answer(c, shown)
      BY <1>5, <1>10, <2>1, SameResults DEF Remotes
    <3>2. Promise!Done(c, {"remotes"}, shown)
      BY <1>1, <1>10, <3>1, AnswerIsDone DEF Remotes, At
    <3>3. Promise!Look(c)
      BY <1>1, <1>5, <2>1, <3>2 DEF Promise!Look
    <3>. QED
      BY <3>3 DEF Simulates, Promise!Next
  <2>2. CASE ~ IsOpen(Key(c))
    BY <1>6, <1>10, <2>2 DEF Remotes, At
  <2>. QED
    BY <2>1, <2>2
<1>12. CASE Detail(c)
  <2>1. CASE IsOpen(Key(c))
    <3>. DEFINE half == Promise!Result("seen", 0, Promise!Tunnel(c).members, NoOptions)
    <3>1. See(c, half)
      BY <1>5, <1>12, <2>1, SameResults DEF Detail
    <3>2. CallView' = [CallView EXCEPT ![c].result = half]
      BY <1>1, <3>1, SeeIsPending
    <3>3. CallView[c].pc = "pending" /\ CallView[c].request.op = "detail"
      BY <1>1, <1>12, ViewOfCall DEF Detail, At
    <3>4. Promise!Glimpse(c)
      BY <1>1, <1>5, <2>1, <3>2, <3>3 DEF Promise!Glimpse
    <3>. QED
      BY <3>4 DEF Simulates, Promise!Next
  <2>2. CASE ~ IsOpen(Key(c))
    BY <1>6, <1>12, <2>2 DEF Detail, At
  <2>. QED
    BY <2>1, <2>2
<1>13. CASE DetailAgain(c)
  <2>1. CASE IsOpen(Key(c))
    <3>. DEFINE shown ==
           Promise!Result("ok", 0, CallView[c].result.remotes, Promise!Tunnel(c).options)
    <3>1. Answer(c, shown)
      BY <1>5, <1>13, <2>1, SameResults, ViewOfCall DEF DetailAgain
    <3>2. Promise!Done(c, {"detail"}, shown)
      BY <1>1, <1>13, <3>1, AnswerIsDone DEF DetailAgain, At
    <3>3. CallView[c].result.status = "seen"
      BY <1>13, ViewOfCall DEF DetailAgain, DetailHasSeen
    <3>4. Promise!Show(c)
      BY <1>1, <1>5, <2>1, <3>2, <3>3 DEF Promise!Show
    <3>. QED
      BY <3>4 DEF Simulates, Promise!Next
  <2>2. CASE ~ IsOpen(Key(c))
    BY <1>6, <1>13, <2>2 DEF DetailAgain, At
  <2>. QED
    BY <2>1, <2>2
<1>11. CASE Reply(c)
  <2>1. CASE At(c, "start", {"help"}) /\ Answer(c, Ok)
    <3>1. Promise!Done(c, {"help"}, Promise!Ok)
      BY <1>1, <2>1, AnswerIsDone, SameResults DEF At
    <3>. QED
      BY <1>1, <3>1 DEF Simulates, Promise!Next, Promise!Reply
  <2>2. CASE At(c, "start", {"invalid"}) /\ Answer(c, Sorry)
    <3>1. Promise!Done(c, {"invalid"}, Promise!Sorry)
      BY <1>1, <2>2, AnswerIsDone, SameResults DEF At
    <3>. QED
      BY <1>1, <3>1 DEF Simulates, Promise!Next, Promise!Reply
  <2>. QED
    BY <1>11, <2>1, <2>2 DEF Reply
<1>. QED
  BY <1>7, <1>8, <1>9, <1>10, <1>11, <1>12, <1>13

-----------------------------------------------------------------------------
(* Requests arrive and end.                                                 *)

LEMMA AssignView ==
  ASSUME TypeInv, NEW c \in Callers, NEW v, call' = [call EXCEPT ![c] = v]
  PROVE  CallView' = [CallView EXCEPT ![c] = View(v)]
<1>1. \A d \in Callers : call'[d] = IF d = c THEN v ELSE call[d]
  BY DEF TypeInv, CallsOK
<1>2. CallView' = [d \in Callers |-> View(call'[d])]
  BY DEF CallView, View
<1>3. \A d \in Callers : View(call'[d]) = IF d = c THEN View(v) ELSE View(call[d])
  BY <1>1
<1>. QED
  BY <1>2, <1>3 DEF CallView

LEMMA BeginSimulates ==
  ASSUME TypeInv, NEW c \in Callers, call[c].pc = "idle", UNCHANGED tunnels,
         NEW request \in Requests,
         \/ call' = [call EXCEPT ![c] = Begun(request)]
         \/ call' = [call EXCEPT ![c] = [Begun(request) EXCEPT !.last = TRUE]]
  PROVE  Simulates
<1>. DEFINE v == [pc |-> "pending", request |-> request, result |-> Promise!NoResult]
<1>1. /\ View(Begun(request)) = v
      /\ View([Begun(request) EXCEPT !.last = TRUE]) = v
  BY DEF View, Begun, IdleCall, NoResult, Result, Promise!NoResult, Promise!Result
<1>2. CallView' = [CallView EXCEPT ![c] = v]
  BY <1>1, AssignView
<1>3. Promise!Begin(c)
  BY <1>2, ViewOfCall, UnchangedRegistry DEF Promise!Begin
<1>. QED
  BY <1>3 DEF Simulates, Promise!Next

LEMMA EndSimulates ==
  ASSUME TypeInv, IdleIsBlank, NEW c \in Callers,
         Connect(c) \/ Leave(c) \/ CancelRpc(c) \/ Answered(c)
  PROVE  Simulates
<1>1. call' = [call EXCEPT ![c] = IdleCall] \/ call' = [call EXCEPT ![c] = ClosedCall]
  BY DEF Connect, Leave, CancelRpc, Answered
<1>2. CallView' = [CallView EXCEPT ![c] = Promise!IdleCall]
  BY <1>1, AssignView, BlankView
<1>3. UNCHANGED RegistryView
  BY UnchangedRegistry DEF Connect, Leave, CancelRpc, Answered, Unchanged
<1>4. CASE Connect(c) \/ Leave(c)
  <2>1. CallView[c] = Promise!IdleCall
    BY <1>4 DEF Connect, Leave, IdleIsBlank, CallView, View, NoResult, Result,
                Promise!IdleCall, Promise!NoResult, Promise!Result
  <2>2. CallView' = CallView
    BY <1>2, <2>1 DEF CallView
  <2>. QED
    BY <1>3, <2>2 DEF Simulates
<1>5. CASE CancelRpc(c)
  <2>1. CallView[c].pc = "pending" /\ CallView[c].request.op = "open"
    BY <1>5, ViewOfCall DEF CancelRpc, Pending, TypeInv, CallsOK, Proper
  <2>2. Promise!Abandon(c)
    BY <1>2, <1>3, <2>1 DEF Promise!Abandon
  <2>. QED
    BY <2>2 DEF Simulates, Promise!Next
<1>6. CASE Answered(c)
  <2>1. CallView[c].pc = "done"
    BY <1>6, ViewOfCall DEF Answered
  <2>2. Promise!End(c)
    BY <1>2, <1>3, <2>1 DEF Promise!End
  <2>. QED
    BY <2>2 DEF Simulates, Promise!Next
<1>. QED
  BY <1>4, <1>5, <1>6

LEMMA BlankInit == Init => IdleIsBlank /\ DetailHasSeen
BY DEF Init, IdleIsBlank, DetailHasSeen, At, ClosedCall, IdleCall

LEMMA BlankNext ==
  ASSUME TypeInv, IdleIsBlank, DetailHasSeen, [Next]_vars
  PROVE  IdleIsBlank' /\ DetailHasSeen'
<1>. DEFINE Blank(v) ==
       /\ v.pc \in {"idle", "closed"} =>
            v.request = NoRequest /\ v.result = NoResult
       /\ v.pc = "again" /\ v.request.op = "detail" => v.result.status = "seen"
<1>1. Blank(IdleCall) /\ Blank(ClosedCall)
  BY DEF IdleCall, ClosedCall
<1>2. \A q : Blank(Begun(q)) /\ Blank([Begun(q) EXCEPT !.last = TRUE])
  BY DEF Begun, IdleCall
<1>10. \A d \in Callers : Blank(call[d])
  BY DEF IdleIsBlank, DetailHasSeen, At
<1>11. ASSUME \A d \in Callers : Blank(call'[d])
       PROVE  IdleIsBlank' /\ DetailHasSeen'
  BY <1>11 DEF IdleIsBlank, DetailHasSeen, At
<1>3. ASSUME NEW c \in Callers, NEW v, Blank(v), call' = [call EXCEPT ![c] = v]
      PROVE  IdleIsBlank' /\ DetailHasSeen'
  <2>1. \A d \in Callers : call'[d] = IF d = c THEN v ELSE call[d]
    BY <1>3 DEF TypeInv, CallsOK
  <2>. QED
    BY <1>3, <1>10, <1>11, <2>1
<1>4. ASSUME NEW c \in Callers, Blank(call'[c]),
             \A d \in Callers \ {c} : call'[d] = call[d]
      PROVE  IdleIsBlank' /\ DetailHasSeen'
  BY <1>4, <1>10, <1>11
<1>5. CASE UNCHANGED call
  BY <1>5, <1>10, <1>11
<1>6. ASSUME NEW c \in Callers, Exec(c) PROVE IdleIsBlank' /\ DetailHasSeen'
  <2>1. call \in [Callers -> Call]
    BY DEF TypeInv, CallsOK
  <2>2. \A result : Answer(c, result) =>
          /\ call'[c].pc = "answer"
          /\ \A d \in Callers \ {c} : call'[d] = call[d]
    BY <2>1 DEF Answer, Call
  <2>3. \A pc : Goto(c, pc) =>
          /\ call'[c].pc = pc
          /\ call'[c].request = call[c].request
          /\ \A d \in Callers \ {c} : call'[d] = call[d]
    BY <2>1 DEF Goto, Call
  <2>4. CASE Bind(c)
    <3>1. ASSUME NEW a, call' = [call EXCEPT ![c].pc = "contains", ![c].addr = a]
          PROVE  IdleIsBlank' /\ DetailHasSeen'
      BY <1>4, <2>1, <3>1 DEF Call
    <3>. QED
      BY <1>4, <2>2, <2>4, <3>1 DEF Bind
  <2>5. CASE RemoveTunnel(c)
    <3>1. ASSUME NEW a, call' = [call EXCEPT ![c].pc = "signal", ![c].result = Ok,
                                             ![c].addr = a]
          PROVE  IdleIsBlank' /\ DetailHasSeen'
      BY <1>4, <2>1, <3>1 DEF Call
    <3>. QED
      BY <1>4, <2>2, <2>5, <3>1 DEF RemoveTunnel
  <2>6. CASE Status(c) /\ Goto(c, "again")
    BY <1>4, <2>3, <2>6 DEF Status, At
  <2>7. CASE Detail(c) /\ ~ (\E result : Answer(c, result))
    <3>1. PICK result : result.status = "seen" /\ See(c, result)
      BY <2>7 DEF Detail, Result
    <3>2. /\ call'[c].pc = "again" /\ call'[c].result = result
          /\ \A d \in Callers \ {c} : call'[d] = call[d]
      BY <2>1, <3>1 DEF See, Call
    <3>. QED
      BY <1>4, <3>1, <3>2
  <2>8. CASE \/ \E result : Answer(c, result)
             \/ \E pc \in {"bind", "insert"} : Goto(c, pc)
    BY <1>4, <2>2, <2>3, <2>8
  <2>9. \/ Bind(c) \/ RemoveTunnel(c)
        \/ Status(c) /\ Goto(c, "again")
        \/ Detail(c) /\ ~ (\E result : Answer(c, result))
        \/ \E result : Answer(c, result)
        \/ \E pc \in {"bind", "insert"} : Goto(c, pc)
    BY <1>6 DEF Exec, CheckExists, CheckContains, Insert, Signal, ChangeRemotes,
                Status, StatusAgain, Info, Remotes, DetailAgain, Reply
  <2>. QED
    BY <2>4, <2>5, <2>6, <2>7, <2>8, <2>9
<1>7. ASSUME NEW c \in Callers,
             \/ Answered(c)
             \/ Connect(c) \/ ReadLine(c) \/ ReadGarbage(c) \/ Leave(c)
             \/ CallRpc(c) \/ CancelRpc(c)
      PROVE  IdleIsBlank' /\ DetailHasSeen'
  BY <1>1, <1>2, <1>3, <1>7
     DEF Answered, Connect, ReadLine, ReadGarbage, Leave, CallRpc, CancelRpc
<1>8. CASE LaunchNext
  BY <1>2, <1>3, <1>8 DEF LaunchNext, Callers
<1>9. CASE StopAccepting \/ (\E a \in Addrs : Stop(a)) \/ UNCHANGED vars
  BY <1>5, <1>9 DEF StopAccepting, Stop, vars
<1>. QED
  BY <1>6, <1>7, <1>8, <1>9 DEF Next, Callers

-----------------------------------------------------------------------------
LEMMA InitSimulates == Init => Promise!Init
BY BlankView DEF Init, Promise!Init, RegistryView, CallView

LEMMA NextSimulates ==
  ASSUME OneAddressPerName, TypeInv, Ownership, IdleIsBlank, DetailHasSeen, [Next]_vars
  PROVE  Simulates
<1>1. ASSUME UNCHANGED <<tunnels, call>> PROVE Simulates
  BY <1>1, UnchangedRegistry DEF Simulates, CallView
<1>2. ASSUME NEW c \in Callers, Exec(c) PROVE Simulates
  BY <1>2, CheckExistsSimulates, BindSimulates, CheckContainsSimulates,
     InsertSimulates, RemoveSimulates, SignalSimulates, ChangeRemotesSimulates,
     ReadingSimulates DEF Exec
<1>3. ASSUME NEW c \in Callers,
             Connect(c) \/ Leave(c) \/ CancelRpc(c) \/ Answered(c)
      PROVE  Simulates
  BY <1>3, EndSimulates
<1>4. ASSUME NEW c \in Callers,
             ReadLine(c) \/ ReadGarbage(c) \/ CallRpc(c)
      PROVE  Simulates
  BY <1>4, BeginSimulates DEF ReadLine, ReadGarbage, CallRpc, Unchanged, Requests
<1>5. CASE LaunchNext
  <2>1. Len(Launch) \in Nat /\ launched + 1 \in DOMAIN Launch
    BY <1>5, LaunchAssumption DEF LaunchNext, TypeInv, WorldOK
  <2>2. Launch[launched + 1] \in Requests
    BY <2>1 DEF Requests
  <2>. QED
    BY <1>5, <2>2, BeginSimulates DEF LaunchNext, Callers
<1>6. CASE StopAccepting \/ (\E a \in Addrs : Stop(a)) \/ UNCHANGED vars
  BY <1>1, <1>6 DEF StopAccepting, Stop, vars
<1>. QED
  BY <1>2, <1>3, <1>4, <1>5, <1>6 DEF Next, Callers

\* Where every name has one address, every request takes effect at one moment
\* between its arrival and its answer, for any number of sessions and RPC calls.
THEOREM RegistryImplemented ==
  ASSUME OneAddressPerName
  PROVE  Spec => ImplementsRegistry
<1>1. Init => IdleIsBlank /\ DetailHasSeen
  BY BlankInit
<1>2. TypeInv /\ IdleIsBlank /\ DetailHasSeen /\ [Next]_vars
        => IdleIsBlank' /\ DetailHasSeen'
  BY BlankNext
<1>3. Init => Promise!Init
  BY InitSimulates
<1>4. TypeInv /\ Ownership /\ IdleIsBlank /\ DetailHasSeen /\ [Next]_vars
        => [Promise!Next]_(Promise!vars)
  BY NextSimulates DEF Simulates, Promise!vars
<1>. QED
  BY <1>1, <1>2, <1>3, <1>4, Invariant, PTL DEF Spec, ImplementsRegistry, Promise!Spec
=============================================================================
