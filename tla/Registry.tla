------------------------------ MODULE Registry ------------------------------
(***************************************************************************)
(* What the control interfaces promise: every request of a caller takes    *)
(* effect at one moment between its arrival and its answer, on a registry  *)
(* that maps a tunnel's key to its remotes and options. DETAIL takes two:  *)
(* its remotes and its options may be of two tunnels, each there in turn.  *)
(***************************************************************************)
EXTENDS Integers, FiniteSets

CONSTANTS
  Callers,
  Requests,    \* records: op, key, remotes, options
  NoRequest,
  NoOptions

VARIABLES
  registry,    \* key -> [members, options] of the open tunnels
  call         \* caller -> the request it waits for

vars == <<registry, call>>

Result(status, count, remotes, options) ==
  [status |-> status, count |-> count, remotes |-> remotes, options |-> options]

NoResult == Result("none", 0, {}, NoOptions)
Ok       == Result("ok", 0, {}, NoOptions)
Sorry    == Result("sorry", 0, {}, NoOptions)

IdleCall == [pc |-> "idle", request |-> NoRequest, result |-> NoResult]

Init ==
  /\ registry = [k \in {} |-> {}]
  /\ call = [c \in Callers |-> IdleCall]

Begin(c) ==
  /\ call[c].pc = "idle"
  /\ \E q \in Requests :
       call' = [call EXCEPT ![c] =
                  [pc |-> "pending", request |-> q, result |-> NoResult]]
  /\ UNCHANGED registry

\* The request of c is one of these operations and now has this result.
Done(c, ops, result) ==
  /\ call[c].pc = "pending"
  /\ call[c].request.op \in ops
  /\ call' = [call EXCEPT ![c].pc = "done", ![c].result = result]

Known(c) == call[c].request.key \in DOMAIN registry

Tunnel(c) == registry[call[c].request.key]

\* An address can be impossible to bind for reasons of its own.
Open(c) ==
  LET q == call[c].request IN
  \/ /\ Done(c, {"open"}, Sorry)
     /\ UNCHANGED registry
  \/ /\ Done(c, {"open"}, Ok)
     /\ ~ Known(c)
     /\ registry' = [k \in DOMAIN registry \cup {q.key} |->
                       IF k = q.key
                       THEN [members |-> q.remotes, options |-> q.options]
                       ELSE registry[k]]

Close(c) ==
  \/ /\ Done(c, {"close"}, Sorry)
     /\ ~ Known(c)
     /\ UNCHANGED registry
  \/ /\ Done(c, {"close"}, Ok)
     /\ Known(c)
     /\ registry' = [k \in DOMAIN registry \ {call[c].request.key} |-> registry[k]]

\* ADD of one remote that is not there, REMOVE of one that is.
Change(c) ==
  LET q == call[c].request
      fits == Known(c) /\ \A r \in q.remotes :
                            (r \in Tunnel(c).members) <=> q.op = "remove"
  IN \/ /\ Done(c, {"add", "remove"}, Sorry)
        /\ ~ fits
        /\ UNCHANGED registry
     \/ /\ Done(c, {"add", "remove"}, Ok)
        /\ fits
        /\ registry' = [registry EXCEPT ![q.key].members =
                          IF q.op = "add" THEN @ \cup q.remotes
                          ELSE @ \ q.remotes]

Count(c) ==
  /\ Done(c, {"status", "number"},
          Result("ok", Cardinality(DOMAIN registry), {}, NoOptions))
  /\ UNCHANGED registry

Look(c) ==
  /\ \/ Done(c, {"info"},
             IF Known(c)
             THEN Result("ok", 0, Tunnel(c).members, Tunnel(c).options) ELSE Sorry)
     \/ Done(c, {"remotes"},
             IF Known(c) THEN Result("ok", 0, Tunnel(c).members, NoOptions) ELSE Sorry)
     \/ Done(c, {"detail"}, Sorry) /\ ~ Known(c)
  /\ UNCHANGED registry

\* The remotes DETAIL will show.
Glimpse(c) ==
  /\ call[c].pc = "pending"
  /\ call[c].request.op = "detail"
  /\ Known(c)
  /\ call' = [call EXCEPT ![c].result = Result("seen", 0, Tunnel(c).members, NoOptions)]
  /\ UNCHANGED registry

\* DETAIL shows them with the options there are now.
Show(c) ==
  /\ call[c].result.status = "seen"
  /\ Known(c)
  /\ Done(c, {"detail"}, Result("ok", 0, call[c].result.remotes, Tunnel(c).options))
  /\ UNCHANGED registry

\* Requests that are about no tunnel.
Reply(c) ==
  /\ Done(c, {"help"}, Ok) \/ Done(c, {"invalid"}, Sorry)
  /\ UNCHANGED registry

\* The caller gets its answer.
End(c) ==
  /\ call[c].pc = "done"
  /\ call' = [call EXCEPT ![c] = IdleCall]
  /\ UNCHANGED registry

\* The caller went away while its OPEN waited for an address.
Abandon(c) ==
  /\ call[c].pc = "pending"
  /\ call[c].request.op = "open"
  /\ call' = [call EXCEPT ![c] = IdleCall]
  /\ UNCHANGED registry

Next == \E c \in Callers :
  \/ Begin(c)
  \/ Open(c)
  \/ Close(c)
  \/ Change(c)
  \/ Count(c)
  \/ Look(c)
  \/ Glimpse(c)
  \/ Show(c)
  \/ Reply(c)
  \/ End(c)
  \/ Abandon(c)

Spec == Init /\ [][Next]_vars
=============================================================================
