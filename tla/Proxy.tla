------------------------------- MODULE Proxy -------------------------------
(***************************************************************************)
(* The running proxy: the registry of tunnels, the accept loop of every    *)
(* tunnel, the task of every client connection, the check_dead tasks of    *)
(* dead remotes, and the administrator's commands (src/state.rs,           *)
(* src/lib.rs).                                                            *)
(*                                                                         *)
(* Tasks run in parallel. Each call of a State method locks one entry of   *)
(* the registry for its duration and no task holds a lock across an await, *)
(* so a step here is one such call with the local computation around it.   *)
(* Tasks refer to a tunnel by its KEY, the local socket spec, and to a     *)
(* remote by its spec: what a task finds under the key when it comes back  *)
(* from an await may have been changed, removed, or removed and made again.*)
(*                                                                         *)
(* The strategy that picks a remote is abstracted to "any remote in        *)
(* rotation", which is what the default strategy (Random) does.            *)
(***************************************************************************)
EXTENDS TunnelInfo

CONSTANTS
  Keys,        \* local socket specs, the keys of the registry
  NoKey,       \* a connection slot in no tunnel
  Conns,       \* client connections there can be at one time
  RemoteSets,  \* the sets of remotes OPEN commands name
  Removable    \* the remotes REMOVE commands name

ASSUME NoKeyAssumption == NoKey \notin Keys
ASSUME RemoteSetsAssumption == RemoteSets \subseteq SUBSET Remotes
ASSUME RemovableAssumption == Removable \subseteq Remotes

VARIABLES
  tunnels,   \* StateInner.tunnels: key -> Info, for the open tunnels
  listener,  \* key -> channel of the accept loop bound to it, 0 if none
  opened,    \* number of tunnels opened so far
  conns,     \* connection -> its process_socket task
  checks     \* check id -> its check_dead task

vars == <<tunnels, listener, opened, conns, checks>>

-----------------------------------------------------------------------------
(* Tasks.                                                                   *)

\* Where a process_socket task is: the State call it executes next, or the
\* await it is in ("connecting", "copying").
ConnPcs == {"idle", "accepted", "counted", "select", "connecting",
            "copying", "closing"}

\* finish_receiver, retries, last_remote and the options cloned by
\* select_remote are local variables of the task.
Conn == [pc : ConnPcs, key : Keys \cup {NoKey}, channel : 0 .. MaxOpens,
         retries : Nat, remote : Remotes \cup {NoRemote},
         errors_till_dead : Nat]

IdleConn == [pc |-> "idle", key |-> NoKey, channel |-> 0, retries |-> 0,
             remote |-> NoRemote, errors_till_dead |-> 0]

\* A check_dead task sleeps and probes (await, can be aborted); then it knows
\* whether the remote is "live" or "unreachable" and can no longer be aborted.
CheckPcs == {"free", "waiting", "live", "unreachable"}

Check == [pc : CheckPcs, key : Keys \cup {NoKey},
          remote : Remotes \cup {NoRemote}]

FreeCheck == [pc |-> "free", key |-> NoKey, remote |-> NoRemote]

WaitingCheck(k, r) == [pc |-> "waiting", key |-> k, remote |-> r]

FreeChecks == {id \in CheckIds : checks[id].pc = "free"}

\* tokio::spawn(check_dead): ids are handed out lowest first.
IsNextCheck(id) == id \in FreeChecks /\ \A j \in FreeChecks : id <= j

\* The same in a check_dead task, which ends with the spawn: its own id is
\* what it can hand on when no other is free.
IsNextCheckAfter(id, next) ==
  IF FreeChecks = {} THEN next = id ELSE IsNextCheck(next)

\* The tunnel of this channel was closed: its watch channel holds true.
IsClosed(channel) ==
  /\ channel \in 1 .. opened
  /\ \A k \in DOMAIN tunnels : tunnels[k].close_channel # channel

IsOpen(k) == k \in DOMAIN tunnels

IsDead(k, r) == IsOpen(k) /\ r \in DOMAIN tunnels[k].dead_remotes

Update(k, ti) == tunnels' = [tunnels EXCEPT ![k] = ti]

-----------------------------------------------------------------------------
Init ==
  /\ tunnels = [k \in {} |-> {}]
  /\ listener = [k \in Keys |-> 0]
  /\ opened = 0
  /\ conns = [c \in Conns |-> IdleConn]
  /\ checks = [id \in CheckIds |-> FreeCheck]

-----------------------------------------------------------------------------
(* The administrator's commands. One that fails changes nothing.            *)

\* start_tunnel: the key must be new (TunnelExists) and the address free to
\* bind (IOError); the accept loop is spawned with the registered tunnel.
OpenTunnel(k, remotes, options) ==
  /\ opened < MaxOpens
  /\ ~ IsOpen(k)
  /\ listener[k] = 0
  /\ opened' = opened + 1
  /\ tunnels' = Put(tunnels, k, NewTunnelInfo(opened + 1, remotes, options))
  /\ listener' = [listener EXCEPT ![k] = opened + 1]
  /\ UNCHANGED <<conns, checks>>

\* Fault: the checks of the tunnel's dead remotes are not aborted.
CloseWithoutAbort(k) ==
  /\ IsOpen(k)
  /\ tunnels' = Drop(tunnels, k)
  /\ UNCHANGED <<listener, opened, conns, checks>>

\* stop_tunnel: the entry is removed, the checks of its dead remotes are
\* aborted (which stops those still at an await), and true is sent on its
\* channel. The send only lets other tasks stop, so a delay of it is a delay
\* of their steps.
CloseTunnel(k) ==
  /\ IsOpen(k)
  /\ LET handles == {tunnels[k].dead_remotes[r].join_handle :
                       r \in DOMAIN tunnels[k].dead_remotes}
     IN checks' = [id \in CheckIds |->
                     IF id \in handles /\ checks[id].pc = "waiting"
                     THEN FreeCheck ELSE checks[id]]
  /\ tunnels' = Drop(tunnels, k)
  /\ UNCHANGED <<listener, opened, conns>>

AddRemote(k, r) ==
  /\ IsOpen(k)
  /\ may_add(tunnels[k], r)
  /\ Update(k, add_remote(tunnels[k], r))
  /\ UNCHANGED <<listener, opened, conns, checks>>

RemoveRemote(k, r) ==
  /\ IsOpen(k)
  /\ r \in Members(tunnels[k])
  /\ Update(k, remove_remote(tunnels[k], r))
  /\ UNCHANGED <<listener, opened, conns, checks>>

-----------------------------------------------------------------------------
(* The accept loop (run_tunnel).                                            *)

\* select! takes either ready branch, so a client may still be accepted after
\* the tunnel was closed.
Accept(k, c) ==
  /\ listener[k] # 0
  /\ conns[c].pc = "idle"
  /\ conns' = [conns EXCEPT ![c] =
                 [IdleConn EXCEPT !.pc = "accepted", !.key = k,
                                  !.channel = listener[k]]]
  /\ UNCHANGED <<tunnels, listener, opened, checks>>

\* close_channel.changed(): the loop ends and drops the listener.
StopListening(k) ==
  /\ listener[k] # 0
  /\ IsClosed(listener[k])
  /\ listener' = [listener EXCEPT ![k] = 0]
  /\ UNCHANGED <<tunnels, opened, conns, checks>>

-----------------------------------------------------------------------------
(* A client connection (process_socket).                                    *)

ClientConnected(c) ==
  LET k == conns[c].key IN
  /\ conns[c].pc = "accepted"
  /\ tunnels' = IF IsOpen(k)
                THEN [tunnels EXCEPT ![k] = client_connected(@)]
                ELSE tunnels
  /\ conns' = [conns EXCEPT ![c].pc = "counted"]
  /\ UNCHANGED <<listener, opened, checks>>

\* remote_retries(..)?: without the tunnel the task returns at once, and does
\* not call client_disconnected.
ReadRetries(c) ==
  LET k == conns[c].key IN
  /\ conns[c].pc = "counted"
  /\ conns' = [conns EXCEPT ![c] =
                 IF IsOpen(k)
                 THEN [@ EXCEPT !.pc = "select",
                         !.retries = tunnels[k].options.remote_connect_retries]
                 ELSE IdleConn]
  /\ UNCHANGED <<tunnels, listener, opened, checks>>

\* What becomes of the task once r is counted as pending: it connects with the
\* options of the tunnel, or dies of an unusable timeout.
AfterSelect(c, r) ==
  LET options == tunnels[conns[c].key].options IN
  IF options.connect_timeout = "usable"
  THEN [conns[c] EXCEPT !.pc = "connecting", !.remote = r,
                        !.errors_till_dead = options.errors_till_dead]
  ELSE IdleConn

\* Fault: the number of attempts made is not checked.
SelectUnbounded(c) ==
  LET k == conns[c].key IN
  /\ conns[c].pc = "select"
  /\ IsOpen(k)
  /\ \E r \in DOMAIN tunnels[k].remotes :
       /\ Update(k, select(tunnels[k], r))
       /\ conns' = [conns EXCEPT ![c] = AfterSelect(c, r)]
  /\ UNCHANGED <<listener, opened, checks>>

SelectRemote(c) ==
  LET k == conns[c].key IN
  /\ conns[c].pc = "select"
  /\ conns[c].retries > 0
  /\ IsOpen(k)
  /\ \E r \in DOMAIN tunnels[k].remotes :
       /\ Update(k, select(tunnels[k], r))
       /\ conns' = [conns EXCEPT ![c] = AfterSelect(c, r)]
  /\ UNCHANGED <<listener, opened, checks>>

\* The loop ends without a connection: retries are used up, or select_remote
\* finds no tunnel or no remote in rotation.
GiveUp(c) ==
  LET k == conns[c].key IN
  /\ conns[c].pc = "select"
  /\ \/ conns[c].retries = 0
     \/ ~ IsOpen(k)
     \/ IsOpen(k) /\ DOMAIN tunnels[k].remotes = {}
  /\ conns' = [conns EXCEPT ![c].pc = "closing"]
  /\ UNCHANGED <<tunnels, listener, opened, checks>>

\* The remote end accepted within the timeout. Should streams_pending
\* underflow in a checked build, the task dies here.
RemoteConnected(c) ==
  LET k == conns[c].key
      r == conns[c].remote IN
  /\ conns[c].pc = "connecting"
  /\ tunnels' = IF IsOpen(k)
                THEN [tunnels EXCEPT ![k] = connected(@, r)]
                ELSE tunnels
  /\ conns' = [conns EXCEPT ![c] =
                 IF /\ IsOpen(k)
                    /\ r \in DOMAIN tunnels[k].remotes
                    /\ Panics(tunnels[k].remotes[r].streams_pending)
                 THEN IdleConn
                 ELSE [@ EXCEPT !.pc = "copying"]]
  /\ UNCHANGED <<listener, opened, checks>>

\* Fault: a failed attempt is not counted.
RetryForEver(c) ==
  [conns[c] EXCEPT !.pc = "select", !.remote = NoRemote, !.errors_till_dead = 0]

\* What remains of the task after a failed attempt.
AfterError(c) ==
  LET k == conns[c].key
      r == conns[c].remote
  IN IF /\ IsOpen(k)
        /\ r \in DOMAIN tunnels[k].remotes
        /\ Panics(tunnels[k].remotes[r].streams_pending)
     THEN IdleConn
     ELSE [conns[c] EXCEPT !.pc = "select", !.retries = @ - 1,
                           !.remote = NoRemote, !.errors_till_dead = 0]

\* The attempt failed or timed out and the remote, if it is still in
\* rotation, stays there.
RemoteError(c) ==
  LET k == conns[c].key
      r == conns[c].remote IN
  /\ conns[c].pc = "connecting"
  /\ ~ (IsOpen(k) /\ is_dead(tunnels[k], r, conns[c].errors_till_dead))
  /\ tunnels' = IF IsOpen(k)
                THEN [tunnels EXCEPT ![k] = count_error(@, r)]
                ELSE tunnels
  /\ conns' = [conns EXCEPT ![c] = AfterError(c)]
  /\ UNCHANGED <<listener, opened, checks>>

\* The attempt failed or timed out and takes the remote out of rotation.
RemoteDied(c) ==
  LET k == conns[c].key
      r == conns[c].remote IN
  /\ conns[c].pc = "connecting"
  /\ IsOpen(k)
  /\ is_dead(tunnels[k], r, conns[c].errors_till_dead)
  /\ \E id \in CheckIds :
       /\ IsNextCheck(id)
       /\ checks' = [checks EXCEPT ![id] = WaitingCheck(k, r)]
       /\ Update(k, bury(tunnels[k], r, id))
  /\ conns' = [conns EXCEPT ![c] = AfterError(c)]
  /\ UNCHANGED <<listener, opened>>

\* copy_bidirectional returns: end of stream or an error on either side.
CopyDone(c) ==
  /\ conns[c].pc = "copying"
  /\ conns' = [conns EXCEPT ![c].pc = "closing"]
  /\ UNCHANGED <<tunnels, listener, opened, checks>>

\* Fault: the finish signal is not polled.
NeverFinishes(c) == FALSE /\ UNCHANGED vars

\* copy_bidirectional returns: the finish signal of the tunnel that accepted
\* the client.
CopyFinished(c) ==
  /\ conns[c].pc = "copying"
  /\ IsClosed(conns[c].channel)
  /\ conns' = [conns EXCEPT ![c].pc = "closing"]
  /\ UNCHANGED <<tunnels, listener, opened, checks>>

\* Fault: a connection that reached no remote is not counted down.
DisconnectOnlyConnected(c) ==
  LET k == conns[c].key IN
  /\ conns[c].pc = "closing"
  /\ tunnels' = IF IsOpen(k) /\ conns[c].remote # NoRemote
                THEN [tunnels EXCEPT ![k] =
                        client_disconnected(@, conns[c].remote)]
                ELSE tunnels
  /\ conns' = [conns EXCEPT ![c] = IdleConn]
  /\ UNCHANGED <<listener, opened, checks>>

\* The last call of the task; a panic in it changes nothing more.
ClientDisconnected(c) ==
  LET k == conns[c].key IN
  /\ conns[c].pc = "closing"
  /\ tunnels' = IF IsOpen(k)
                THEN [tunnels EXCEPT ![k] =
                        client_disconnected(@, conns[c].remote)]
                ELSE tunnels
  /\ conns' = [conns EXCEPT ![c] = IdleConn]
  /\ UNCHANGED <<listener, opened, checks>>

-----------------------------------------------------------------------------
(* A check of a dead remote (check_dead).                                   *)

ProbeAnswered(id) ==
  /\ checks[id].pc = "waiting"
  /\ checks' = [checks EXCEPT ![id].pc = "live"]
  /\ UNCHANGED <<tunnels, listener, opened, conns>>

ProbeFailed(id) ==
  /\ checks[id].pc = "waiting"
  /\ checks' = [checks EXCEPT ![id].pc = "unreachable"]
  /\ UNCHANGED <<tunnels, listener, opened, conns>>

\* Fault: the remote is put in rotation whether or not it is still dead.
ReviveAnyway(id) ==
  LET k == checks[id].key
      r == checks[id].remote IN
  /\ checks[id].pc = "live"
  /\ tunnels' = IF IsDead(k, r)
                THEN [tunnels EXCEPT ![k] = recover(@, r)]
                ELSE IF IsOpen(k)
                THEN [tunnels EXCEPT ![k] = add_remote(@, r)]
                ELSE tunnels
  /\ checks' = [checks EXCEPT ![id] = FreeCheck]
  /\ UNCHANGED <<listener, opened, conns>>

\* The task ends; the remote, if it is still dead, is back in rotation.
Revive(id) ==
  LET k == checks[id].key
      r == checks[id].remote IN
  /\ checks[id].pc = "live"
  /\ tunnels' = IF IsDead(k, r)
                THEN [tunnels EXCEPT ![k] = recover(@, r)]
                ELSE tunnels
  /\ checks' = [checks EXCEPT ![id] = FreeCheck]
  /\ UNCHANGED <<listener, opened, conns>>

\* Fault: a failed check is not followed by another.
GiveUpOnRemote(id) ==
  LET k == checks[id].key
      r == checks[id].remote IN
  /\ checks[id].pc = "unreachable"
  /\ checks' = [checks EXCEPT ![id] = FreeCheck]
  /\ UNCHANGED <<tunnels, listener, opened, conns>>

\* The task ends; it has spawned the next check if the remote is still dead.
CheckAgain(id) ==
  LET k == checks[id].key
      r == checks[id].remote IN
  /\ checks[id].pc = "unreachable"
  /\ \/ /\ ~ IsDead(k, r)
        /\ checks' = [checks EXCEPT ![id] = FreeCheck]
        /\ UNCHANGED tunnels
     \/ /\ IsDead(k, r)
        /\ \E next \in CheckIds :
             /\ IsNextCheckAfter(id, next)
             /\ checks' = [checks EXCEPT ![id] = FreeCheck,
                                         ![next] = WaitingCheck(k, r)]
             /\ Update(k, recheck(tunnels[k], r, next))
  /\ UNCHANGED <<listener, opened, conns>>

-----------------------------------------------------------------------------
AdminStep ==
  \/ \E k \in Keys, remotes \in RemoteSets, options \in Options :
       OpenTunnel(k, remotes, options)
  \/ \E k \in Keys : CloseTunnel(k)
  \/ \E k \in Keys, r \in Remotes : AddRemote(k, r)
  \/ \E k \in Keys, r \in Removable : RemoveRemote(k, r)

ListenerStep ==
  \/ \E k \in Keys, c \in Conns : Accept(k, c)
  \/ \E k \in Keys : StopListening(k)

\* What a connection's task does by itself: the runtime polls a task that is
\* ready, a connection attempt ends (timeout at the latest), the finish signal
\* is polled. When a copy ends is up to its two peers.
ConnTask(c) ==
  \/ ClientConnected(c)
  \/ ReadRetries(c)
  \/ SelectRemote(c)
  \/ GiveUp(c)
  \/ RemoteConnected(c)
  \/ RemoteError(c)
  \/ RemoteDied(c)
  \/ CopyFinished(c)
  \/ ClientDisconnected(c)

ConnStep == \E c \in Conns : ConnTask(c) \/ CopyDone(c)

CheckTask(id) ==
  \/ ProbeAnswered(id)
  \/ ProbeFailed(id)
  \/ Revive(id)
  \/ CheckAgain(id)

CheckStep == \E id \in CheckIds : CheckTask(id)

Next == AdminStep \/ ListenerStep \/ ConnStep \/ CheckStep

Spec == Init /\ [][Next]_vars

\* Tasks the tokio runtime polls when they are ready.
TaskFairness ==
  /\ \A k \in Keys : WF_vars(StopListening(k))
  /\ \A c \in Conns : WF_vars(ConnTask(c))
  /\ \A id \in CheckIds : WF_vars(CheckTask(id))

FairSpec == Spec /\ TaskFairness

\* The environment's part: a remote that is probed for ever answers in the end.
Answers(k, r) ==
  \E id \in CheckIds : /\ checks[id].key = k
                       /\ checks[id].remote = r
                       /\ ProbeAnswered(id)

-----------------------------------------------------------------------------
(* Properties.                                                              *)

\* Every variable has its type; a connection in a tunnel names a key, and one
\* that has picked a remote names it.
TypeOK ==
  /\ IsMap(tunnels, Keys)
  /\ \A k \in DOMAIN tunnels : IsInfo(tunnels[k])
  /\ listener \in [Keys -> 0 .. MaxOpens]
  /\ opened \in 0 .. MaxOpens
  /\ conns \in [Conns -> Conn]
  /\ checks \in [CheckIds -> Check]
  /\ \A c \in Conns :
       /\ conns[c].pc # "idle" => conns[c].key \in Keys
       /\ conns[c].pc \in {"connecting", "copying"} => conns[c].remote \in Remotes

\* A remote of a tunnel is either in rotation or dead, never both: the three
\* ways it can move (an error, a check, an ADD) exclude each other although
\* they run in different tasks.
LiveDeadDisjoint ==
  \A k \in DOMAIN tunnels :
    DOMAIN tunnels[k].remotes \cap DOMAIN tunnels[k].dead_remotes = {}

\* Every dead remote has a running check, the one its join_handle names: a
\* remote out of rotation is never forgotten, whatever closes, removals and
\* late checks of earlier tunnels happen meanwhile.
DeadIsChecked ==
  \A k \in DOMAIN tunnels : \A r \in DOMAIN tunnels[k].dead_remotes :
    LET check == checks[tunnels[k].dead_remotes[r].join_handle]
    IN check.pc # "free" /\ check.key = k /\ check.remote = r

\* The error count of a remote agrees with its place: below errors_till_dead
\* in rotation (zero in the edge case of threshold 0), at or above it when
\* dead. (Release build; every tunnel opened with the same threshold.)
ErrorsMatchPlace ==
  \A k \in DOMAIN tunnels :
    LET ti == tunnels[k]
        threshold == ti.options.errors_till_dead
    IN /\ \A r \in DOMAIN ti.remotes :
            \/ ti.remotes[r].num_errors = 0
            \/ ti.remotes[r].num_errors < threshold
       /\ \A r \in DOMAIN ti.dead_remotes :
            ti.dead_remotes[r].remote.num_errors >= threshold

\* The connections a tunnel's streams_open is meant to count: those that it
\* accepted itself, not an earlier tunnel with the same key.
CountedOn(k) ==
  {c \in Conns : /\ conns[c].key = k
                 /\ conns[c].channel = tunnels[k].close_channel
                 /\ conns[c].pc \notin {"idle", "accepted"}}

\* streams_open of a tunnel is the number of its connections.
TunnelCountExact ==
  \A k \in DOMAIN tunnels :
    tunnels[k].streams_open = Cardinality(CountedOn(k))

\* A tunnel shows every connection it has ("number of currently opened
\* connections"): no task takes away what another was counted for.
NoConnectionHidden ==
  \A k \in DOMAIN tunnels :
    tunnels[k].streams_open >= Cardinality(CountedOn(k))

PendingOn(k, r) ==
  {c \in Conns : /\ conns[c].key = k
                 /\ conns[c].remote = r
                 /\ conns[c].pc = "connecting"}

OpenOn(k, r) ==
  {c \in Conns : /\ conns[c].key = k
                 /\ conns[c].remote = r
                 /\ conns[c].pc \in {"copying", "closing"}}

\* The counters of remote r are the number of connections being established
\* and the number of connections established to it.
CountsOf(k, r) ==
  /\ tunnels[k].remotes[r].streams_pending = Cardinality(PendingOn(k, r))
  /\ tunnels[k].remotes[r].streams_open = Cardinality(OpenOn(k, r))

\* The counters of every remote in rotation are exact.
RemoteCountsExact ==
  \A k \in DOMAIN tunnels : \A r \in DOMAIN tunnels[k].remotes : CountsOf(k, r)

\* The counters are exact in a tunnel whose remotes do not die because its
\* threshold is out of reach: every way an attempt or a stream can end is
\* counted once. (The tunnel is not opened again, no remote is removed.)
SteadyCountsExact ==
  \A k \in DOMAIN tunnels : tunnels[k].options.errors_till_dead > ErrorCap =>
    \A r \in DOMAIN tunnels[k].remotes : CountsOf(k, r)

\* A sleeping or probing check belongs to a remote that is dead now, and is
\* the check its join_handle names. (The comment on check_dead.)
WaitingChecksTargetDead ==
  \A id \in CheckIds : checks[id].pc = "waiting" =>
    LET k == checks[id].key
        r == checks[id].remote
    IN IsDead(k, r) /\ tunnels[k].dead_remotes[r].join_handle = id

\* Traffic, errors and checks move a remote between rotation and dead_remotes
\* and never add or lose one: only the administrator changes what remotes a
\* tunnel has, and only a tunnel that exists.
OnlyAdminChangesMembers ==
  [][ListenerStep \/ ConnStep \/ CheckStep =>
       /\ DOMAIN tunnels' = DOMAIN tunnels
       /\ \A k \in DOMAIN tunnels : Members(tunnels'[k]) = Members(tunnels[k])]_vars

IsDrained(channel) ==
  /\ \A k \in Keys : listener[k] # channel
  /\ \A c \in Conns : conns[c].channel # channel

\* A closed tunnel goes away: its accept loop ends and so does every
\* connection it accepted, also one that was waiting for a remote or that now
\* retries against a new tunnel at the same key.
ClosedTunnelDrains ==
  \A channel \in Channels : IsClosed(channel) ~> IsDrained(channel)

\* A dead remote comes back into rotation, unless it is removed or the tunnel
\* closed, provided it answers one of the checks made for ever.
DeadRemoteReturns ==
  \A k \in Keys, r \in Remotes :
    SF_vars(Answers(k, r)) => (IsDead(k, r) ~> ~ IsDead(k, r))

\* Establishing a connection ends: the retries bound it whatever remotes are
\* added, die or return meanwhile.
ConnectingEnds ==
  \A c \in Conns :
    conns[c].pc \in {"accepted", "counted", "select", "connecting"}
      ~> conns[c].pc \in {"idle", "copying", "closing"}
=============================================================================
