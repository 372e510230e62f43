------------------------------ MODULE Metrics ------------------------------
(***************************************************************************)
(* The proxy with the instruments it exports (feature "metrics"): each     *)
(* method of TunnelInfo and RemoteInfo adds to OpenTelemetry instruments   *)
(* next to the statistics it keeps (src/state/info.rs, src/state/stats.rs).*)
(*                                                                         *)
(* An instrument is one series per attributes, the tunnel's key and the    *)
(* remote: the records of a tunnel opened again at a key, or of a remote   *)
(* added again, go on with the series of their predecessors. A subtraction *)
(* that panics has not reached the instrument yet, except where the code   *)
(* adds to the instruments first (remote_connected).                       *)
(*                                                                         *)
(* Bytes move one at a time. The total counters are left out, and          *)
(* number_of_tunnels, which is part of Control.                            *)
(***************************************************************************)
EXTENDS Proxy

CONSTANT MaxMoved   \* bound: bytes moved in all

ASSUME MaxMovedAssumption == MaxMoved \in Nat

VARIABLES
  tunnel_streams,  \* key -> the up-down counter tunnel_streams_open
  remote_streams,  \* key -> remote -> its up-down counters
  moved,           \* key -> bytes the tunnels at the key have moved
  tunnel_bytes     \* key -> the counters tunnel_bytes_*

gauges == <<tunnel_streams, remote_streams>>
byteCounts == <<moved, tunnel_bytes>>
meteredVars == <<vars, gauges, byteCounts>>

ZeroBytes == [sent |-> 0, received |-> 0]

ZeroRemote == [streams_open |-> 0, streams_pending |-> 0, num_errors |-> 0]

MeteredInit ==
  /\ Init
  /\ tunnel_streams = [k \in Keys |-> 0]
  /\ remote_streams = [k \in Keys |-> [r \in Remotes |-> ZeroRemote]]
  /\ moved = [k \in Keys |-> ZeroBytes]
  /\ tunnel_bytes = [k \in Keys |-> ZeroBytes]

-----------------------------------------------------------------------------
(* Additions to the instruments. A record that is not there has none.       *)

\* An i64 has the width of a usize; -1 is shown as WordSize - 1.
Wrapped(n) == n % WordSize

InRotation(k, r) == IsOpen(k) /\ r \in DOMAIN tunnels[k].remotes

AddTunnelStreams(k, n) ==
  /\ tunnel_streams' = [tunnel_streams EXCEPT ![k] = Wrapped(@ + n)]
  /\ UNCHANGED <<remote_streams, byteCounts>>

AddRemoteStreams(k, r, open, pending, errors) ==
  remote_streams' = [remote_streams EXCEPT ![k][r] =
    [streams_open    |-> Wrapped(@.streams_open + open),
     streams_pending |-> Wrapped(@.streams_pending + pending),
     num_errors      |-> @.num_errors + errors]]

\* num_errors.add(1), with num_errors capped as in SaturatedInc.
ErrorAdded(ri) == SaturatedInc(ri.num_errors) - ri.num_errors

CountClientConnected(c) ==
  /\ ClientConnected(c)
  /\ IF IsOpen(conns[c].key)
     THEN AddTunnelStreams(conns[c].key, 1) ELSE UNCHANGED <<gauges, byteCounts>>

\* The remote selected is the one whose record changes.
CountSelectRemote(c) ==
  LET k == conns[c].key IN
  /\ SelectRemote(c)
  /\ \E r \in DOMAIN tunnels[k].remotes :
       /\ tunnels'[k].remotes[r] # tunnels[k].remotes[r]
       /\ AddRemoteStreams(k, r, 0, 1, 0)
  /\ UNCHANGED <<tunnel_streams, byteCounts>>

\* Fault: the errors are subtracted after the record was reset.
CountRemoteConnectedLate(c) ==
  LET k == conns[c].key
      r == conns[c].remote IN
  /\ RemoteConnected(c)
  /\ IF InRotation(k, r)
     THEN AddRemoteStreams(k, r, 1, -1, - tunnels'[k].remotes[r].num_errors)
     ELSE UNCHANGED remote_streams
  /\ UNCHANGED <<tunnel_streams, byteCounts>>

CountRemoteConnected(c) ==
  LET k == conns[c].key
      r == conns[c].remote IN
  /\ RemoteConnected(c)
  /\ IF InRotation(k, r)
     THEN AddRemoteStreams(k, r, 1, -1, - tunnels[k].remotes[r].num_errors)
     ELSE UNCHANGED remote_streams
  /\ UNCHANGED <<tunnel_streams, byteCounts>>

CountRemoteError(c) ==
  LET k == conns[c].key
      r == conns[c].remote IN
  /\ RemoteError(c) \/ RemoteDied(c)
  /\ IF InRotation(k, r) /\ ~ Panics(tunnels[k].remotes[r].streams_pending)
     THEN AddRemoteStreams(k, r, 0, -1, ErrorAdded(tunnels[k].remotes[r]))
     ELSE UNCHANGED remote_streams
  /\ UNCHANGED <<tunnel_streams, byteCounts>>

CountClientDisconnected(c) ==
  LET k == conns[c].key
      r == conns[c].remote IN
  /\ ClientDisconnected(c)
  /\ IF IsOpen(k) /\ ~ Panics(tunnels[k].streams_open)
     THEN tunnel_streams' = [tunnel_streams EXCEPT ![k] = Wrapped(@ - 1)]
     ELSE UNCHANGED tunnel_streams
  /\ IF /\ InRotation(k, r)
        /\ ~ Panics(tunnels[k].streams_open)
        /\ ~ Panics(tunnels[k].remotes[r].streams_open)
     THEN AddRemoteStreams(k, r, -1, 0, 0)
     ELSE UNCHANGED remote_streams
  /\ UNCHANGED byteCounts

\* remote_recovered, or the error of a check.
CountCheck(id) ==
  LET k == checks[id].key
      r == checks[id].remote IN
  /\ Revive(id) \/ CheckAgain(id)
  /\ IF IsDead(k, r)
     THEN LET ri == tunnels[k].dead_remotes[r].remote IN
          AddRemoteStreams(k, r, 0, 0, IF checks[id].pc = "live"
                                       THEN - ri.num_errors ELSE ErrorAdded(ri))
     ELSE UNCHANGED remote_streams
  /\ UNCHANGED <<tunnel_streams, byteCounts>>

\* Bytes received from the remote are added to the counter of bytes sent.
update_moved_bytes(k, direction) ==
  /\ moved' = [moved EXCEPT ![k][direction] = @ + 1]
  /\ tunnel_bytes' = [tunnel_bytes EXCEPT ![k].sent = @ + 1]

\* update_transferred, for every write of the copy.
Transfer(c, direction) ==
  LET k == conns[c].key IN
  /\ conns[c].pc = "copying"
  /\ IsOpen(k)
  /\ \A j \in Keys : moved[j].sent + moved[j].received < MaxMoved
  /\ update_moved_bytes(k, direction)
  /\ UNCHANGED <<vars, gauges>>

-----------------------------------------------------------------------------
\* The steps that add to no instrument.
Unmetered ==
  /\ \/ AdminStep
     \/ ListenerStep
     \/ \E c \in Conns : \/ ReadRetries(c)
                         \/ GiveUp(c)
                         \/ CopyDone(c)
                         \/ CopyFinished(c)
     \/ \E id \in CheckIds : ProbeAnswered(id) \/ ProbeFailed(id)
  /\ UNCHANGED <<gauges, byteCounts>>

MeteredNext ==
  \/ Unmetered
  \/ \E c \in Conns :
       \/ CountClientConnected(c)
       \/ CountSelectRemote(c)
       \/ CountRemoteConnected(c)
       \/ CountRemoteError(c)
       \/ CountClientDisconnected(c)
       \/ \E direction \in {"sent", "received"} : Transfer(c, direction)
  \/ \E id \in CheckIds : CountCheck(id)

MeteredSpec == MeteredInit /\ [][MeteredNext]_meteredVars

-----------------------------------------------------------------------------
(* Properties.                                                              *)

\* While a tunnel is open its instruments show what its records say, whatever
\* remotes die, return and answer meanwhile, and counters that have wrapped
\* round included. (The tunnel is opened once and no remote is removed.)
GaugesFollowStats ==
  \A k \in DOMAIN tunnels :
    /\ tunnel_streams[k] = tunnels[k].streams_open
    /\ \A r \in Members(tunnels[k]) :
         LET ri == IF r \in DOMAIN tunnels[k].remotes THEN tunnels[k].remotes[r]
                   ELSE tunnels[k].dead_remotes[r].remote
             shown == remote_streams[k][r]
         IN /\ shown.num_errors = ri.num_errors
            /\ shown.streams_pending = ri.streams_pending
            /\ shown.streams_open = ri.streams_open

\* tunnel_bytes_received is what the tunnel received. (The description of the
\* instrument.)
ReceivedExported ==
  \A k \in Keys : tunnel_bytes[k].received = moved[k].received
=============================================================================
