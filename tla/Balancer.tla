------------------------------ MODULE Balancer ------------------------------
(***************************************************************************)
(* The rotation of one tunnel and the strategy that picks a remote from it *)
(* (src/state/strategy.rs, TunnelInfo::select_remote in src/state/info.rs).*)
(*                                                                         *)
(* Proxy abstracts the choice to "any remote in rotation"; here it is made *)
(* as the code makes it: by an index into an IndexMap whose order changes  *)
(* when remotes die, return, are added and removed, with the index last    *)
(* selected kept across those changes, and from the counters of the        *)
(* remotes, which are not touched while a remote is dead.                  *)
(*                                                                         *)
(* An attempt and a stream are connections of clients to a remote, being   *)
(* established and established. Indexes start at 0, as in the code.        *)
(***************************************************************************)
EXTENDS TunnelInfo, SequencesExt

CONSTANTS
  Strategies,   \* the strategies the tunnel may be opened with
  First,        \* the sets of remotes it is opened with
  Removable,    \* the remotes REMOVE commands name
  Threshold,    \* errors_till_dead
  MaxSteady,    \* bound: attempts and streams at one time
  MaxStreams    \* the same bound once a remote has left rotation

AllStrategies == {"Random", "RoundRobin", "MinimumOpenConnections"}

ASSUME StrategiesAssumption == Strategies \subseteq AllStrategies
ASSUME FirstAssumption == First \subseteq SUBSET Remotes
ASSUME ThresholdAssumption == Threshold \in Nat
ASSUME RemotesAssumption == IsFiniteSet(Remotes)
ASSUME BoundsAssumption == MaxSteady \in Nat /\ MaxStreams \in 0 .. MaxSteady

VARIABLES
  lb_strategy,
  order,                \* the keys of TunnelInfo.remotes, in IndexMap order
  info,                 \* remote -> RemoteInfo, in rotation or dead
  last_selected_index,  \* NoIndex for None
  attempts,             \* remote -> number of attempts to connect to it
  streams,              \* remote -> number of streams open to it
  round,                \* history: the remotes selected since rotation last
                        \* changed or all of it had been selected
  steady                \* history: no remote has left rotation

vars == <<lb_strategy, order, info, last_selected_index,
          attempts, streams, round, steady>>

NoIndex == -1

Live == ToSet(order)

Dead == DOMAIN info \ Live

Size == Len(order)

Key(idx) == order[idx + 1]

-----------------------------------------------------------------------------
(* The strategies.                                                          *)

\* Fault: a connection that is being established does not count.
OpenOnly(r) == info[r].streams_open

open_conns(r) == (info[r].streams_open + info[r].streams_pending) % WordSize

\* The scan of MinimumOpenConnections: stops at an idle remote, and keeps the
\* first of several least loaded ones.
LeastIndex ==
  LET Better(best, idx) ==
        IF best.val # 0 /\ open_conns(Key(idx)) < best.val
        THEN [idx |-> idx, val |-> open_conns(Key(idx))] ELSE best
  IN FoldLeft(Better, [idx |-> 0, val |-> WordSize - 1],
              [i \in 1 .. Size |-> i - 1]).idx

\* Fault: the index is not taken modulo the size.
NextIndexUnbounded ==
  (IF last_selected_index = NoIndex THEN NoIndex ELSE last_selected_index) + 1

\* The last index may be beyond the end of a rotation that has shrunk.
NextIndex ==
  ((IF last_selected_index = NoIndex THEN Size - 1 ELSE last_selected_index) + 1)
    % Size

\* The indexes select_remote may choose from a rotation that is not empty. One
\* remote is chosen without the strategy.
Eligible ==
  IF Size = 1 THEN {0}
  ELSE CASE lb_strategy = "Random" -> 0 .. Size - 1
         [] lb_strategy = "RoundRobin" -> {NextIndex}
         [] lb_strategy = "MinimumOpenConnections" -> {LeastIndex}

-----------------------------------------------------------------------------
(* IndexMap.                                                                *)

\* remove is swap_remove: the last entry takes the place of the removed one.
SwapRemove(seq, r) ==
  Front([i \in DOMAIN seq |-> IF seq[i] = r THEN Last(seq) ELSE seq[i]])

Leaves(r) ==
  order' = SwapRemove(order, r) /\ round' = {} /\ steady' = FALSE

Enters(r) == order' = Append(order, r) /\ round' = {}

-----------------------------------------------------------------------------
Init ==
  /\ lb_strategy \in Strategies
  /\ \E remotes \in First : /\ order \in SetToSeqs(remotes)
                            /\ info = [r \in remotes |-> NewRemoteInfo]
  /\ last_selected_index = NoIndex
  /\ attempts = [r \in Remotes |-> 0]
  /\ streams = [r \in Remotes |-> 0]
  /\ round = {}
  /\ steady = TRUE

InUse == FoldFunction(+, 0, attempts) + FoldFunction(+, 0, streams)

MayStart == InUse < (IF steady THEN MaxSteady ELSE MaxStreams)

\* What selecting r does apart from the index.
Selected(r) ==
  /\ info' = [info EXCEPT ![r] = new_pending_stream(@)]
  /\ attempts' = [attempts EXCEPT ![r] = @ + 1]
  /\ round' = IF Live \subseteq round \cup {r} THEN {} ELSE round \cup {r}

\* Fault: the index is not kept.
SelectForgets ==
  /\ MayStart
  /\ order # <<>>
  /\ \E idx \in Eligible : Selected(Key(idx))
  /\ UNCHANGED <<lb_strategy, order, last_selected_index, streams, steady>>

Select ==
  /\ MayStart
  /\ order # <<>>
  /\ \E idx \in Eligible :
       /\ last_selected_index' = idx
       /\ Selected(Key(idx))
  /\ UNCHANGED <<lb_strategy, order, streams, steady>>

Connected(r) ==
  /\ attempts[r] > 0
  /\ attempts' = [attempts EXCEPT ![r] = @ - 1]
  /\ streams' = [streams EXCEPT ![r] = @ + 1]
  /\ info' = IF r \in Live THEN [info EXCEPT ![r] = remote_connected(@)] ELSE info
  /\ UNCHANGED <<lb_strategy, order, last_selected_index, round, steady>>

\* remote_error: a remote in rotation may leave it.
Failed(r) ==
  /\ attempts[r] > 0
  /\ attempts' = [attempts EXCEPT ![r] = @ - 1]
  /\ info' = IF r \in Live THEN [info EXCEPT ![r] = error(@)] ELSE info
  /\ IF r \in Live /\ info'[r].num_errors >= Threshold
     THEN Leaves(r) ELSE UNCHANGED <<order, round, steady>>
  /\ UNCHANGED <<lb_strategy, last_selected_index, streams>>

Disconnected(r) ==
  /\ streams[r] > 0
  /\ streams' = [streams EXCEPT ![r] = @ - 1]
  /\ info' = IF r \in Live THEN [info EXCEPT ![r] = remote_disconnected(@)] ELSE info
  /\ UNCHANGED <<lb_strategy, order, last_selected_index, attempts, round, steady>>

\* Fault: the check of an earlier life of the remote puts it in rotation again.
RecoveredTwice(r) ==
  /\ r \in DOMAIN info
  /\ info' = [info EXCEPT ![r] = remote_recovered(@)]
  /\ Enters(r)
  /\ UNCHANGED <<lb_strategy, last_selected_index, attempts, streams, steady>>

\* check_dead reached the remote.
Recovered(r) ==
  /\ r \in Dead
  /\ info' = [info EXCEPT ![r] = remote_recovered(@)]
  /\ Enters(r)
  /\ UNCHANGED <<lb_strategy, last_selected_index, attempts, streams, steady>>

Add(r) ==
  /\ r \notin DOMAIN info
  /\ info' = Put(info, r, NewRemoteInfo)
  /\ Enters(r)
  /\ UNCHANGED <<lb_strategy, last_selected_index, attempts, streams, steady>>

RemoveRemote(r) ==
  /\ r \in DOMAIN info
  /\ info' = Drop(info, r)
  /\ IF r \in Live THEN Leaves(r) ELSE UNCHANGED <<order, round, steady>>
  /\ UNCHANGED <<lb_strategy, last_selected_index, attempts, streams>>

Next ==
  \/ Select
  \/ \E r \in Remotes :
       \/ Connected(r)
       \/ Failed(r)
       \/ Disconnected(r)
       \/ Recovered(r)
       \/ Add(r)
  \/ \E r \in Removable : RemoveRemote(r)

Spec == Init /\ [][Next]_vars

-----------------------------------------------------------------------------
(* Properties.                                                              *)

\* Every variable has its type; rotation has no remote twice.
TypeOK ==
  /\ lb_strategy \in Strategies
  /\ order \in Seq(Remotes)
  /\ \A i, j \in 1 .. Size : order[i] = order[j] => i = j
  /\ IsMap(info, Remotes)
  /\ \A r \in DOMAIN info : info[r] \in RemoteInfo
  /\ Live \subseteq DOMAIN info
  /\ last_selected_index \in {NoIndex} \cup 0 .. Cardinality(Remotes) - 1
  /\ attempts \in [Remotes -> 0 .. MaxSteady]
  /\ streams \in [Remotes -> 0 .. MaxSteady]
  /\ round \subseteq Live

\* While a remote is in rotation a client gets one, whichever strategy picks
\* it and wherever the index last selected was left by remotes that have gone
\* since: select_remote does not report NoRemote.
SelectionInRange ==
  order # <<>> => Eligible # {} /\ Eligible \subseteq 0 .. Size - 1

\* Round robin: as long as rotation stays as it is, no remote is selected a
\* second time before every other was selected once, wherever the changes
\* before left the index.
OncePerRound ==
  [][\A r \in Remotes :
       lb_strategy = "RoundRobin" /\ attempts'[r] > attempts[r]
         => r \notin round]_vars

\* Minimum open connections: the remote selected has no more connections,
\* being established or open, than any other in rotation has in fact. (The
\* strategy only sees the counters. No remote has died or been removed.)
PicksLeastBusy ==
  [][\A r \in Remotes :
       steady /\ lb_strategy = "MinimumOpenConnections" /\ attempts'[r] > attempts[r]
         => \A s \in Live : attempts[r] + streams[r] <= attempts[s] + streams[s]]_vars
=============================================================================
