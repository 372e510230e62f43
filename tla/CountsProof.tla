---------------------------- MODULE CountsProof ----------------------------
(***************************************************************************)
(* Proofs about the counters of Proxy and the instruments of Metrics, for  *)
(* any number of connections that a usize can count.                       *)
(***************************************************************************)
EXTENDS Metrics, ProxyProof, FiniteSetTheorems

USE NoRemoteAssumption, OptionsAssumption, MaxOpensAssumption,
    MaxChecksAssumption, WordSizeAssumption, ErrorCapAssumption,
    OverflowChecksAssumption, NoKeyAssumption, RemoteSetsAssumption,
    RemovableAssumption, MaxMovedAssumption

-----------------------------------------------------------------------------
(* What each method of TunnelInfo does to the statistics.                   *)

\* The record of a remote, wherever it is.
Stats(ti, r) ==
  IF r \in DOMAIN ti.remotes THEN ti.remotes[r] ELSE ti.dead_remotes[r].remote

\* A call changes the count of the tunnel and the record of one remote.
Effect(old, new, n, r, ri) ==
  /\ new.options = old.options
  /\ new.streams_open = n
  /\ r \in Members(new) => Stats(new, r) = ri
  /\ \A q \in Members(new) : q # r =>
       q \in Members(old) /\ Stats(new, q) = Stats(old, q)

\* Counting.
LEMMA CountingEffects ==
  ASSUME NEW ti, IsInfo(ti), NEW r
  PROVE  LET n == ti.streams_open
             ri == ti.remotes[r]
         IN /\ Effect(ti, client_connected(ti), Inc(n), r, Stats(ti, r))
            /\ r \in DOMAIN ti.remotes =>
                 Effect(ti, select(ti, r), n, r, new_pending_stream(ri))
            /\ r \in DOMAIN ti.remotes =>
                 Effect(ti, connected(ti, r), n, r, remote_connected(ri))
            /\ r \in DOMAIN ti.remotes =>
                 Effect(ti, count_error(ti, r), n, r, error(ri))
            /\ r \in DOMAIN ti.remotes /\ ~ Panics(n) =>
                 Effect(ti, client_disconnected(ti, r), Dec(n), r,
                        remote_disconnected(ri))
            /\ r \notin DOMAIN ti.remotes =>
                 /\ connected(ti, r) = ti
                 /\ count_error(ti, r) = ti
                 /\ Effect(ti, client_disconnected(ti, r), Dec(n), r, Stats(ti, r))
<1>. DEFINE n == ti.streams_open
            ri == ti.remotes[r]
<1>1. ti \in Info(DOMAIN ti.remotes, DOMAIN ti.dead_remotes)
  BY DEF IsInfo
<1>2. \A m : LET new == [ti EXCEPT !.streams_open = m] IN
        Effect(ti, new, m, r, Stats(ti, r))
  BY <1>1 DEF Info, Effect, Stats, Members
<1>3. ASSUME NEW x, r \in DOMAIN ti.remotes
      PROVE  /\ Effect(ti, [ti EXCEPT !.remotes[r] = x], n, r, x)
             /\ \A m : Effect(ti, [ti EXCEPT !.streams_open = m,
                                             !.remotes[r] = x], m, r, x)
  BY <1>1, <1>3 DEF Info, Effect, Stats, Members
<1>4. Effect(ti, client_connected(ti), Inc(n), r, Stats(ti, r))
  BY <1>2 DEF client_connected
<1>5. ASSUME r \in DOMAIN ti.remotes
      PROVE  /\ Effect(ti, select(ti, r), n, r, new_pending_stream(ri))
             /\ Effect(ti, connected(ti, r), n, r, remote_connected(ri))
             /\ Effect(ti, count_error(ti, r), n, r, error(ri))
             /\ ~ Panics(n) => Effect(ti, client_disconnected(ti, r), Dec(n), r,
                                      remote_disconnected(ri))
  BY <1>3, <1>5 DEF select, connected, count_error, client_disconnected
<1>6. ASSUME r \notin DOMAIN ti.remotes
      PROVE  /\ connected(ti, r) = ti
             /\ count_error(ti, r) = ti
             /\ Effect(ti, client_disconnected(ti, r), Dec(n), r, Stats(ti, r))
  BY <1>2, <1>6 DEF connected, count_error, client_disconnected
<1>. QED
  BY <1>4, <1>5, <1>6

\* Moving.
LEMMA MoveEffects ==
  ASSUME NEW ti, IsInfo(ti), NEW r, NEW handle,
         DOMAIN ti.remotes \cap DOMAIN ti.dead_remotes = {}
  PROVE  LET n == ti.streams_open
             d == ti.dead_remotes[r].remote
         IN /\ r \in DOMAIN ti.remotes =>
                 Effect(ti, bury(ti, r, handle), n, r, error(ti.remotes[r]))
            /\ r \in DOMAIN ti.dead_remotes =>
                 /\ Effect(ti, recover(ti, r), n, r, remote_recovered(d))
                 /\ Effect(ti, recheck(ti, r, handle), n, r, check_error(d))
            /\ r \notin DOMAIN ti.dead_remotes =>
                 Effect(ti, add_remote(ti, r), n, r, NewRemoteInfo)
            /\ Effect(ti, remove_remote(ti, r), n, r, NewRemoteInfo)
<1>. DEFINE n == ti.streams_open
            live == DOMAIN ti.remotes
            dead == DOMAIN ti.dead_remotes
<1>1. ti \in Info(live, dead)
  BY DEF IsInfo
\* A record with these maps, and the same for only one of them replaced.
<1>2. ASSUME NEW l, NEW d, NEW ri,
             r \in DOMAIN l => l[r] = ri,
             r \in DOMAIN d => d[r].remote = ri,
             \A q \in DOMAIN l : q # r => q \in live /\ l[q] = ti.remotes[q],
             \A q \in DOMAIN d : q # r => q \in dead /\ d[q] = ti.dead_remotes[q]
      PROVE  Effect(ti, [ti EXCEPT !.remotes = l, !.dead_remotes = d], n, r, ri)
  BY <1>1, <1>2 DEF Info, Effect, Stats, Members
<1>3. ASSUME NEW l, NEW ri, r \notin dead,
             r \in DOMAIN l => l[r] = ri,
             \A q \in DOMAIN l : q # r => q \in live /\ l[q] = ti.remotes[q]
      PROVE  Effect(ti, [ti EXCEPT !.remotes = l], n, r, ri)
  BY <1>1, <1>3 DEF Info, Effect, Stats, Members
<1>4. ASSUME NEW d, NEW ri, r \notin live,
             r \in DOMAIN d => d[r].remote = ri,
             \A q \in DOMAIN d : q # r => q \in dead /\ d[q] = ti.dead_remotes[q]
      PROVE  Effect(ti, [ti EXCEPT !.dead_remotes = d], n, r, ri)
  BY <1>1, <1>4 DEF Info, Effect, Stats, Members
<1>5. /\ \A f, x, v : x # r /\ x \in DOMAIN Put(f, r, v) =>
           x \in DOMAIN f /\ Put(f, r, v)[x] = f[x]
      /\ \A f, v : Put(f, r, v)[r] = v
      /\ \A f, x : x \in DOMAIN Drop(f, r) =>
           x # r /\ x \in DOMAIN f /\ Drop(f, r)[x] = f[x]
  BY DEF Put, Drop
<1>6. ASSUME r \in live
      PROVE  Effect(ti, bury(ti, r, handle), n, r, error(ti.remotes[r]))
  <2>. DEFINE ri == error(ti.remotes[r])
              e == [remote |-> ri, join_handle |-> handle]
              l == Drop(ti.remotes, r)
              d == Put(ti.dead_remotes, r, e)
  <2>1. e.remote = ri
    OBVIOUS
  <2>. HIDE DEF ri, e
  <2>2. /\ r \in DOMAIN l => l[r] = ri
        /\ \A q \in DOMAIN l : q # r => q \in live /\ l[q] = ti.remotes[q]
    BY <1>5
  <2>3. /\ d[r].remote = ri
        /\ \A q \in DOMAIN d : q # r => q \in dead /\ d[q] = ti.dead_remotes[q]
    BY <1>5, <2>1
  <2>. HIDE DEF l, d
  <2>4. Effect(ti, [ti EXCEPT !.remotes = l, !.dead_remotes = d], n, r, ri)
    BY <1>2, <2>2, <2>3
  <2>. QED
    BY <2>4 DEF bury, ri, e, l, d
<1>7. ASSUME r \in dead
      PROVE  Effect(ti, recover(ti, r), n, r,
                    remote_recovered(ti.dead_remotes[r].remote))
  <2>. DEFINE ri == remote_recovered(ti.dead_remotes[r].remote)
              l == Put(ti.remotes, r, ri)
              d == Drop(ti.dead_remotes, r)
  <2>. HIDE DEF ri
  <2>1. /\ l[r] = ri
        /\ \A q \in DOMAIN l : q # r => q \in live /\ l[q] = ti.remotes[q]
    BY <1>5
  <2>2. /\ r \in DOMAIN d => d[r].remote = ri
        /\ \A q \in DOMAIN d : q # r => q \in dead /\ d[q] = ti.dead_remotes[q]
    BY <1>5
  <2>. HIDE DEF l, d
  <2>3. Effect(ti, [ti EXCEPT !.remotes = l, !.dead_remotes = d], n, r, ri)
    BY <1>2, <2>1, <2>2
  <2>. QED
    BY <2>3 DEF recover, ri, l, d
<1>8. ASSUME r \in dead
      PROVE  Effect(ti, recheck(ti, r, handle), n, r,
                    check_error(ti.dead_remotes[r].remote))
  <2>. DEFINE ri == check_error(ti.dead_remotes[r].remote)
              e == [remote |-> ri, join_handle |-> handle]
              d == [ti.dead_remotes EXCEPT ![r] = e]
  <2>1. e.remote = ri
    OBVIOUS
  <2>2. recheck(ti, r, handle) = [ti EXCEPT !.dead_remotes = d]
    BY DEF recheck
  <2>. HIDE DEF ri, e
  <2>3. /\ d[r] = e
        /\ \A q \in DOMAIN d : q # r => q \in dead /\ d[q] = ti.dead_remotes[q]
    BY <1>8
  <2>. HIDE DEF d
  <2>4. r \notin live
    BY <1>8
  <2>5. Effect(ti, [ti EXCEPT !.dead_remotes = d], n, r, ri)
    BY <1>4, <2>1, <2>3, <2>4
  <2>. QED
    BY <2>2, <2>5 DEF ri
<1>9. ASSUME r \notin dead
      PROVE  Effect(ti, add_remote(ti, r), n, r, NewRemoteInfo)
  BY <1>3, <1>5, <1>9 DEF add_remote
<1>10. Effect(ti, remove_remote(ti, r), n, r, NewRemoteInfo)
  <2>. DEFINE l == Drop(ti.remotes, r)
              d == Drop(ti.dead_remotes, r)
              ri == NewRemoteInfo
  <2>1. /\ r \in DOMAIN l => l[r] = ri
        /\ \A q \in DOMAIN l : q # r => q \in live /\ l[q] = ti.remotes[q]
    BY <1>5
  <2>2. /\ r \in DOMAIN d => d[r].remote = ri
        /\ \A q \in DOMAIN d : q # r => q \in dead /\ d[q] = ti.dead_remotes[q]
    BY <1>5
  <2>. HIDE DEF l, d, ri
  <2>3. CASE r \in live
    <3>1. r \notin dead
      BY <2>3
    <3>2. Effect(ti, [ti EXCEPT !.remotes = l], n, r, ri)
      BY <1>3, <2>1, <3>1
    <3>. QED
      BY <2>3, <3>2 DEF remove_remote, l, ri
  <2>4. CASE r \notin live
    <3>1. Effect(ti, [ti EXCEPT !.dead_remotes = d], n, r, ri)
      BY <1>4, <2>2, <2>4
    <3>. QED
      BY <2>4, <3>1 DEF remove_remote, d, ri
  <2>. QED
    BY <2>3, <2>4
<1>. QED
  BY <1>6, <1>7, <1>8, <1>9, <1>10

\* What a tunnel keeps from its opening on.
Fixed(ti) == <<ti.options, ti.close_channel>>

\* What the calls make of the tunnel's own counter, its options and its channel.
LEMMA CountOfTunnel ==
  ASSUME NEW ti, IsInfo(ti), NEW r, NEW handle
  PROVE  /\ client_connected(ti).streams_open = Inc(ti.streams_open)
         /\ client_disconnected(ti, r).streams_open = Dec(ti.streams_open)
         /\ Fixed(client_connected(ti)) = Fixed(ti)
         /\ Fixed(client_disconnected(ti, r)) = Fixed(ti)
         /\ \A new \in {select(ti, r), connected(ti, r), count_error(ti, r),
                        bury(ti, r, handle), recover(ti, r),
                        recheck(ti, r, handle), add_remote(ti, r),
                        remove_remote(ti, r)} :
              new.streams_open = ti.streams_open /\ Fixed(new) = Fixed(ti)
<1>1. ti \in Info(DOMAIN ti.remotes, DOMAIN ti.dead_remotes)
  BY DEF IsInfo
<1>2. \A l, d : LET new == [ti EXCEPT !.remotes = l, !.dead_remotes = d] IN
        new.streams_open = ti.streams_open /\ Fixed(new) = Fixed(ti)
  BY <1>1 DEF Info, Fixed
<1>3. \A l : LET new == [ti EXCEPT !.remotes = l] IN
        new.streams_open = ti.streams_open /\ Fixed(new) = Fixed(ti)
  BY <1>1 DEF Info, Fixed
<1>4. \A d : LET new == [ti EXCEPT !.dead_remotes = d] IN
        new.streams_open = ti.streams_open /\ Fixed(new) = Fixed(ti)
  BY <1>1 DEF Info, Fixed
<1>5. \A n : LET new == [ti EXCEPT !.streams_open = n] IN
        new.streams_open = n /\ Fixed(new) = Fixed(ti)
  BY <1>1 DEF Info, Fixed
<1>6. \A n, l : LET new == [ti EXCEPT !.streams_open = n, !.remotes = l] IN
        new.streams_open = n /\ Fixed(new) = Fixed(ti)
  BY <1>1 DEF Info, Fixed
<1>7. /\ select(ti, r).streams_open = ti.streams_open
      /\ Fixed(select(ti, r)) = Fixed(ti)
  BY <1>3 DEF select
<1>8. /\ connected(ti, r).streams_open = ti.streams_open
      /\ Fixed(connected(ti, r)) = Fixed(ti)
  BY <1>3 DEF connected
<1>9. /\ count_error(ti, r).streams_open = ti.streams_open
      /\ Fixed(count_error(ti, r)) = Fixed(ti)
  BY <1>3 DEF count_error
<1>10. /\ bury(ti, r, handle).streams_open = ti.streams_open
       /\ Fixed(bury(ti, r, handle)) = Fixed(ti)
  BY <1>2 DEF bury
<1>11. /\ recover(ti, r).streams_open = ti.streams_open
       /\ Fixed(recover(ti, r)) = Fixed(ti)
  BY <1>2 DEF recover
<1>12. /\ recheck(ti, r, handle).streams_open = ti.streams_open
       /\ Fixed(recheck(ti, r, handle)) = Fixed(ti)
  BY <1>4 DEF recheck
<1>13. /\ add_remote(ti, r).streams_open = ti.streams_open
       /\ Fixed(add_remote(ti, r)) = Fixed(ti)
  BY <1>3 DEF add_remote
<1>14. /\ remove_remote(ti, r).streams_open = ti.streams_open
       /\ Fixed(remove_remote(ti, r)) = Fixed(ti)
  BY <1>3, <1>4 DEF remove_remote
<1>15. /\ client_connected(ti).streams_open = Inc(ti.streams_open)
       /\ Fixed(client_connected(ti)) = Fixed(ti)
  BY <1>5 DEF client_connected
<1>16. /\ client_disconnected(ti, r).streams_open = Dec(ti.streams_open)
       /\ Fixed(client_disconnected(ti, r)) = Fixed(ti)
  BY <1>5, <1>6 DEF client_disconnected
<1>. QED
  BY <1>7, <1>8, <1>9, <1>10, <1>11, <1>12, <1>13, <1>14, <1>15, <1>16

-----------------------------------------------------------------------------
(* Connections and the sets of those that counters are meant to count.      *)

\* There are fewer connections than a usize has values.
Countable == IsFiniteSet(Conns) /\ Cardinality(Conns) < WordSize

IsCounted(conn, k) == conn.key = k /\ conn.pc \notin {"idle", "accepted"}

\* Also those an earlier tunnel accepted. While tunnels open afresh there are none
\* (ChannelsMatch), and CountedAt(k) is CountedOn(k).
CountedAt(k) == {c \in Conns : IsCounted(conns[c], k)}

IsPending(conn, k, r) ==
  conn.key = k /\ conn.remote = r /\ conn.pc = "connecting"

IsEstablished(conn, k, r) ==
  conn.key = k /\ conn.remote = r /\ conn.pc \in {"copying", "closing"}

\* A usize counts them without wrapping.
LEMMA SetCounts ==
  ASSUME Countable, NEW S \in SUBSET Conns, NEW c \in Conns
  PROVE  /\ Cardinality(S) \in Word
         /\ c \notin S => Cardinality(S \cup {c}) = Inc(Cardinality(S))
         /\ c \in S => /\ Cardinality(S \ {c}) = Dec(Cardinality(S))
                       /\ Cardinality(S) # 0
<1>1. /\ IsFiniteSet(S)
      /\ Cardinality(S) <= Cardinality(Conns)
      /\ IsFiniteSet(S \cup {c})
      /\ S \cup {c} \in SUBSET Conns
  BY FS_Subset, FS_AddElement DEF Countable
<1>2. Cardinality(S \cup {c}) <= Cardinality(Conns)
  BY <1>1, FS_Subset DEF Countable
<1>3. /\ Cardinality(S) \in Nat
      /\ Cardinality(Conns) \in Nat
      /\ Cardinality(S \ {c}) \in Nat
  BY <1>1, FS_CardinalityType, FS_RemoveElement DEF Countable
<1>4. c \notin S => Cardinality(S \cup {c}) = Cardinality(S) + 1
  BY <1>1, FS_AddElement
<1>5. c \in S => Cardinality(S \ {c}) = Cardinality(S) - 1
  BY <1>1, FS_RemoveElement
<1>6. c \notin S => Inc(Cardinality(S)) = Cardinality(S) + 1
  <2>1. \A n \in Nat : n < WordSize => n % WordSize = n
    OBVIOUS
  <2>. QED
    BY <1>2, <1>3, <1>4, <2>1 DEF Inc, Countable
<1>. QED
  BY <1>1, <1>3, <1>4, <1>5, <1>6 DEF Word, Dec, Countable

\* The step of one connection's task moves that connection only.
LEMMA SetsAfter ==
  ASSUME conns \in [Conns -> Conn], NEW c \in Conns, NEW conn,
         conns' = [conns EXCEPT ![c] = conn], NEW k
  PROVE  CountedAt(k)' = IF IsCounted(conn, k)
                         THEN CountedAt(k) \cup {c} ELSE CountedAt(k) \ {c}
<1>1. \A d \in Conns : conns'[d] = IF d = c THEN conn ELSE conns[d]
  OBVIOUS
<1>. QED
  BY <1>1 DEF CountedAt, IsCounted

\* Who is in them.
LEMMA SetMembers ==
  ASSUME NEW c \in Conns, NEW k, NEW r
  PROVE  /\ c \in CountedAt(k) <=> IsCounted(conns[c], k)
         /\ c \in PendingOn(k, r) <=> IsPending(conns[c], k, r)
         /\ c \in OpenOn(k, r) <=> IsEstablished(conns[c], k, r)
         /\ CountedAt(k) \in SUBSET Conns
         /\ PendingOn(k, r) \in SUBSET Conns
         /\ OpenOn(k, r) \in SUBSET Conns
BY DEF CountedAt, PendingOn, OpenOn, IsCounted, IsPending, IsEstablished

\* The first and the last call of a task for tunnel k.
Counts(c, k) ==
  conns[c].key = k /\ (ClientConnected(c) \/ ClientDisconnected(c))

\* As long as a tunnel is open its options and its channel stay, and its counter changes with
\* those calls only.
LEMMA EntryKept ==
  ASSUME TypeInv, [Next]_vars,
         NEW k, k \in DOMAIN tunnels, k \in DOMAIN tunnels'
  PROVE  /\ tunnels'[k].options = tunnels[k].options
         /\ tunnels'[k].close_channel = tunnels[k].close_channel
         /\ \/ \E c \in Conns : Counts(c, k)
            \/ tunnels'[k].streams_open = tunnels[k].streams_open
<1>. DEFINE Goal == /\ Fixed(tunnels'[k]) = Fixed(tunnels[k])
                    /\ \/ \E c \in Conns : Counts(c, k)
                       \/ tunnels'[k].streams_open = tunnels[k].streams_open
<1>0. /\ \A j \in DOMAIN tunnels : IsInfo(tunnels[j])
      /\ TunnelsOK
  BY TypeInvParts DEF TunnelsOK
<1>1. ASSUME NEW j, NEW ti,
             \/ tunnels' = [tunnels EXCEPT ![j] = ti]
             \/ tunnels' = tunnels,
             j \in DOMAIN tunnels =>
               /\ ti.streams_open = tunnels[j].streams_open
               /\ Fixed(ti) = Fixed(tunnels[j])
      PROVE  Goal
  BY <1>1
<1>2. ASSUME NEW j \in Keys, NEW remotes, NEW options,
             OpenTunnel(j, remotes, options)
      PROVE  Goal
  BY <1>2 DEF OpenTunnel, IsOpen, Put
<1>3. ASSUME NEW j \in Keys, CloseTunnel(j) PROVE Goal
  BY <1>3 DEF CloseTunnel, Drop
<1>4. ASSUME NEW j \in Keys, NEW r, AddRemote(j, r) \/ RemoveRemote(j, r)
      PROVE  Goal
  <2>1. \E ti \in {add_remote(tunnels[j], r), remove_remote(tunnels[j], r)} :
          tunnels' = [tunnels EXCEPT ![j] = ti]
    BY <1>4 DEF AddRemote, RemoveRemote, Update
  <2>. QED
    BY <1>0, <1>1, <2>1, CountOfTunnel
<1>5. ASSUME NEW c \in Conns, ClientConnected(c) \/ ClientDisconnected(c)
      PROVE  Goal
  <2>1. CASE conns[c].key = k
    <3>1. tunnels'[k] \in {client_connected(tunnels[k]),
                           client_disconnected(tunnels[k], conns[c].remote)}
      BY <1>5, <2>1 DEF ClientConnected, ClientDisconnected, IsOpen
    <3>2. Fixed(tunnels'[k]) = Fixed(tunnels[k])
      BY <1>0, <3>1, CountOfTunnel
    <3>. QED
      BY <1>5, <2>1, <3>2 DEF Counts
  <2>2. CASE conns[c].key # k
    BY <1>5, <2>2 DEF ClientConnected, ClientDisconnected
  <2>. QED
    BY <2>1, <2>2
<1>6. ASSUME NEW c \in Conns, \/ SelectRemote(c)
                              \/ RemoteConnected(c)
                              \/ RemoteError(c)
                              \/ RemoteDied(c)
      PROVE  Goal
  <2>1. PICK j : j = conns[c].key
    OBVIOUS
  <2>2. \/ tunnels' = tunnels
        \/ \E r, id : \E ti \in {select(tunnels[j], r), connected(tunnels[j], r),
                               count_error(tunnels[j], r),
                               bury(tunnels[j], r, id)} :
             tunnels' = [tunnels EXCEPT ![j] = ti]
    BY <1>6, <2>1 DEF SelectRemote, RemoteConnected, RemoteError, RemoteDied, Update
  <2>. QED
    BY <1>0, <1>1, <2>2, CountOfTunnel
<1>7. ASSUME NEW id \in CheckIds, Revive(id) \/ CheckAgain(id) PROVE Goal
  <2>1. PICK j, r : j = checks[id].key /\ r = checks[id].remote
    OBVIOUS
  <2>2. \/ tunnels' = tunnels
        \/ \E next : \E ti \in {recover(tunnels[j], r),
                              recheck(tunnels[j], r, next)} :
             tunnels' = [tunnels EXCEPT ![j] = ti]
    BY <1>7, <2>1 DEF Revive, CheckAgain, Update
  <2>. QED
    BY <1>0, <1>1, <2>2, CountOfTunnel
<1>8. CASE UNCHANGED tunnels
  BY <1>8
<1>9. Goal
  BY <1>2, <1>3, <1>4, <1>5, <1>6, <1>7, <1>8
     DEF Next, AdminStep, ListenerStep, Accept, StopListening, ConnStep,
         ConnTask, ReadRetries, GiveUp, CopyDone, CopyFinished, CheckStep,
         CheckTask, ProbeAnswered, ProbeFailed, vars
<1>. QED
  BY <1>9 DEF Fixed

\* No attempt of the tunnel would panic as it ends.
NoAttemptPanics(k) ==
  \A c \in Conns :
    LET r == conns[c].remote IN
    /\ conns[c].pc = "connecting"
    /\ conns[c].key = k
    /\ r \in DOMAIN tunnels[k].remotes
    => ~ Panics(tunnels[k].remotes[r].streams_pending)

UsableTimeouts == \A o \in Options : o.connect_timeout = "usable"

\* The task of connection c goes on at pc with remote r.
Becomes(c, pc, r) ==
  \E conn : /\ conns' = [conns EXCEPT ![c] = conn]
            /\ conn.key = conns[c].key
            /\ conn.pc = pc
            /\ conn.remote = r

\* Where a task of an open tunnel goes on after each of its calls.
LEMMA TaskGoesOn ==
  ASSUME TypeInv, UsableTimeouts, NEW k, k \in DOMAIN tunnels,
         NoAttemptPanics(k), NEW c \in Conns, conns[c].key = k
  PROVE  LET r == conns[c].remote
             ti == tunnels[k]
         IN /\ ClientConnected(c) => Becomes(c, "counted", r)
            /\ ReadRetries(c) => Becomes(c, "select", r)
            /\ SelectRemote(c) =>
                 \E q \in DOMAIN ti.remotes :
                   /\ Becomes(c, "connecting", q)
                   /\ tunnels' = [tunnels EXCEPT ![k] = select(ti, q)]
            /\ RemoteConnected(c) => Becomes(c, "copying", r)
            /\ RemoteError(c) \/ RemoteDied(c) => Becomes(c, "select", NoRemote)
            /\ GiveUp(c) \/ CopyDone(c) \/ CopyFinished(c) =>
                 Becomes(c, "closing", r)
<1>0. conns[c] \in Conn
  BY TypeInvParts
<1>1. ASSUME NEW p, conns' = [conns EXCEPT ![c] = [conns[c] EXCEPT !.pc = p]]
      PROVE  Becomes(c, p, conns[c].remote)
  <2>. DEFINE conn == [conns[c] EXCEPT !.pc = p]
  <2>1. conn.pc = p /\ conn.key = conns[c].key /\ conn.remote = conns[c].remote
    BY <1>0 DEF Conn
  <2>2. conns' = [conns EXCEPT ![c] = conn]
    BY <1>1
  <2>. HIDE DEF conn
  <2>. QED
    BY <2>1, <2>2 DEF Becomes
<1>2. ASSUME ReadRetries(c) PROVE Becomes(c, "select", conns[c].remote)
  <2>. DEFINE n == tunnels[k].options.remote_connect_retries
              conn == [conns[c] EXCEPT !.pc = "select", !.retries = n]
  <2>1. conns' = [conns EXCEPT ![c] = conn]
    BY <1>2 DEF ReadRetries, IsOpen
  <2>2. conn.pc = "select" /\ conn.key = conns[c].key /\ conn.remote = conns[c].remote
    BY <1>0 DEF Conn
  <2>. HIDE DEF conn
  <2>. QED
    BY <2>1, <2>2 DEF Becomes
<1>3. ASSUME SelectRemote(c)
      PROVE  \E q \in DOMAIN tunnels[k].remotes :
               /\ Becomes(c, "connecting", q)
               /\ tunnels' = [tunnels EXCEPT ![k] = select(tunnels[k], q)]
  <2>1. tunnels[k].options \in Options
    BY TypeInvParts DEF TunnelsOK, IsInfo, Info
  <2>2. tunnels[k].options.connect_timeout = "usable"
    BY <2>1 DEF UsableTimeouts
  <2>3. PICK q \in DOMAIN tunnels[k].remotes :
          /\ tunnels' = [tunnels EXCEPT ![k] = select(tunnels[k], q)]
          /\ conns' = [conns EXCEPT ![c] = AfterSelect(c, q)]
    BY <1>3 DEF SelectRemote, Update
  <2>. DEFINE t == tunnels[k].options.errors_till_dead
              conn == [conns[c] EXCEPT !.pc = "connecting", !.remote = q,
                                       !.errors_till_dead = t]
  <2>4. AfterSelect(c, q) = conn
    BY <2>2 DEF AfterSelect
  <2>5. conn.pc = "connecting" /\ conn.key = conns[c].key /\ conn.remote = q
    BY <1>0 DEF Conn
  <2>. HIDE DEF conn
  <2>. QED
    BY <2>3, <2>4, <2>5 DEF Becomes
<1>4. ASSUME RemoteConnected(c) PROVE Becomes(c, "copying", conns[c].remote)
  <2>1. conns' = [conns EXCEPT ![c] = [conns[c] EXCEPT !.pc = "copying"]]
    BY <1>4 DEF RemoteConnected, NoAttemptPanics
  <2>. QED
    BY <1>1, <2>1
<1>5. ASSUME RemoteError(c) \/ RemoteDied(c) PROVE Becomes(c, "select", NoRemote)
  <2>. DEFINE n == conns[c].retries - 1
              conn == [conns[c] EXCEPT !.pc = "select", !.retries = n,
                                       !.remote = NoRemote, !.errors_till_dead = 0]
  <2>1. conns' = [conns EXCEPT ![c] = conn]
    BY <1>5 DEF RemoteError, RemoteDied, AfterError, NoAttemptPanics
  <2>2. conn.pc = "select" /\ conn.key = conns[c].key /\ conn.remote = NoRemote
    BY <1>0 DEF Conn
  <2>. HIDE DEF conn
  <2>. QED
    BY <2>1, <2>2 DEF Becomes
<1>. QED
  BY <1>1, <1>2, <1>3, <1>4, <1>5 DEF ClientConnected, GiveUp, CopyDone,
     CopyFinished

\* A task of another tunnel stays with it.
LEMMA TaskElsewhere ==
  ASSUME TypeInv, NEW k \in Keys, NEW c \in Conns, conns[c].key # k,
         ConnTask(c) \/ CopyDone(c)
  PROVE  \E conn : conn.key # k /\ conns' = [conns EXCEPT ![c] = conn]
<1>0. conns[c] \in Conn
  BY TypeInvParts
<1>1. IdleConn.key # k
  BY DEF IdleConn
<1>2. \A p, n, r, t :
        /\ [conns[c] EXCEPT !.pc = p].key = conns[c].key
        /\ [conns[c] EXCEPT !.pc = p, !.retries = n].key = conns[c].key
        /\ [conns[c] EXCEPT !.pc = p, !.remote = r,
                            !.errors_till_dead = t].key = conns[c].key
        /\ [conns[c] EXCEPT !.pc = p, !.retries = n, !.remote = r,
                            !.errors_till_dead = t].key = conns[c].key
  BY <1>0 DEF Conn
<1>. DEFINE Goal == \E conn : conn.key # k /\ conns' = [conns EXCEPT ![c] = conn]
<1>3. ASSUME SelectRemote(c) PROVE Goal
  <2>1. PICK r : conns' = [conns EXCEPT ![c] = AfterSelect(c, r)]
    BY <1>3 DEF SelectRemote
  <2>2. AfterSelect(c, r).key # k
    BY <1>1, <1>2 DEF AfterSelect
  <2>. QED
    BY <2>1, <2>2
<1>4. ASSUME RemoteError(c) \/ RemoteDied(c) PROVE Goal
  <2>1. conns' = [conns EXCEPT ![c] = AfterError(c)]
    BY <1>4 DEF RemoteError, RemoteDied
  <2>2. AfterError(c).key # k
    BY <1>1, <1>2 DEF AfterError
  <2>. QED
    BY <2>1, <2>2
<1>5. ASSUME ReadRetries(c) PROVE Goal
  BY <1>1, <1>2, <1>5 DEF ReadRetries
<1>6. ASSUME RemoteConnected(c) PROVE Goal
  BY <1>1, <1>2, <1>6 DEF RemoteConnected
<1>7. ASSUME ClientConnected(c) \/ GiveUp(c) \/ CopyDone(c) \/ CopyFinished(c)
             \/ ClientDisconnected(c)
      PROVE Goal
  BY <1>1, <1>2, <1>7 DEF ClientConnected, GiveUp, CopyDone, CopyFinished,
     ClientDisconnected
<1>. QED
  BY <1>3, <1>4, <1>5, <1>6, <1>7 DEF ConnTask

\* No other step changes a connection, but for ACCEPT.
LEMMA ConnsKept ==
  ASSUME [Next]_vars,
         ~ \E c \in Conns : ConnTask(c) \/ CopyDone(c),
         ~ \E k \in Keys, c \in Conns : Accept(k, c)
  PROVE  UNCHANGED conns
BY DEF Next, AdminStep, OpenTunnel, CloseTunnel, AddRemote, RemoveRemote,
   ListenerStep, StopListening, ConnStep, CheckStep, CheckTask, ProbeAnswered,
   ProbeFailed, Revive, CheckAgain, vars

-----------------------------------------------------------------------------
(* The counter of a tunnel.                                                 *)

\* A step keeps the counter of a tunnel exact if no attempt panics in it.
LEMMA TunnelCountStep ==
  ASSUME Countable, UsableTimeouts, TypeInv, [Next]_vars,
         NEW k, k \in DOMAIN tunnels, k \in DOMAIN tunnels', NoAttemptPanics(k),
         tunnels[k].streams_open = Cardinality(CountedAt(k))
  PROVE  tunnels'[k].streams_open = Cardinality(CountedAt(k)')
<1>. DEFINE Goal == tunnels'[k].streams_open = Cardinality(CountedAt(k)')
<1>0. /\ TunnelsOK
      /\ k \in Keys
      /\ IsInfo(tunnels[k])
      /\ conns \in [Conns -> Conn]
  BY TypeInvParts DEF TunnelsOK, IsMap
<1>1. ASSUME NEW c \in Conns, NEW conn, conns' = [conns EXCEPT ![c] = conn],
             IsCounted(conn, k) <=> IsCounted(conns[c], k),
             tunnels'[k].streams_open = tunnels[k].streams_open
      PROVE  Goal
  <2>1. CountedAt(k)' = IF IsCounted(conn, k) THEN CountedAt(k) \cup {c}
                        ELSE CountedAt(k) \ {c}
    BY <1>0, <1>1, SetsAfter
  <2>2. c \in CountedAt(k) <=> IsCounted(conns[c], k)
    BY SetMembers
  <2>3. CountedAt(k)' = CountedAt(k)
    BY <1>1, <2>1, <2>2
  <2>. QED
    BY <1>1, <2>3
<1>2. ASSUME NEW c \in Conns, ConnTask(c) \/ CopyDone(c), ~ Counts(c, k)
      PROVE  tunnels'[k].streams_open = tunnels[k].streams_open
  <2>1. CASE ClientConnected(c) \/ ClientDisconnected(c)
    BY <1>2, <2>1 DEF Counts, ClientConnected, ClientDisconnected
  <2>2. CASE ~ (ClientConnected(c) \/ ClientDisconnected(c))
    <3>. DEFINE j == conns[c].key
    <3>1. \/ tunnels' = tunnels
          \/ \E r, id : \E ti \in {select(tunnels[j], r), connected(tunnels[j], r),
                                 count_error(tunnels[j], r),
                                 bury(tunnels[j], r, id)} :
               tunnels' = [tunnels EXCEPT ![j] = ti]
      BY <1>2, <2>2 DEF ConnTask, ReadRetries, SelectRemote, GiveUp,
         RemoteConnected, RemoteError, RemoteDied, CopyDone, CopyFinished, Update
    <3>. QED
      BY <1>0, <3>1, CountOfTunnel
  <2>. QED
    BY <2>1, <2>2
<1>3. ASSUME NEW c \in Conns, ConnTask(c) \/ CopyDone(c), conns[c].key # k
      PROVE  Goal
  <2>1. PICK conn : conn.key # k /\ conns' = [conns EXCEPT ![c] = conn]
    BY <1>0, <1>3, TaskElsewhere
  <2>. QED
    BY <1>1, <1>2, <1>3, <2>1 DEF IsCounted, Counts
<1>4. ASSUME NEW c \in Conns, conns[c].key = k, ClientConnected(c) PROVE Goal
  <2>1. PICK conn : conns' = [conns EXCEPT ![c] = conn] /\ IsCounted(conn, k)
    BY <1>4, TaskGoesOn DEF Becomes, IsCounted
  <2>2. ~ IsCounted(conns[c], k)
    BY <1>4 DEF IsCounted, ClientConnected
  <2>3. CountedAt(k)' = CountedAt(k) \cup {c} /\ c \notin CountedAt(k)
    BY <1>0, <2>1, <2>2, SetsAfter, SetMembers
  <2>4. tunnels'[k] = client_connected(tunnels[k])
    BY <1>4 DEF ClientConnected, IsOpen
  <2>5. tunnels'[k].streams_open = Inc(tunnels[k].streams_open)
    BY <1>0, <2>4, CountOfTunnel
  <2>6. CountedAt(k) \in SUBSET Conns
    BY SetMembers
  <2>. QED
    BY <2>3, <2>5, <2>6, SetCounts
<1>5. ASSUME NEW c \in Conns, conns[c].key = k, ClientDisconnected(c) PROVE Goal
  <2>1. conns' = [conns EXCEPT ![c] = IdleConn]
    BY <1>5 DEF ClientDisconnected
  <2>2. ~ IsCounted(IdleConn, k) /\ IsCounted(conns[c], k)
    BY <1>5 DEF IsCounted, ClientDisconnected, IdleConn
  <2>3. CountedAt(k)' = CountedAt(k) \ {c} /\ c \in CountedAt(k)
    BY <1>0, <2>1, <2>2, SetsAfter, SetMembers
  <2>4. tunnels'[k] = client_disconnected(tunnels[k], conns[c].remote)
    BY <1>5 DEF ClientDisconnected, IsOpen
  <2>5. tunnels'[k].streams_open = Dec(tunnels[k].streams_open)
    BY <1>0, <2>4, CountOfTunnel
  <2>6. CountedAt(k) \in SUBSET Conns
    BY SetMembers
  <2>. QED
    BY <2>3, <2>5, <2>6, SetCounts
<1>6. ASSUME NEW c \in Conns, conns[c].key = k, ConnTask(c) \/ CopyDone(c),
             ~ Counts(c, k)
      PROVE  Goal
  <2>1. \E conn : /\ conns' = [conns EXCEPT ![c] = conn]
                  /\ IsCounted(conn, k) <=> IsCounted(conns[c], k)
    <3>1. \E p, r : p \in {"select", "connecting", "copying", "closing"}
                   /\ Becomes(c, p, r)
      BY <1>6, TaskGoesOn DEF ConnTask, Counts
    <3>2. IsCounted(conns[c], k)
      BY <1>6 DEF Counts, IsCounted, ConnTask, ReadRetries, SelectRemote, GiveUp,
         RemoteConnected, RemoteError, RemoteDied, CopyDone, CopyFinished
    <3>. QED
      BY <1>6, <3>1, <3>2 DEF Becomes, IsCounted
  <2>. QED
    BY <1>1, <1>2, <1>6, <2>1
<1>7. ASSUME NEW j \in Keys, NEW c \in Conns, Accept(j, c) PROVE Goal
  <2>. DEFINE conn == [IdleConn EXCEPT !.pc = "accepted", !.key = j,
                                       !.channel = listener[j]]
  <2>1. conns' = [conns EXCEPT ![c] = conn] /\ tunnels' = tunnels
    BY <1>7 DEF Accept
  <2>2. ~ IsCounted(conn, k) /\ ~ IsCounted(conns[c], k)
    BY <1>7 DEF Accept, IsCounted, IdleConn
  <2>. QED
    BY <1>1, <2>1, <2>2
<1>8. CASE /\ ~ \E c \in Conns : ConnTask(c) \/ CopyDone(c)
           /\ ~ \E j \in Keys, c \in Conns : Accept(j, c)
  <2>1. UNCHANGED conns
    BY <1>8, ConnsKept
  <2>2. ~ \E c \in Conns : Counts(c, k)
    BY <1>8 DEF Counts, ConnTask
  <2>3. tunnels'[k].streams_open = tunnels[k].streams_open
    BY <2>2, EntryKept
  <2>4. CountedAt(k)' = CountedAt(k)
    BY <2>1 DEF CountedAt
  <2>. QED
    BY <2>3, <2>4
<1>. QED
  BY <1>3, <1>4, <1>5, <1>6, <1>7, <1>8 DEF Counts

\* A tunnel opened when nothing is left at its key starts with no connection.
LEMMA OpenedCount ==
  ASSUME TypeInv, [Next]_vars, [OpensAfresh]_vars,
         NEW k, k \in DOMAIN tunnels', k \notin DOMAIN tunnels
  PROVE  tunnels'[k].streams_open = 0 /\ CountedAt(k)' = {}
<1>1. PICK remotes, options : OpenTunnel(k, remotes, options)
  BY OpensOnly
<1>2. tunnels'[k].streams_open = 0
  BY <1>1 DEF OpenTunnel, Put, NewTunnelInfo
<1>3. \A c \in Conns : conns'[c].key # k
  BY <1>1 DEF OpenTunnel, OpensAfresh, vars
<1>. QED
  BY <1>2, <1>3 DEF CountedAt, IsCounted

\* No connection at a tunnel's key is another tunnel's: it and the accept loop
\* at the key have the tunnel's channel.
ChannelsMatch ==
  \A k \in DOMAIN tunnels :
    /\ listener[k] = tunnels[k].close_channel
    /\ \A c \in Conns : conns[c].key = k => conns[c].channel = tunnels[k].close_channel

\* A connection keeps its key and its channel; a new one takes the listener's.
LEMMA ChannelKept ==
  ASSUME TypeInv, [Next]_vars, NEW c \in Conns
  PROVE  \/ conns'[c].key = NoKey
         \/ conns'[c].key = conns[c].key /\ conns'[c].channel = conns[c].channel
         \/ \E k \in Keys : conns'[c].key = k /\ conns'[c].channel = listener[k]
<1>. DEFINE old == conns[c]
            Kept(new) == \/ new.key = NoKey
                         \/ new.key = old.key /\ new.channel = old.channel
            Goal == \/ Kept(conns'[c])
                    \/ \E k \in Keys : conns'[c].key = k /\ conns'[c].channel = listener[k]
<1>0. conns \in [Conns -> Conn] /\ conns[c] \in Conn
  BY TypeInvParts
<1>1. Kept(IdleConn)
  BY DEF IdleConn
<1>2. \A p, n, r, t :
        /\ Kept([old EXCEPT !.pc = p])
        /\ Kept([old EXCEPT !.pc = p, !.retries = n])
        /\ Kept([old EXCEPT !.pc = p, !.remote = r, !.errors_till_dead = t])
        /\ Kept([old EXCEPT !.pc = p, !.retries = n, !.remote = r,
                            !.errors_till_dead = t])
  BY <1>0 DEF Conn
<1>. HIDE DEF Kept
<1>3. ASSUME NEW d \in Conns, NEW conn, conns' = [conns EXCEPT ![d] = conn],
             d = c => Kept(conn)
      PROVE  Goal
  <2>1. Kept(conns[c])
    BY DEF Kept
  <2>. QED
    BY <1>0, <1>3, <2>1
<1>4. \A r : Kept(AfterSelect(c, r))
  BY <1>1, <1>2 DEF AfterSelect
<1>5. Kept(AfterError(c))
  BY <1>1, <1>2 DEF AfterError
<1>6. ASSUME NEW d \in Conns, ConnTask(d) \/ CopyDone(d) PROVE Goal
  <2>1. CASE d # c
    <3>1. \E conn : conns' = [conns EXCEPT ![d] = conn]
      BY <1>6 DEF ConnTask, ClientConnected, ReadRetries, SelectRemote, GiveUp,
         RemoteConnected, RemoteError, RemoteDied, CopyDone, CopyFinished,
         ClientDisconnected
    <3>. QED
      BY <1>3, <2>1, <3>1
  <2>2. CASE d = c
    <3>1. \E conn : Kept(conn) /\ conns' = [conns EXCEPT ![c] = conn]
      <4>1. CASE SelectRemote(c)
        BY <1>4, <4>1 DEF SelectRemote
      <4>2. CASE RemoteError(c) \/ RemoteDied(c)
        BY <1>5, <4>2 DEF RemoteError, RemoteDied
      <4>3. CASE ReadRetries(c)
        BY <1>1, <1>2, <4>3 DEF ReadRetries
      <4>4. CASE RemoteConnected(c)
        BY <1>1, <1>2, <4>4 DEF RemoteConnected
      <4>5. CASE \/ ClientConnected(c) \/ GiveUp(c) \/ CopyDone(c)
                 \/ CopyFinished(c) \/ ClientDisconnected(c)
        BY <1>1, <1>2, <4>5 DEF ClientConnected, GiveUp, CopyDone, CopyFinished,
           ClientDisconnected
      <4>. QED
        BY <1>6, <2>2, <4>1, <4>2, <4>3, <4>4, <4>5 DEF ConnTask
    <3>. QED
      BY <1>3, <3>1
  <2>. QED
    BY <2>1, <2>2
<1>7. ASSUME NEW k \in Keys, NEW d \in Conns, Accept(k, d) PROVE Goal
  <2>. DEFINE conn == [IdleConn EXCEPT !.pc = "accepted", !.key = k,
                                       !.channel = listener[k]]
  <2>1. conns' = [conns EXCEPT ![d] = conn]
    BY <1>7 DEF Accept
  <2>2. conn.key = k /\ conn.channel = listener[k]
    BY DEF IdleConn
  <2>. HIDE DEF conn
  <2>3. CASE d = c
    BY <1>0, <2>1, <2>2, <2>3
  <2>4. CASE d # c
    BY <1>3, <2>1, <2>4
  <2>. QED
    BY <2>3, <2>4
<1>8. ASSUME UNCHANGED conns PROVE Goal
  BY <1>8 DEF Kept
<1>9. Goal
  BY <1>6, <1>7, <1>8, ConnsKept
<1>. QED
  BY <1>9 DEF Kept

LEMMA ListenerKept ==
  ASSUME TypeInv, [Next]_vars, NEW k \in DOMAIN tunnels,
         listener[k] = tunnels[k].close_channel
  PROVE  listener'[k] = listener[k]
<1>1. listener \in [Keys -> 0 .. MaxOpens] /\ k \in Keys
  BY TypeInvParts DEF TunnelsOK, IsMap
<1>2. ASSUME NEW j \in Keys, NEW remotes, NEW options,
             OpenTunnel(j, remotes, options)
      PROVE  listener'[k] = listener[k]
  BY <1>1, <1>2 DEF OpenTunnel, IsOpen
<1>3. ASSUME NEW j \in Keys, StopListening(j) PROVE listener'[k] = listener[k]
  <2>1. j # k
    BY <1>3 DEF StopListening, IsClosed
  <2>. QED
    BY <1>1, <1>3, <2>1 DEF StopListening
<1>4. CASE UNCHANGED listener
  BY <1>4
<1>. QED
  BY <1>2, <1>3, <1>4
     DEF Next, AdminStep, CloseTunnel, AddRemote, RemoveRemote, ListenerStep,
         Accept, ConnStep, ConnTask, ClientConnected, ReadRetries, SelectRemote,
         GiveUp, RemoteConnected, RemoteError, RemoteDied, CopyDone, CopyFinished,
         ClientDisconnected, CheckStep, CheckTask, ProbeAnswered, ProbeFailed,
         Revive, CheckAgain, vars

LEMMA ChannelsMatchStep ==
  ASSUME TypeInv, ChannelsMatch, [Next]_vars, [OpensAfresh]_vars
  PROVE  ChannelsMatch'
<1>. SUFFICES ASSUME NEW k \in DOMAIN tunnels'
              PROVE  /\ listener'[k] = tunnels'[k].close_channel
                     /\ \A c \in Conns : conns'[c].key = k =>
                          conns'[c].channel = tunnels'[k].close_channel
  BY DEF ChannelsMatch
<1>1. CASE k \in DOMAIN tunnels
  <2>1. tunnels'[k].close_channel = tunnels[k].close_channel
    BY <1>1, EntryKept
  <2>2. listener'[k] = listener[k] /\ listener[k] = tunnels[k].close_channel
    BY <1>1, ListenerKept DEF ChannelsMatch
  <2>3. k # NoKey
    BY <1>1, TypeInvParts, NoKeyAssumption DEF TunnelsOK, IsMap
  <2>4. ASSUME NEW c \in Conns, conns'[c].key = k
        PROVE  conns'[c].channel = tunnels[k].close_channel
    BY <1>1, <2>2, <2>3, <2>4, ChannelKept DEF ChannelsMatch
  <2>. QED
    BY <2>1, <2>2, <2>4
<1>2. CASE k \notin DOMAIN tunnels
  <2>1. k \in Keys /\ \E remotes, options : OpenTunnel(k, remotes, options)
    BY <1>2, OpensOnly
  <2>2. listener'[k] = opened + 1 /\ tunnels'[k].close_channel = opened + 1
    BY <2>1, TypeInvParts DEF OpenTunnel, Put, NewTunnelInfo
  <2>3. \A c \in Conns : conns'[c].key # k
    BY <1>2, <2>1 DEF OpenTunnel, OpensAfresh, vars
  <2>. QED
    BY <2>2, <2>3
<1>. QED
  BY <1>1, <1>2

CountedAtExact ==
  \A k \in DOMAIN tunnels :
    tunnels[k].streams_open = Cardinality(CountedAt(k))

LEMMA OwnAreAllAt ==
  ASSUME ChannelsMatch, CountedAtExact PROVE TunnelCountExact
<1>. SUFFICES ASSUME NEW k \in DOMAIN tunnels PROVE CountedOn(k) = CountedAt(k)
  BY DEF TunnelCountExact, CountedAtExact
<1>. QED
  BY DEF ChannelsMatch, CountedOn, CountedAt, IsCounted

\* streams_open of a tunnel is the number of the connections it accepted, as
\* long as no task ends without counting down: one that panics in the timeout
\* it builds or in checked arithmetic, or one of an earlier tunnel at the key.
THEOREM TunnelsCountConnections ==
  ASSUME Countable, UsableTimeouts, ~ OverflowChecks
  PROVE  Spec /\ [][OpensAfresh]_vars => []TunnelCountExact
<1>1. Init => CountedAtExact /\ ChannelsMatch
  BY DEF Init, CountedAtExact, ChannelsMatch
<1>2. TypeInv /\ CountedAtExact /\ [Next]_vars /\ [OpensAfresh]_vars
        => CountedAtExact'
  <2>. SUFFICES ASSUME TypeInv, CountedAtExact, [Next]_vars,
                       [OpensAfresh]_vars, NEW k \in DOMAIN tunnels'
                PROVE  tunnels'[k].streams_open = Cardinality(CountedAt(k)')
    BY DEF CountedAtExact
  <2>1. CASE k \in DOMAIN tunnels
    <3>1. NoAttemptPanics(k)
      BY DEF NoAttemptPanics, Panics
    <3>. QED
      BY <2>1, <3>1, TunnelCountStep DEF CountedAtExact
  <2>2. CASE k \notin DOMAIN tunnels
    BY <2>2, OpenedCount, FS_EmptySet
  <2>. QED
    BY <2>1, <2>2
<1>. QED
  <2>. DEFINE H == OpensAfresh
  <2>1. TypeInv /\ ChannelsMatch /\ [Next]_vars /\ [H]_vars => ChannelsMatch'
    BY ChannelsMatchStep
  <2>. HIDE DEF H
  <2>2. TypeInv /\ CountedAtExact /\ [Next]_vars /\ [H]_vars => CountedAtExact'
    BY <1>2 DEF H
  <2>3. Spec /\ [][H]_vars => []TunnelCountExact
    BY <1>1, <2>1, <2>2, OwnAreAllAt, InitType, TypeInvStep, PTL DEF Spec
  <2>. QED
    BY <2>3 DEF H

\* In particular when tunnels are opened once.
THEOREM TunnelsCountConnectionsOnce ==
  ASSUME Countable, UsableTimeouts, ~ OverflowChecks, MaxOpens = 1
  PROVE  Spec => []TunnelCountExact
<1>. DEFINE H == OpensAfresh
<1>1. TypeInv /\ Fresh /\ [Next]_vars => [H]_vars
  BY OneOpenIsFresh
<1>2. Init => Fresh
  BY DEF Fresh
<1>3. Spec => [][H]_vars
  <2>. HIDE DEF H
  <2>. QED BY <1>1, <1>2, InitType, TypeInvStep, FreshStep, PTL DEF Spec
<1>. QED
  BY <1>3, TunnelsCountConnections

-----------------------------------------------------------------------------
(* What a step makes of a connection.                                       *)

Early == {"idle", "accepted", "counted", "select"}

\* It drops its remote, keeps it, or picks one in rotation.
ConnMoves(old, new) ==
  \/ new.remote = NoRemote /\ new.pc # "connecting"
  \/ /\ new.remote = old.remote
     /\ new.key = old.key
     /\ new.pc # "connecting"
     /\ new.pc \in Early => old.pc \in Early
  \/ /\ IsOpen(old.key)
     /\ new.pc = "connecting"
     /\ new.key = old.key
     /\ new.remote \in DOMAIN tunnels[old.key].remotes
     /\ new.errors_till_dead = tunnels[old.key].options.errors_till_dead

LEMMA ConnAfter ==
  ASSUME TypeInv, [Next]_vars, NEW c \in Conns
  PROVE  conns'[c] = conns[c] \/ ConnMoves(conns[c], conns'[c])
<1>. DEFINE Goal == conns'[c] = conns[c] \/ ConnMoves(conns[c], conns'[c])
<1>0. conns \in [Conns -> Conn] /\ conns[c] \in Conn
  BY TypeInvParts
<1>1. ASSUME NEW d \in Conns, NEW conn, conns' = [conns EXCEPT ![d] = conn],
             d = c => ConnMoves(conns[c], conn)
      PROVE  Goal
  BY <1>0, <1>1
<1>2. ConnMoves(conns[c], IdleConn)
  BY DEF ConnMoves, IdleConn
<1>3. ASSUME NEW p, p # "connecting", p \in Early => conns[c].pc \in Early
      PROVE  /\ ConnMoves(conns[c], [conns[c] EXCEPT !.pc = p])
             /\ \A n : ConnMoves(conns[c], [conns[c] EXCEPT !.pc = p, !.retries = n])
  <2>1. /\ [conns[c] EXCEPT !.pc = p].pc = p
        /\ [conns[c] EXCEPT !.pc = p].key = conns[c].key
        /\ [conns[c] EXCEPT !.pc = p].remote = conns[c].remote
    BY <1>0 DEF Conn
  <2>2. ASSUME NEW n
        PROVE  LET new == [conns[c] EXCEPT !.pc = p, !.retries = n] IN
               /\ new.pc = p
               /\ new.key = conns[c].key
               /\ new.remote = conns[c].remote
    BY <1>0 DEF Conn
  <2>3. \A new : /\ new.pc = p
                 /\ new.key = conns[c].key
                 /\ new.remote = conns[c].remote
                 => ConnMoves(conns[c], new)
    BY <1>3 DEF ConnMoves
  <2>. QED
    BY <2>1, <2>2, <2>3
<1>4. ASSUME SelectRemote(c) PROVE Goal
  <2>. DEFINE k == conns[c].key
              t == tunnels[k].options.errors_till_dead
  <2>1. PICK r \in DOMAIN tunnels[k].remotes :
          IsOpen(k) /\ conns' = [conns EXCEPT ![c] = AfterSelect(c, r)]
    BY <1>4 DEF SelectRemote
  <2>. DEFINE conn == [conns[c] EXCEPT !.pc = "connecting", !.remote = r,
                                       !.errors_till_dead = t]
  <2>2. AfterSelect(c, r) \in {IdleConn, conn}
    BY DEF AfterSelect
  <2>3. /\ conn.pc = "connecting"
        /\ conn.key = conns[c].key
        /\ conn.remote = r
        /\ conn.errors_till_dead = t
    BY <1>0 DEF Conn
  <2>. HIDE DEF conn
  <2>4. ConnMoves(conns[c], conn)
    BY <2>1, <2>3 DEF ConnMoves
  <2>. QED
    BY <1>1, <1>2, <2>1, <2>2, <2>4
<1>5. ASSUME RemoteError(c) \/ RemoteDied(c) PROVE Goal
  <2>. DEFINE n == conns[c].retries - 1
              conn == [conns[c] EXCEPT !.pc = "select", !.retries = n,
                                       !.remote = NoRemote, !.errors_till_dead = 0]
  <2>1. conns' = [conns EXCEPT ![c] = AfterError(c)]
    BY <1>5 DEF RemoteError, RemoteDied
  <2>2. AfterError(c) \in {IdleConn, conn}
    BY DEF AfterError
  <2>3. conn.pc = "select" /\ conn.remote = NoRemote
    BY <1>0 DEF Conn
  <2>. HIDE DEF conn
  <2>4. ConnMoves(conns[c], conn)
    BY <2>3 DEF ConnMoves
  <2>. QED
    BY <1>1, <1>2, <2>1, <2>2, <2>4
<1>6. ASSUME ConnTask(c) \/ CopyDone(c), ~ SelectRemote(c),
             ~ (RemoteError(c) \/ RemoteDied(c))
      PROVE  Goal
  <2>1. \E new : ConnMoves(conns[c], new) /\ conns' = [conns EXCEPT ![c] = new]
    <3>1. CASE ClientConnected(c) \/ GiveUp(c) \/ CopyDone(c) \/ CopyFinished(c)
      <4>1. \E p : /\ p # "connecting"
                   /\ p \in Early => conns[c].pc \in Early
                   /\ conns' = [conns EXCEPT ![c] = [conns[c] EXCEPT !.pc = p]]
        BY <3>1 DEF ClientConnected, GiveUp, CopyDone, CopyFinished, Early
      <4>. QED
        BY <1>3, <4>1
    <3>2. CASE ReadRetries(c)
      <4>1. conns[c].pc \in Early
        BY <3>2 DEF ReadRetries, Early
      <4>2. \/ conns' = [conns EXCEPT ![c] = IdleConn]
            \/ \E n : conns' = [conns EXCEPT ![c] =
                                  [conns[c] EXCEPT !.pc = "select", !.retries = n]]
        BY <3>2 DEF ReadRetries
      <4>. QED
        BY <1>2, <1>3, <4>1, <4>2
    <3>3. CASE RemoteConnected(c)
      <4>1. conns' \in {[conns EXCEPT ![c] = IdleConn],
                        [conns EXCEPT ![c] = [conns[c] EXCEPT !.pc = "copying"]]}
        BY <3>3 DEF RemoteConnected
      <4>2. "copying" \notin Early
        BY DEF Early
      <4>. QED
        BY <1>2, <1>3, <4>1, <4>2
    <3>4. CASE ClientDisconnected(c)
      BY <1>2, <3>4 DEF ClientDisconnected
    <3>. QED
      BY <1>6, <3>1, <3>2, <3>3, <3>4 DEF ConnTask
  <2>. QED
    BY <1>1, <2>1
<1>7. ASSUME NEW d \in Conns, ConnTask(d) \/ CopyDone(d) PROVE Goal
  <2>1. CASE d = c
    BY <1>4, <1>5, <1>6, <1>7, <2>1
  <2>2. CASE d # c
    <3>1. \E conn : conns' = [conns EXCEPT ![d] = conn]
      BY <1>7 DEF ConnTask, ClientConnected, ReadRetries, SelectRemote, GiveUp,
         RemoteConnected, RemoteError, RemoteDied, CopyDone, CopyFinished,
         ClientDisconnected
    <3>. QED
      BY <1>1, <2>2, <3>1
  <2>. QED
    BY <2>1, <2>2
<1>8. ASSUME NEW k \in Keys, NEW d \in Conns, Accept(k, d) PROVE Goal
  <2>. DEFINE conn == [IdleConn EXCEPT !.pc = "accepted", !.key = k,
                                       !.channel = listener[k]]
  <2>1. conns' = [conns EXCEPT ![d] = conn]
    BY <1>8 DEF Accept
  <2>2. conn.remote = NoRemote /\ conn.pc = "accepted"
    BY DEF IdleConn
  <2>. HIDE DEF conn
  <2>3. ConnMoves(conns[c], conn)
    BY <2>2 DEF ConnMoves
  <2>. QED
    BY <1>1, <2>1, <2>3
<1>. QED
  BY <1>7, <1>8, ConnsKept

-----------------------------------------------------------------------------
(* The counters of a remote in a tunnel whose remotes do not die.           *)

IsSteady(k) == tunnels[k].options.errors_till_dead > ErrorCap

\* Attempts use the threshold of their tunnel.
ThresholdKept(k) ==
  \A c \in Conns :
    conns[c].key = k /\ conns[c].pc = "connecting" =>
      conns[c].errors_till_dead = tunnels[k].options.errors_till_dead

SteadyTunnel(k) ==
  /\ tunnels[k].streams_open = Cardinality(CountedAt(k))
  /\ DOMAIN tunnels[k].dead_remotes = {}
  /\ \A r \in DOMAIN tunnels[k].remotes : CountsOf(k, r)
  /\ ThresholdKept(k)

\* A connection without an attempt or a stream names no remote.
EarlyInv == \A c \in Conns : conns[c].pc \in Early => conns[c].remote = NoRemote

SteadyInv ==
  /\ EarlyInv
  /\ \A k \in DOMAIN tunnels : IsSteady(k) => SteadyTunnel(k)

\* An attempt that fails in a steady tunnel is not the last of its remote.
LEMMA NoDeath ==
  ASSUME TypeInv, NEW k \in DOMAIN tunnels, IsSteady(k), ThresholdKept(k),
         NEW c \in Conns, conns[c].key = k
  PROVE  ~ RemoteDied(c)
<1>. SUFFICES ASSUME RemoteDied(c) PROVE FALSE
  OBVIOUS
<1>. DEFINE r == conns[c].remote
            ri == tunnels[k].remotes[r]
            t == tunnels[k].options.errors_till_dead
<1>1. /\ r \in DOMAIN tunnels[k].remotes
      /\ conns[c].errors_till_dead = t
      /\ error(ri).num_errors >= conns[c].errors_till_dead
  BY DEF RemoteDied, is_dead, ThresholdKept
<1>2. tunnels[k] \in Info(DOMAIN tunnels[k].remotes, DOMAIN tunnels[k].dead_remotes)
  BY TypeInvParts DEF TunnelsOK, IsInfo
<1>3. ri \in RemoteInfo /\ tunnels[k].options \in Options
  BY <1>1, <1>2 DEF Info
<1>. HIDE DEF ri
<1>4. t \in Nat
  BY <1>3
<1>5. error(ri).num_errors \in 0 .. ErrorCap
  BY <1>3 DEF RemoteInfo, ErrorCount, error, SaturatedInc
<1>. QED
  BY <1>1, <1>4, <1>5 DEF IsSteady

\* An attempt is counted as pending, so it ends without a panic.
LEMMA AttemptsCounted ==
  ASSUME Countable, NEW k,
         \A r \in DOMAIN tunnels[k].remotes : CountsOf(k, r)
  PROVE  NoAttemptPanics(k)
<1>. SUFFICES ASSUME NEW c \in Conns, IsPending(conns[c], k, conns[c].remote),
                     conns[c].remote \in DOMAIN tunnels[k].remotes
              PROVE  tunnels[k].remotes[conns[c].remote].streams_pending # 0
  BY DEF NoAttemptPanics, IsPending, Panics
<1>. DEFINE r == conns[c].remote
<1>1. c \in PendingOn(k, r) /\ PendingOn(k, r) \in SUBSET Conns
  BY SetMembers
<1>2. Cardinality(PendingOn(k, r)) # 0
  BY <1>1, SetCounts
<1>. QED
  BY <1>2 DEF CountsOf

\* No remote of a steady tunnel dies or returns; ADD alone brings one.
LEMMA SteadyPlaces ==
  ASSUME TypeInv, [Next]_vars, NEW k, k \in DOMAIN tunnels, k \in DOMAIN tunnels',
         DOMAIN tunnels[k].dead_remotes = {},
         \A c \in Conns : conns[c].key = k => ~ RemoteDied(c)
  PROVE  /\ DOMAIN tunnels'[k].dead_remotes = {}
         /\ \A r \in DOMAIN tunnels'[k].remotes :
              r \in DOMAIN tunnels[k].remotes \/ (r \in Remotes /\ AddRemote(k, r))
<1>. DEFINE Goal ==
       /\ DOMAIN tunnels'[k].dead_remotes = {}
       /\ \A r \in DOMAIN tunnels'[k].remotes :
            r \in DOMAIN tunnels[k].remotes \/ (r \in Remotes /\ AddRemote(k, r))
<1>1. CASE CountingStep
  BY <1>1 DEF CountingStep, SamePlaces
<1>2. ASSUME tunnels'[k] = tunnels[k] PROVE Goal
  BY <1>2
<1>3. ASSUME NEW j, j # k, NEW r, NEW live, NEW dead, MoveStep(j, r, live, dead)
      PROVE  Goal
  BY <1>2, <1>3 DEF MoveStep
<1>4. ASSUME NEW j \in Keys, NEW remotes \in RemoteSets, NEW options \in Options,
             OpenTunnel(j, remotes, options)
      PROVE  Goal
  BY <1>2, <1>4, OpenTunnelStep DEF OpenStep
<1>5. ASSUME NEW j \in Keys, CloseTunnel(j) PROVE Goal
  BY <1>2, <1>5, CloseTunnelStep DEF CloseStep
<1>6. ASSUME NEW j \in Keys, NEW r \in Remotes, AddRemote(j, r) PROVE Goal
  <2>1. CASE j = k
    <3>1. MoveStep(k, r, DOMAIN tunnels[k].remotes \cup {r},
                   DOMAIN tunnels[k].dead_remotes)
      BY <1>6, <2>1, AddRemoteMove
    <3>. QED
      BY <1>6, <2>1, <3>1 DEF MoveStep, MovesTo
  <2>2. CASE j # k
    <3>1. \E live, dead : MoveStep(j, r, live, dead)
      BY <1>6, AddRemoteMove, Zenon
    <3>. QED
      BY <1>3, <2>2, <3>1
  <2>. QED
    BY <2>1, <2>2
<1>7. ASSUME NEW j \in Keys, NEW r \in Removable, RemoveRemote(j, r) PROVE Goal
  <2>1. PICK live \in SUBSET DOMAIN tunnels[j].remotes,
             dead \in SUBSET DOMAIN tunnels[j].dead_remotes :
          MoveStep(j, r, live, dead)
    BY <1>7, RemoveRemoteMove, Zenon
  <2>. QED
    BY <2>1 DEF MoveStep, MovesTo
<1>8. ASSUME NEW c \in Conns, RemoteDied(c) PROVE Goal
  <2>1. PICK j, r, live, dead : MoveStep(j, r, live, dead) /\ j = conns[c].key
    BY <1>8, RemoteDiedMove, Zenon
  <2>. QED
    BY <1>3, <1>8, <2>1
<1>9. ASSUME NEW id \in CheckIds, Revive(id) \/ CheckAgain(id), ~ CountingStep
      PROVE  Goal
  <2>1. IsDead(checks[id].key, checks[id].remote)
    BY <1>9, LateCheck
  <2>2. PICK j, r : j = checks[id].key /\ r = checks[id].remote
    OBVIOUS
  <2>3. r \in DOMAIN tunnels[j].dead_remotes
    BY <2>1, <2>2 DEF IsDead
  <2>4. \E live, dead : MoveStep(j, r, live, dead)
    <3>1. CASE Revive(id)
      BY <2>1, <2>2, <3>1, ReviveMove, Zenon
    <3>2. CASE CheckAgain(id)
      BY <2>1, <2>2, <3>2, CheckAgainMove, Zenon
    <3>. QED
      BY <1>9, <3>1, <3>2
  <2>. QED
    BY <1>3, <2>3, <2>4
<1>. QED
  BY <1>1, <1>4, <1>5, <1>6, <1>7, <1>8, <1>9, CountingSteps
     DEF Next, AdminStep, ConnStep, ConnTask, CheckStep, CheckTask

\* Steps outside the tasks of connections leave the record of a remote alone
\* that stays in a tunnel with no dead ones.
LEMMA RecordKept ==
  ASSUME TypeInv, [Next]_vars, ~ \E c \in Conns : ConnTask(c) \/ CopyDone(c),
         NEW k, k \in DOMAIN tunnels, k \in DOMAIN tunnels',
         DOMAIN tunnels[k].dead_remotes = {},
         NEW r \in DOMAIN tunnels[k].remotes, r \in DOMAIN tunnels'[k].remotes
  PROVE  tunnels'[k].remotes[r] = tunnels[k].remotes[r]
<1>. DEFINE Goal == tunnels'[k].remotes[r] = tunnels[k].remotes[r]
<1>0. IsInfo(tunnels[k])
  BY TypeInvParts DEF TunnelsOK
<1>1. ASSUME tunnels'[k] = tunnels[k] PROVE Goal
  BY <1>1
<1>2. ASSUME NEW j \in Keys, NEW remotes, NEW options,
             OpenTunnel(j, remotes, options)
      PROVE  Goal
  BY <1>1, <1>2 DEF OpenTunnel, IsOpen, Put
<1>3. ASSUME NEW j \in Keys, CloseTunnel(j) PROVE Goal
  BY <1>1, <1>3 DEF CloseTunnel, Drop
<1>4. ASSUME NEW j \in Keys, NEW q, AddRemote(j, q) PROVE Goal
  <2>1. CASE j = k
    <3>1. tunnels'[k] = add_remote(tunnels[k], q) /\ q # r
      BY <1>4, <2>1 DEF AddRemote, may_add, Update
    <3>2. add_remote(tunnels[k], q).remotes[r] = tunnels[k].remotes[r]
      BY <1>0, <3>1 DEF add_remote, Put, IsInfo, Info
    <3>. QED
      BY <3>1, <3>2
  <2>2. CASE j # k
    BY <1>1, <1>4, <2>2 DEF AddRemote, Update
  <2>. QED
    BY <2>1, <2>2
<1>5. ASSUME NEW j \in Keys, NEW q, RemoveRemote(j, q) PROVE Goal
  <2>1. CASE j = k
    <3>1. tunnels'[k] = remove_remote(tunnels[k], q)
      BY <1>5, <2>1 DEF RemoveRemote, Update
    <3>2. r \in DOMAIN remove_remote(tunnels[k], q).remotes =>
            remove_remote(tunnels[k], q).remotes[r] = tunnels[k].remotes[r]
      BY <1>0 DEF remove_remote, Drop, IsInfo, Info
    <3>. QED
      BY <3>1, <3>2
  <2>2. CASE j # k
    BY <1>1, <1>5, <2>2 DEF RemoveRemote, Update
  <2>. QED
    BY <2>1, <2>2
<1>6. ASSUME NEW id \in CheckIds, Revive(id) \/ CheckAgain(id) PROVE Goal
  <2>1. PICK j, q : j = checks[id].key /\ q = checks[id].remote
    OBVIOUS
  <2>2. tunnels' = tunnels \/ (IsDead(j, q) /\ \E ti : tunnels' = [tunnels EXCEPT ![j] = ti])
    BY <1>6, <2>1 DEF Revive, CheckAgain, Update
  <2>. QED
    BY <1>1, <2>2 DEF IsDead
<1>7. CASE UNCHANGED tunnels
  BY <1>7
<1>. QED
  BY <1>2, <1>3, <1>4, <1>5, <1>6, <1>7
     DEF Next, AdminStep, ListenerStep, Accept, StopListening, ConnStep,
         CheckStep, CheckTask, ProbeAnswered, ProbeFailed, vars

\* A counter of n after a connection that was counted or not is or is not.
Tally(n, was, is) ==
  IF was <=> is THEN n ELSE IF is THEN Inc(n) ELSE Dec(n)

\* The counters of a remote after the call of one task: tallied.
Tallied(old, new, was, is, k, r) ==
  /\ new.streams_pending = Tally(old.streams_pending, IsPending(was, k, r),
                                 IsPending(is, k, r))
  /\ new.streams_open = Tally(old.streams_open, IsEstablished(was, k, r),
                              IsEstablished(is, k, r))

LEMMA TalliedCounts ==
  ASSUME Countable, TypeInv, NEW c \in Conns, NEW conn,
         conns' = [conns EXCEPT ![c] = conn], NEW k, NEW r, CountsOf(k, r),
         Tallied(tunnels[k].remotes[r], tunnels'[k].remotes[r], conns[c], conn, k, r)
  PROVE  CountsOf(k, r)'
<1>1. ASSUME NEW S \in SUBSET Conns, NEW T, NEW was \in BOOLEAN, NEW is \in BOOLEAN,
             was <=> c \in S,
             T = IF is THEN S \cup {c} ELSE S \ {c}
      PROVE  Cardinality(T) = Tally(Cardinality(S), was, is)
  <2>1. CASE was <=> is
    <3>1. T = S
      BY <1>1, <2>1
    <3>. QED
      BY <2>1, <3>1 DEF Tally
  <2>2. CASE ~ was /\ is
    <3>1. Cardinality(S \cup {c}) = Inc(Cardinality(S))
      BY <1>1, <2>2, SetCounts
    <3>. QED
      BY <1>1, <2>2, <3>1 DEF Tally
  <2>3. CASE was /\ ~ is
    <3>1. Cardinality(S \ {c}) = Dec(Cardinality(S))
      BY <1>1, <2>3, SetCounts
    <3>. QED
      BY <1>1, <2>3, <3>1 DEF Tally
  <2>. QED
    BY <2>1, <2>2, <2>3
<1>2. /\ IsPending(conns[c], k, r) \in BOOLEAN
      /\ IsPending(conn, k, r) \in BOOLEAN
      /\ IsEstablished(conns[c], k, r) \in BOOLEAN
      /\ IsEstablished(conn, k, r) \in BOOLEAN
  BY DEF IsPending, IsEstablished
<1>3. \A d \in Conns : conns'[d] = IF d = c THEN conn ELSE conns[d]
  BY TypeInvParts
<1>. DEFINE P == PendingOn(k, r)
            E == OpenOn(k, r)
            PN == {d \in Conns : IsPending(conns'[d], k, r)}
            EN == {d \in Conns : IsEstablished(conns'[d], k, r)}
<1>4. /\ c \in P <=> IsPending(conns[c], k, r)
      /\ c \in E <=> IsEstablished(conns[c], k, r)
      /\ P \in SUBSET Conns
      /\ E \in SUBSET Conns
  BY SetMembers
<1>5. PN = IF IsPending(conn, k, r) THEN P \cup {c} ELSE P \ {c}
  BY <1>3 DEF PendingOn, IsPending
<1>6. EN = IF IsEstablished(conn, k, r) THEN E \cup {c} ELSE E \ {c}
  BY <1>3 DEF OpenOn, IsEstablished
<1>7. /\ tunnels[k].remotes[r].streams_pending = Cardinality(P)
      /\ tunnels[k].remotes[r].streams_open = Cardinality(E)
  BY DEF CountsOf
<1>. HIDE DEF P, E, PN, EN
<1>8. /\ tunnels'[k].remotes[r].streams_pending = Cardinality(PN)
      /\ tunnels'[k].remotes[r].streams_open = Cardinality(EN)
  BY <1>1, <1>2, <1>4, <1>5, <1>6, <1>7 DEF Tallied
<1>. QED
  BY <1>8 DEF CountsOf, PendingOn, OpenOn, PN, EN, IsPending, IsEstablished

\* What the calls do to the record of a remote in rotation.
LEMMA RecordAfterCall ==
  ASSUME NEW ti, IsInfo(ti), NEW r \in DOMAIN ti.remotes, NEW q
  PROVE  LET ri == ti.remotes[r]
         IN /\ client_connected(ti).remotes[r] = ri
            /\ select(ti, q).remotes[r] =
                 IF q = r THEN new_pending_stream(ri) ELSE ri
            /\ connected(ti, q).remotes[r] =
                 IF q = r THEN remote_connected(ri) ELSE ri
            /\ count_error(ti, q).remotes[r] = IF q = r THEN error(ri) ELSE ri
            /\ ~ Panics(ti.streams_open) =>
                 client_disconnected(ti, q).remotes[r] =
                   IF q = r THEN remote_disconnected(ri) ELSE ri
<1>. DEFINE ri == ti.remotes[r]
<1>1. ti \in Info(DOMAIN ti.remotes, DOMAIN ti.dead_remotes)
  BY DEF IsInfo
<1>2. ASSUME NEW l PROVE [ti EXCEPT !.remotes = l].remotes = l
  BY <1>1 DEF Info
<1>3. ASSUME NEW x, q \in DOMAIN ti.remotes
      PROVE  [ti EXCEPT !.remotes[q] = x].remotes[r] = IF q = r THEN x ELSE ri
  BY <1>1, <1>3 DEF Info
<1>4. ASSUME NEW n PROVE [ti EXCEPT !.streams_open = n].remotes[r] = ri
  BY <1>1 DEF Info
<1>5. ASSUME NEW x, NEW n, q \in DOMAIN ti.remotes
      PROVE  [ti EXCEPT !.streams_open = n, !.remotes[q] = x].remotes[r] =
               IF q = r THEN x ELSE ri
  BY <1>1, <1>5 DEF Info
<1>6. client_connected(ti).remotes[r] = ri
  BY <1>4 DEF client_connected
<1>7. select(ti, q).remotes[r] = IF q = r THEN new_pending_stream(ri) ELSE ri
  BY <1>1 DEF select, Info
<1>8. connected(ti, q).remotes[r] = IF q = r THEN remote_connected(ri) ELSE ri
  BY <1>3 DEF connected
<1>9. count_error(ti, q).remotes[r] = IF q = r THEN error(ri) ELSE ri
  BY <1>3 DEF count_error
<1>10. client_disconnected(ti, q).remotes[r] =
         IF q = r /\ ~ Panics(ti.streams_open) THEN remote_disconnected(ri) ELSE ri
  BY <1>4, <1>5 DEF client_disconnected
<1>. QED
  BY <1>6, <1>7, <1>8, <1>9, <1>10

\* The calls of a task in a steady tunnel tally the connection.
LEMMA TaskTallies ==
  ASSUME Countable, UsableTimeouts, TypeInv, EarlyInv, NEW k, k \in DOMAIN tunnels,
         IsSteady(k), SteadyTunnel(k), NEW c \in Conns, conns[c].key = k,
         ConnTask(c) \/ CopyDone(c), NEW r \in DOMAIN tunnels[k].remotes
  PROVE  \E conn :
           /\ conns' = [conns EXCEPT ![c] = conn]
           /\ Tallied(tunnels[k].remotes[r], tunnels'[k].remotes[r],
                      conns[c], conn, k, r)
<1>. DEFINE old == conns[c]
            ti == tunnels[k]
            ri == ti.remotes[r]
            q == old.remote
            Goal == \E conn :
                      /\ conns' = [conns EXCEPT ![c] = conn]
                      /\ Tallied(ri, tunnels'[k].remotes[r], old, conn, k, r)
<1>0. /\ IsInfo(ti)
      /\ r \in Remotes
      /\ ri \in RemoteInfo
      /\ NoAttemptPanics(k)
  <2>1. IsInfo(ti)
    BY TypeInvParts DEF TunnelsOK
  <2>2. NoAttemptPanics(k)
    BY AttemptsCounted DEF SteadyTunnel
  <2>. QED
    BY <2>1, <2>2 DEF IsInfo, Info
<1>1. old.pc \in Early => q # r
  BY <1>0 DEF EarlyInv
\* A connection that does not count for r and never did.
<1>2. ASSUME NEW p, NEW s, Becomes(c, p, s),
             IsPending(old, k, r) <=> (p = "connecting" /\ s = r),
             IsEstablished(old, k, r) <=> (p \in {"copying", "closing"} /\ s = r),
             tunnels'[k].remotes[r] = ri
      PROVE  Goal
  BY <1>2 DEF Becomes, Tallied, Tally, IsPending, IsEstablished
<1>3. ASSUME ClientConnected(c) PROVE Goal
  <2>1. Becomes(c, "counted", q)
    BY <1>0, <1>3, TaskGoesOn
  <2>2. old.pc = "accepted" /\ tunnels'[k] = client_connected(ti)
    BY <1>3 DEF ClientConnected, IsOpen
  <2>3. tunnels'[k].remotes[r] = ri
    BY <1>0, <2>2, RecordAfterCall
  <2>. HIDE DEF ri, ti
  <2>. QED
    BY <1>2, <2>1, <2>2, <2>3 DEF IsPending, IsEstablished
<1>4. ASSUME ReadRetries(c) PROVE Goal
  <2>1. Becomes(c, "select", q)
    BY <1>0, <1>4, TaskGoesOn
  <2>2. old.pc = "counted" /\ tunnels'[k].remotes[r] = ri
    BY <1>4 DEF ReadRetries
  <2>. QED
    BY <1>2, <2>1, <2>2 DEF IsPending, IsEstablished
<1>5. ASSUME SelectRemote(c) PROVE Goal
  <2>1. PICK s \in DOMAIN ti.remotes :
          /\ Becomes(c, "connecting", s)
          /\ tunnels' = [tunnels EXCEPT ![k] = select(ti, s)]
    BY <1>0, <1>5, TaskGoesOn
  <2>2. old.pc = "select"
    BY <1>5 DEF SelectRemote
  <2>3. tunnels'[k].remotes[r] = IF s = r THEN new_pending_stream(ri) ELSE ri
    BY <1>0, <2>1, RecordAfterCall
  <2>4. /\ new_pending_stream(ri).streams_pending = Inc(ri.streams_pending)
        /\ new_pending_stream(ri).streams_open = ri.streams_open
    BY <1>0 DEF new_pending_stream, RemoteInfo
  <2>. HIDE DEF ri, ti
  <2>. QED
    BY <2>1, <2>2, <2>3, <2>4 DEF Becomes, Tallied, Tally, IsPending, IsEstablished
<1>6. ASSUME RemoteConnected(c) PROVE Goal
  <2>1. Becomes(c, "copying", q)
    BY <1>0, <1>6, TaskGoesOn
  <2>2. old.pc = "connecting" /\ tunnels'[k] = connected(ti, q)
    BY <1>6 DEF RemoteConnected, IsOpen
  <2>3. tunnels'[k].remotes[r] = IF q = r THEN remote_connected(ri) ELSE ri
    BY <1>0, <2>2, RecordAfterCall
  <2>4. /\ remote_connected(ri).streams_pending = Dec(ri.streams_pending)
        /\ remote_connected(ri).streams_open = Inc(ri.streams_open)
    BY DEF remote_connected
  <2>. HIDE DEF ri, ti
  <2>. QED
    BY <2>1, <2>2, <2>3, <2>4 DEF Becomes, Tallied, Tally, IsPending, IsEstablished
<1>7. ASSUME RemoteError(c) PROVE Goal
  <2>1. Becomes(c, "select", NoRemote)
    BY <1>0, <1>7, TaskGoesOn
  <2>2. old.pc = "connecting" /\ tunnels'[k] = count_error(ti, q)
    BY <1>7 DEF RemoteError, IsOpen
  <2>3. tunnels'[k].remotes[r] = IF q = r THEN error(ri) ELSE ri
    BY <1>0, <2>2, RecordAfterCall
  <2>4. /\ error(ri).streams_pending = Dec(ri.streams_pending)
        /\ error(ri).streams_open = ri.streams_open
    BY <1>0 DEF error, RemoteInfo
  <2>. HIDE DEF ri, ti
  <2>. QED
    BY <2>1, <2>2, <2>3, <2>4 DEF Becomes, Tallied, Tally, IsPending, IsEstablished
<1>8. ~ RemoteDied(c)
  BY NoDeath DEF SteadyTunnel
<1>9. ASSUME GiveUp(c) PROVE Goal
  <2>1. Becomes(c, "closing", q)
    BY <1>0, <1>9, TaskGoesOn
  <2>2. old.pc = "select" /\ tunnels'[k].remotes[r] = ri /\ q # r
    BY <1>1, <1>9 DEF GiveUp, Early
  <2>. QED
    BY <1>2, <2>1, <2>2 DEF IsPending, IsEstablished
<1>10. ASSUME CopyDone(c) \/ CopyFinished(c) PROVE Goal
  <2>1. Becomes(c, "closing", q)
    BY <1>0, <1>10, TaskGoesOn
  <2>2. old.pc = "copying" /\ tunnels'[k].remotes[r] = ri
    BY <1>10 DEF CopyDone, CopyFinished
  <2>. QED
    BY <1>2, <2>1, <2>2 DEF IsPending, IsEstablished
<1>11. ASSUME ClientDisconnected(c) PROVE Goal
  <2>1. conns' = [conns EXCEPT ![c] = IdleConn]
    BY <1>11 DEF ClientDisconnected
  <2>2. old.pc = "closing" /\ tunnels'[k] = client_disconnected(ti, q)
    BY <1>11 DEF ClientDisconnected, IsOpen
  <2>3. ~ Panics(ti.streams_open)
    <3>1. c \in CountedAt(k) /\ CountedAt(k) \in SUBSET Conns
      BY <2>2, SetMembers DEF IsCounted
    <3>2. Cardinality(CountedAt(k)) # 0
      BY <3>1, SetCounts
    <3>. QED
      BY <3>2 DEF SteadyTunnel, Panics
  <2>4. tunnels'[k].remotes[r] = IF q = r THEN remote_disconnected(ri) ELSE ri
    BY <1>0, <2>2, <2>3, RecordAfterCall
  <2>5. /\ remote_disconnected(ri).streams_pending = ri.streams_pending
        /\ remote_disconnected(ri).streams_open = Dec(ri.streams_open)
    BY <1>0 DEF remote_disconnected, RemoteInfo
  <2>6. /\ ~ IsPending(IdleConn, k, r) /\ ~ IsEstablished(IdleConn, k, r)
        /\ ~ IsPending(old, k, r) /\ (IsEstablished(old, k, r) <=> q = r)
    BY <2>2 DEF IdleConn, IsPending, IsEstablished
  <2>7. Tallied(ri, tunnels'[k].remotes[r], old, IdleConn, k, r)
    <3>. HIDE DEF ri, ti, q, old
    <3>. QED
      BY <2>4, <2>5, <2>6 DEF Tallied, Tally
  <2>. QED
    BY <2>1, <2>7
<1>. QED
  BY <1>3, <1>4, <1>5, <1>6, <1>7, <1>8, <1>9, <1>10, <1>11 DEF ConnTask

\* ADD takes a remote only when no connection of the tunnel is left that used
\* one of its name.
AddsAfresh ==
  \A k \in Keys, r \in Remotes : AddRemote(k, r) =>
    \A c \in Conns : conns[c].key = k => conns[c].remote # r

\* A step keeps the counters of a steady tunnel.
LEMMA SteadyCountsStep ==
  ASSUME Countable, UsableTimeouts, TypeInv, EarlyInv, [Next]_vars,
         [AddsAfresh]_vars,
         NEW k, k \in DOMAIN tunnels, k \in DOMAIN tunnels',
         IsSteady(k), SteadyTunnel(k), NEW r \in DOMAIN tunnels'[k].remotes
  PROVE  CountsOf(k, r)'
<1>0. /\ DOMAIN tunnels[k].dead_remotes = {}
      /\ \A q \in DOMAIN tunnels[k].remotes : CountsOf(k, q)
      /\ k \in Keys
  BY TypeInvParts DEF SteadyTunnel, TunnelsOK, IsMap
<1>1. r \in DOMAIN tunnels[k].remotes \/ (r \in Remotes /\ AddRemote(k, r))
  <2>1. \A c \in Conns : conns[c].key = k => ~ RemoteDied(c)
    BY NoDeath DEF SteadyTunnel
  <2>. QED
    BY <1>0, <2>1, SteadyPlaces
<1>2. ASSUME UNCHANGED conns, r \in DOMAIN tunnels[k].remotes,
             tunnels'[k].remotes[r] = tunnels[k].remotes[r]
      PROVE  CountsOf(k, r)'
  <2>1. CountsOf(k, r)
    BY <1>0, <1>2
  <2>2. PendingOn(k, r)' = PendingOn(k, r) /\ OpenOn(k, r)' = OpenOn(k, r)
    BY <1>2 DEF PendingOn, OpenOn
  <2>. QED
    BY <1>2, <2>1, <2>2 DEF CountsOf
\* An ADD brings it, with nothing counted and nothing to count.
<1>3. CASE r \notin DOMAIN tunnels[k].remotes
  <2>1. r \in Remotes /\ AddRemote(k, r)
    BY <1>1, <1>3
  <2>2. UNCHANGED conns /\ tunnels'[k].remotes[r] = NewRemoteInfo
    <3>1. UNCHANGED conns /\ tunnels'[k] = add_remote(tunnels[k], r)
      BY <2>1 DEF AddRemote, Update
    <3>2. tunnels[k] \in Info(DOMAIN tunnels[k].remotes, DOMAIN tunnels[k].dead_remotes)
      BY TypeInvParts DEF TunnelsOK, IsInfo
    <3>3. add_remote(tunnels[k], r).remotes = Put(tunnels[k].remotes, r, NewRemoteInfo)
      BY <3>2 DEF Info, add_remote
    <3>. QED
      BY <3>1, <3>3 DEF Put
  <2>3. tunnels' # tunnels
    BY <1>3
  <2>4. \A c \in Conns : conns'[c].key = k => conns'[c].remote # r
    BY <1>0, <2>1, <2>2, <2>3 DEF AddsAfresh, vars
  <2>5. PendingOn(k, r)' = {} /\ OpenOn(k, r)' = {}
    BY <2>4 DEF PendingOn, OpenOn
  <2>. QED
    BY <2>2, <2>5, FS_EmptySet DEF CountsOf, NewRemoteInfo
<1>4. CASE r \in DOMAIN tunnels[k].remotes
  <2>1. ASSUME NEW c \in Conns, ConnTask(c) \/ CopyDone(c), conns[c].key = k
        PROVE  CountsOf(k, r)'
    <3>1. PICK conn :
            /\ conns' = [conns EXCEPT ![c] = conn]
            /\ Tallied(tunnels[k].remotes[r], tunnels'[k].remotes[r],
                       conns[c], conn, k, r)
      BY <1>4, <2>1, TaskTallies
    <3>2. CountsOf(k, r)
      BY <1>0, <1>4
    <3>. QED
      BY <3>1, <3>2, TalliedCounts
  \* It cannot be told from no connection by tunnel k.
  <2>2. ASSUME NEW c \in Conns, NEW conn, conns' = [conns EXCEPT ![c] = conn],
               ~ IsPending(conns[c], k, r), ~ IsEstablished(conns[c], k, r),
               ~ IsPending(conn, k, r), ~ IsEstablished(conn, k, r),
               tunnels'[k].remotes[r] = tunnels[k].remotes[r]
        PROVE  CountsOf(k, r)'
    <3>1. Tallied(tunnels[k].remotes[r], tunnels'[k].remotes[r], conns[c], conn, k, r)
      BY <2>2 DEF Tallied, Tally
    <3>2. CountsOf(k, r)
      BY <1>0, <1>4
    <3>. QED
      BY <2>2, <3>1, <3>2, TalliedCounts
  <2>3. ASSUME NEW c \in Conns, ConnTask(c) \/ CopyDone(c), conns[c].key # k
        PROVE  CountsOf(k, r)'
    <3>1. PICK conn : conn.key # k /\ conns' = [conns EXCEPT ![c] = conn]
      BY <1>0, <2>3, TaskElsewhere
    <3>2. tunnels'[k] = tunnels[k]
      BY <2>3 DEF ConnTask, ClientConnected, ReadRetries, SelectRemote, GiveUp,
         RemoteConnected, RemoteError, RemoteDied, CopyDone, CopyFinished,
         ClientDisconnected, Update
    <3>. QED
      BY <2>2, <2>3, <3>1, <3>2 DEF IsPending, IsEstablished
  <2>4. CASE ~ \E c \in Conns : ConnTask(c) \/ CopyDone(c)
    <3>1. tunnels'[k].remotes[r] = tunnels[k].remotes[r]
      BY <1>0, <1>4, <2>4, RecordKept
    <3>2. ASSUME NEW j \in Keys, NEW c \in Conns, Accept(j, c)
          PROVE  CountsOf(k, r)'
      <4>. DEFINE conn == [IdleConn EXCEPT !.pc = "accepted", !.key = j,
                                           !.channel = listener[j]]
      <4>1. conns' = [conns EXCEPT ![c] = conn] /\ conns[c].pc = "idle"
        BY <3>2 DEF Accept
      <4>2. conn.pc = "accepted"
        BY DEF IdleConn
      <4>. HIDE DEF conn
      <4>. QED
        BY <2>2, <3>1, <4>1, <4>2 DEF IsPending, IsEstablished
    <3>. QED
      BY <1>2, <1>4, <2>4, <3>1, <3>2, ConnsKept
  <2>. QED
    BY <2>1, <2>3, <2>4
<1>. QED
  BY <1>3, <1>4

\* So does it keep the thresholds of attempts.
LEMMA ThresholdsStep ==
  ASSUME TypeInv, [Next]_vars, NEW k, k \in DOMAIN tunnels, k \in DOMAIN tunnels',
         ThresholdKept(k)
  PROVE  ThresholdKept(k)'
<1>. SUFFICES ASSUME NEW c \in Conns,
                     conns'[c].key = k, conns'[c].pc = "connecting"
              PROVE  conns'[c].errors_till_dead =
                       tunnels'[k].options.errors_till_dead
  BY DEF ThresholdKept
<1>1. tunnels'[k].options = tunnels[k].options
  BY EntryKept
<1>2. conns'[c] = conns[c] \/ ConnMoves(conns[c], conns'[c])
  BY ConnAfter
<1>3. CASE conns'[c] = conns[c]
  BY <1>1, <1>3 DEF ThresholdKept
<1>4. CASE ConnMoves(conns[c], conns'[c])
  BY <1>1, <1>4 DEF ConnMoves
<1>. QED
  BY <1>2, <1>3, <1>4

LEMMA EarlyStep ==
  ASSUME TypeInv, EarlyInv, [Next]_vars
  PROVE  EarlyInv'
<1>. SUFFICES ASSUME NEW c \in Conns, conns'[c].pc \in Early
              PROVE  conns'[c].remote = NoRemote
  BY DEF EarlyInv
<1>1. conns'[c] = conns[c] \/ ConnMoves(conns[c], conns'[c])
  BY ConnAfter
<1>2. CASE conns'[c] = conns[c]
  BY <1>2 DEF EarlyInv
<1>3. CASE ConnMoves(conns[c], conns'[c])
  BY <1>3 DEF ConnMoves, EarlyInv, Early
<1>. QED
  BY <1>1, <1>2, <1>3

\* A tunnel opened when nothing is left at its key is steady.
LEMMA OpenedSteady ==
  ASSUME TypeInv, [Next]_vars, [OpensAfresh]_vars,
         NEW k, k \in DOMAIN tunnels', k \notin DOMAIN tunnels
  PROVE  SteadyTunnel(k)'
<1>1. PICK remotes \in RemoteSets, options \in Options :
        OpenTunnel(k, remotes, options)
  BY OpensOnly
<1>2. tunnels'[k] = NewTunnelInfo(opened + 1, remotes, options)
  BY <1>1 DEF OpenTunnel, Put
<1>3. /\ tunnels'[k].streams_open = 0
      /\ DOMAIN tunnels'[k].dead_remotes = {}
      /\ \A r \in DOMAIN tunnels'[k].remotes :
           tunnels'[k].remotes[r] = NewRemoteInfo
  BY <1>2 DEF NewTunnelInfo
<1>4. \A c \in Conns : conns'[c].key # k
  BY <1>1 DEF OpenTunnel, OpensAfresh, vars
<1>5. tunnels'[k].streams_open = Cardinality(CountedAt(k)')
  BY <1>3, <1>4, FS_EmptySet DEF CountedAt, IsCounted
<1>6. ASSUME NEW r \in DOMAIN tunnels'[k].remotes PROVE CountsOf(k, r)'
  <2>1. PendingOn(k, r)' = {} /\ OpenOn(k, r)' = {}
    BY <1>4 DEF PendingOn, OpenOn
  <2>. QED
    BY <1>3, <2>1, FS_EmptySet DEF CountsOf, NewRemoteInfo
<1>. QED
  BY <1>3, <1>4, <1>5, <1>6 DEF SteadyTunnel, ThresholdKept

LEMMA SteadyStep ==
  ASSUME Countable, UsableTimeouts, TypeInv, SteadyInv, [Next]_vars,
         [OpensAfresh]_vars, [AddsAfresh]_vars
  PROVE  SteadyInv'
<1>1. EarlyInv'
  BY EarlyStep DEF SteadyInv
<1>2. ASSUME NEW k, k \in DOMAIN tunnels', IsSteady(k)'
      PROVE  SteadyTunnel(k)'
  <2>1. CASE k \notin DOMAIN tunnels
    BY <1>2, <2>1, OpenedSteady
  <2>2. CASE k \in DOMAIN tunnels
    <3>1. IsSteady(k)
      BY <1>2, <2>2, EntryKept DEF IsSteady
    <3>2. EarlyInv /\ SteadyTunnel(k)
      BY <2>2, <3>1 DEF SteadyInv
    <3>3. tunnels'[k].streams_open = Cardinality(CountedAt(k)')
      <4>1. NoAttemptPanics(k)
        BY <3>2, AttemptsCounted DEF SteadyTunnel
      <4>2. tunnels[k].streams_open = Cardinality(CountedAt(k))
        BY <3>2 DEF SteadyTunnel
      <4>. QED
        BY <1>2, <2>2, <4>1, <4>2, TunnelCountStep
    <3>4. DOMAIN tunnels'[k].dead_remotes = {}
      <4>1. \A c \in Conns : conns[c].key = k => ~ RemoteDied(c)
        BY <2>2, <3>1, <3>2, NoDeath DEF SteadyTunnel
      <4>2. DOMAIN tunnels[k].dead_remotes = {}
        BY <3>2 DEF SteadyTunnel
      <4>. QED
        BY <1>2, <2>2, <4>1, <4>2, SteadyPlaces
    <3>5. ASSUME NEW r \in DOMAIN tunnels'[k].remotes PROVE CountsOf(k, r)'
      BY <1>2, <2>2, <3>1, <3>2, SteadyCountsStep
    <3>6. ThresholdKept(k)'
      BY <1>2, <2>2, <3>2, ThresholdsStep DEF SteadyTunnel
    <3>. QED
      BY <3>3, <3>4, <3>5, <3>6 DEF SteadyTunnel
  <2>. QED
    BY <2>1, <2>2
<1>. QED
  BY <1>1, <1>2 DEF SteadyInv

\* The counters of a remote in rotation are exact in a tunnel whose threshold
\* is out of reach: every way an attempt or a stream can end is counted once,
\* in either arithmetic profile, as long as no connection is left of an
\* earlier tunnel when one is opened at its key, nor of an earlier remote of
\* the name when one is added.
THEOREM SteadyRemotesCount ==
  ASSUME Countable, UsableTimeouts
  PROVE  Spec /\ [][OpensAfresh /\ AddsAfresh]_vars => []SteadyCountsExact
<1>1. Init => SteadyInv
  BY DEF Init, SteadyInv, EarlyInv, IdleConn
<1>2. TypeInv /\ SteadyInv /\ [Next]_vars /\ [OpensAfresh /\ AddsAfresh]_vars
        => SteadyInv'
  BY SteadyStep
<1>3. SteadyInv => SteadyCountsExact
  BY DEF SteadyInv, IsSteady, SteadyTunnel, SteadyCountsExact
<1>. QED
  <2>. DEFINE H == OpensAfresh /\ AddsAfresh
  <2>. HIDE DEF H
  <2>1. TypeInv /\ SteadyInv /\ [Next]_vars /\ [H]_vars => SteadyInv'
    BY <1>2 DEF H
  <2>2. Spec /\ [][H]_vars => []SteadyCountsExact
    BY <1>1, <1>3, <2>1, InitType, TypeInvStep, PTL DEF Spec
  <2>. QED
    BY <2>2 DEF H

\* Members stay as long as nothing is removed and the tunnel is open.
LEMMA MembersGrow ==
  ASSUME Removable = {}, TypeInv, [Next]_vars,
         NEW k \in DOMAIN tunnels, k \in DOMAIN tunnels'
  PROVE  Members(tunnels[k]) \subseteq Members(tunnels'[k])
<1>1. CASE ListenerStep \/ ConnStep \/ CheckStep
  BY <1>1, MembersStep
<1>2. CASE UNCHANGED vars
  BY <1>2 DEF vars
<1>3. ASSUME NEW j \in Keys, NEW remotes \in RemoteSets, NEW options \in Options,
             OpenTunnel(j, remotes, options)
      PROVE  tunnels'[k] = tunnels[k]
  BY <1>3 DEF OpenTunnel, Put, IsOpen
<1>4. ASSUME NEW j \in Keys, CloseTunnel(j) PROVE tunnels'[k] = tunnels[k]
  BY <1>4 DEF CloseTunnel, Drop
<1>5. ASSUME NEW j \in Keys, NEW r \in Remotes, AddRemote(j, r)
      PROVE  Members(tunnels[k]) \subseteq Members(tunnels'[k])
  <2>1. MoveStep(j, r, DOMAIN tunnels[j].remotes \cup {r},
                 DOMAIN tunnels[j].dead_remotes)
    BY <1>5, AddRemoteMove
  <2>2. CASE j = k
    BY <2>1, <2>2 DEF MoveStep, MovesTo, Members
  <2>3. CASE j # k
    BY <2>1, <2>3 DEF MoveStep
  <2>. QED
    BY <2>2, <2>3
<1>. QED
  BY <1>1, <1>2, <1>3, <1>4, <1>5 DEF Next, AdminStep

\* The remote of a connection is one of its tunnel, if that is open.
Attached ==
  \A c \in Conns : conns[c].remote # NoRemote /\ IsOpen(conns[c].key) =>
    conns[c].remote \in Members(tunnels[conns[c].key])

\* It stays one if nothing is removed.
LEMMA AttachedStep ==
  ASSUME Removable = {}, TypeInv, Attached, [Next]_vars, [OpensAfresh]_vars
  PROVE  Attached'
<1>1. ASSUME NEW k \in DOMAIN tunnels, k \in DOMAIN tunnels'
      PROVE  Members(tunnels[k]) \subseteq Members(tunnels'[k])
  BY <1>1, MembersGrow
<1>. SUFFICES ASSUME NEW c \in Conns, conns'[c].remote # NoRemote,
                     conns'[c].key \in DOMAIN tunnels'
              PROVE  conns'[c].remote \in Members(tunnels'[conns'[c].key])
  BY DEF Attached, IsOpen
<1>2. PICK k : k = conns'[c].key
  OBVIOUS
<1>3. CASE k \notin DOMAIN tunnels
  <2>1. PICK remotes, options : OpenTunnel(k, remotes, options)
    BY <1>2, <1>3, OpensOnly
  <2>. QED
    BY <1>2, <1>3, <2>1 DEF OpenTunnel, OpensAfresh, vars
<1>4. CASE k \in DOMAIN tunnels
  <2>1. conns'[c].remote \in Members(tunnels[k])
    <3>1. conns'[c] = conns[c] \/ ConnMoves(conns[c], conns'[c])
      BY ConnAfter
    <3>. QED
      BY <1>2, <1>4, <3>1 DEF ConnMoves, Attached, IsOpen, Members
  <2>. QED
    BY <1>1, <1>2, <1>4, <2>1
<1>. QED
  BY <1>3, <1>4

\* In particular when tunnels are opened once and no remote is removed.
THEOREM SteadyRemotesCountOnce ==
  ASSUME Countable, UsableTimeouts, MaxOpens = 1, Removable = {}
  PROVE  Spec => []SteadyCountsExact
<1>. DEFINE A == OpensAfresh
            H == OpensAfresh /\ AddsAfresh
<1>1. TypeInv /\ Fresh /\ [Next]_vars => [A]_vars
  BY OneOpenIsFresh
<1>2. Init => Fresh /\ Attached
  BY DEF Init, Fresh, Attached, IdleConn
<1>3. TypeInv /\ Attached /\ [Next]_vars /\ [A]_vars => Attached'
  BY AttachedStep
<1>4. TypeInv /\ Attached /\ [A]_vars => [H]_vars
  <2>. SUFFICES ASSUME Attached, NEW k, NEW r \in Remotes, AddRemote(k, r),
                       NEW c \in Conns, conns[c].key = k, conns[c].remote = r
                PROVE  FALSE
    BY DEF AddsAfresh
  <2>. QED
    BY DEF AddRemote, may_add, Attached, Members
<1>5. Spec => [][H]_vars
  <2>. HIDE DEF A, H
  <2>. QED BY <1>1, <1>2, <1>3, <1>4, InitType, TypeInvStep, FreshStep, PTL DEF Spec
<1>. QED
  BY <1>5, SteadyRemotesCount

-----------------------------------------------------------------------------
(* The instruments.                                                         *)

\* What a remote's instruments show.
Gauge == [streams_open : Word, streams_pending : Word, num_errors : Int]

GaugesOK ==
  /\ tunnel_streams \in [Keys -> Word]
  /\ remote_streams \in [Keys -> [Remotes -> Gauge]]

\* Adding to an instrument is what counting does, where it may wrap.
LEMMA WrappedFacts ==
  /\ \A n \in Int : Wrapped(n) \in Word
  /\ \A n \in Word : /\ Wrapped(n + 0) = n
                     /\ Wrapped(n + 1) = Inc(n)
                     /\ ~ OverflowChecks => Wrapped(n + (-1)) = Dec(n)
                     /\ ~ OverflowChecks => Wrapped(n - 1) = Dec(n)
<1>1. \A n \in Int : Wrapped(n) \in Word
  BY DEF Wrapped, Word
<1>2. \A n \in Word : n % WordSize = n
  BY DEF Word
<1>3. \A n \in Word : Wrapped(n + 0) = n
  BY <1>2 DEF Wrapped, Word
<1>4. \A n \in Word : Wrapped(n + 1) = Inc(n)
  BY DEF Wrapped, Inc
<1>5. (-1) % WordSize = WordSize - 1
  OBVIOUS
<1>6. ASSUME NEW n \in Word, ~ OverflowChecks
      PROVE  Wrapped(n + (-1)) = Dec(n) /\ Wrapped(n - 1) = Dec(n)
  <2>1. n + (-1) = n - 1
    BY DEF Word
  <2>2. CASE n = 0
    BY <1>5, <1>6, <2>2 DEF Wrapped, Dec
  <2>3. CASE n # 0
    <3>1. n - 1 \in Word
      BY <2>3 DEF Word
    <3>2. (n - 1) % WordSize = n - 1
      BY <1>2, <3>1
    <3>. QED
      BY <2>1, <2>3, <3>2 DEF Wrapped, Dec, Word
  <2>. QED
    BY <2>2, <2>3
<1>. QED
  BY <1>1, <1>3, <1>4, <1>6

\* Only the instruments of one remote change.
OthersKept(k, r) ==
  \A j \in Keys, q \in Remotes :
    j # k \/ q # r => remote_streams'[j][q] = remote_streams[j][q]

\* An addition changes the instruments of one remote.
LEMMA AddedRemote ==
  ASSUME GaugesOK, NEW k \in Keys, NEW r \in Remotes, NEW o \in Int, NEW p \in Int,
         NEW e \in Int, AddRemoteStreams(k, r, o, p, e)
  PROVE  LET old == remote_streams[k][r]
             new == [streams_open    |-> Wrapped(old.streams_open + o),
                     streams_pending |-> Wrapped(old.streams_pending + p),
                     num_errors      |-> old.num_errors + e]
         IN /\ remote_streams' \in [Keys -> [Remotes -> Gauge]]
            /\ remote_streams'[k][r] = new
            /\ OthersKept(k, r)
<1>. DEFINE old == remote_streams[k][r]
            new == [streams_open    |-> Wrapped(old.streams_open + o),
                    streams_pending |-> Wrapped(old.streams_pending + p),
                    num_errors      |-> old.num_errors + e]
<1>1. old \in Gauge /\ remote_streams \in [Keys -> [Remotes -> Gauge]]
  BY DEF GaugesOK
<1>2. new \in Gauge
  BY <1>1, WrappedFacts DEF Gauge, Word
<1>3. remote_streams' = [remote_streams EXCEPT ![k][r] = new]
  BY <1>1 DEF AddRemoteStreams, Gauge
<1>. HIDE DEF new
<1>4. /\ remote_streams' \in [Keys -> [Remotes -> Gauge]]
      /\ remote_streams'[k][r] = new
      /\ OthersKept(k, r)
  BY <1>1, <1>2, <1>3 DEF OthersKept
<1>. QED
  BY <1>4 DEF new

\* The instruments show a record.
ShowsRemote(ri, gauge) ==
  /\ gauge.num_errors = ri.num_errors
  /\ gauge.streams_pending = ri.streams_pending
  /\ gauge.streams_open = ri.streams_open

Shows(ti, n, gauge) ==
  /\ n = ti.streams_open
  /\ \A r \in Members(ti) : ShowsRemote(Stats(ti, r), gauge[r])

LEMMA FollowsEntries ==
  GaugesFollowStats <=>
    \A k \in DOMAIN tunnels : Shows(tunnels[k], tunnel_streams[k], remote_streams[k])
BY DEF GaugesFollowStats, Shows, ShowsRemote, Stats

\* The instruments follow a call if they change as its effect is.
LEMMA FollowsCall ==
  ASSUME TunnelsOK, GaugesOK, GaugesFollowStats, NEW k \in DOMAIN tunnels,
         NEW ti, NEW n, NEW r, NEW ri, Effect(tunnels[k], ti, n, r, ri),
         tunnels' = [tunnels EXCEPT ![k] = ti],
         tunnel_streams' = [tunnel_streams EXCEPT ![k] = n], OthersKept(k, r),
         r \in Members(ti) => ShowsRemote(ri, remote_streams'[k][r]),
         Members(ti) \subseteq Remotes
  PROVE  GaugesFollowStats'
<1>1. DOMAIN tunnels \subseteq Keys /\ DOMAIN tunnels' = DOMAIN tunnels
  BY DEF TunnelsOK, IsMap
<1>2. Shows(ti, n, remote_streams'[k])
  <2>1. n = ti.streams_open
    BY DEF Effect
  <2>2. ASSUME NEW q \in Members(ti)
        PROVE  ShowsRemote(Stats(ti, q), remote_streams'[k][q])
    <3>1. CASE q = r
      BY <3>1 DEF Effect
    <3>2. CASE q # r
      <4>1. q \in Members(tunnels[k]) /\ Stats(ti, q) = Stats(tunnels[k], q)
        BY <3>2 DEF Effect
      <4>2. remote_streams'[k][q] = remote_streams[k][q]
        BY <1>1, <3>2 DEF OthersKept
      <4>3. ShowsRemote(Stats(tunnels[k], q), remote_streams[k][q])
        BY <4>1, FollowsEntries DEF Shows
      <4>. QED
        BY <4>1, <4>2, <4>3
    <3>. QED
      BY <3>1, <3>2
  <2>. QED
    BY <2>1, <2>2 DEF Shows
<1>3. ASSUME NEW j \in DOMAIN tunnels, j # k
      PROVE  Shows(tunnels[j], tunnel_streams'[j], remote_streams'[j])
  <2>1. Shows(tunnels[j], tunnel_streams[j], remote_streams[j])
    BY FollowsEntries
  <2>2. Members(tunnels[j]) \subseteq Remotes /\ j \in Keys
    BY <1>1 DEF TunnelsOK, IsInfo, Members
  <2>3. tunnel_streams'[j] = tunnel_streams[j]
    BY <1>3, <2>2 DEF GaugesOK
  <2>4. \A q \in Members(tunnels[j]) : remote_streams'[j][q] = remote_streams[j][q]
    BY <1>3, <2>2 DEF OthersKept
  <2>. QED
    BY <2>1, <2>3, <2>4 DEF Shows
<1>4. /\ tunnels'[k] = ti
      /\ \A j \in DOMAIN tunnels : j # k => tunnels'[j] = tunnels[j]
      /\ tunnel_streams'[k] = n
  BY <1>1 DEF GaugesOK
<1>5. \A j \in DOMAIN tunnels' :
        Shows(tunnels'[j], tunnel_streams'[j], remote_streams'[j])
  BY <1>1, <1>2, <1>3, <1>4
<1>. QED
  BY <1>5 DEF GaugesFollowStats, Shows, ShowsRemote, Stats

\* The record ri is st with the additions made to it.
Added(ri, st, o, p, e) ==
  /\ ri.streams_open = Wrapped(st.streams_open + o)
  /\ ri.streams_pending = Wrapped(st.streams_pending + p)
  /\ ri.num_errors = st.num_errors + e

\* The same with the additions of a call to the instruments of a remote.
LEMMA FollowsAddition ==
  ASSUME TunnelsOK, TunnelsOK', GaugesOK, GaugesFollowStats,
         NEW k \in DOMAIN tunnels, NEW ti, tunnels' = [tunnels EXCEPT ![k] = ti],
         NEW n, tunnel_streams' = [tunnel_streams EXCEPT ![k] = n],
         NEW r \in Members(tunnels[k]), NEW ri, Effect(tunnels[k], ti, n, r, ri),
         NEW o \in Int, NEW p \in Int, NEW e \in Int,
         AddRemoteStreams(k, r, o, p, e),
         Added(ri, Stats(tunnels[k], r), o, p, e)
  PROVE  GaugesFollowStats' /\ GaugesOK'
<1>1. k \in Keys /\ r \in Remotes
  BY DEF TunnelsOK, IsMap, IsInfo, Members
<1>2. tunnels'[k] = ti /\ k \in DOMAIN tunnels'
  OBVIOUS
<1>3. /\ Members(ti) \subseteq Remotes
      /\ ti.streams_open \in Word
  BY <1>2 DEF TunnelsOK, IsInfo, Info, Members
<1>. DEFINE old == remote_streams[k][r]
            new == [streams_open    |-> Wrapped(old.streams_open + o),
                    streams_pending |-> Wrapped(old.streams_pending + p),
                    num_errors      |-> old.num_errors + e]
<1>4. /\ remote_streams' \in [Keys -> [Remotes -> Gauge]]
      /\ remote_streams'[k][r] = new
      /\ OthersKept(k, r)
  BY <1>1, AddedRemote
<1>5. ShowsRemote(Stats(tunnels[k], r), old)
  BY FollowsEntries DEF Shows
<1>6. ShowsRemote(ri, new)
  BY <1>5 DEF ShowsRemote, Added
<1>. HIDE DEF old, new
<1>7. GaugesFollowStats'
  <2>1. r \in Members(ti) => ShowsRemote(ri, remote_streams'[k][r])
    BY <1>4, <1>6
  <2>2. OthersKept(k, r)
    BY <1>4
  <2>3. Members(ti) \subseteq Remotes
    BY <1>3
  <2>. QED
    BY <2>1, <2>2, <2>3, FollowsCall, Zenon
<1>8. n \in Word
  BY <1>3 DEF Effect
<1>. QED
  BY <1>4, <1>7, <1>8 DEF GaugesOK

\* The same for a call that leaves the statistics of remotes alone.
LEMMA FollowsTunnelCount ==
  ASSUME TunnelsOK, TunnelsOK', GaugesOK, GaugesFollowStats,
         NEW k \in DOMAIN tunnels, NEW ti, tunnels' = [tunnels EXCEPT ![k] = ti],
         NEW n, tunnel_streams' = [tunnel_streams EXCEPT ![k] = n],
         NEW r, Effect(tunnels[k], ti, n, r, Stats(tunnels[k], r)),
         Members(ti) \subseteq Members(tunnels[k]),
         UNCHANGED remote_streams
  PROVE  GaugesFollowStats' /\ GaugesOK'
<1>1. tunnels'[k] = ti /\ k \in DOMAIN tunnels'
  OBVIOUS
<1>2. /\ Members(ti) \subseteq Remotes
      /\ ti.streams_open \in Word
  BY <1>1 DEF TunnelsOK, IsInfo, Info, Members
<1>3. r \in Members(ti) => ShowsRemote(Stats(tunnels[k], r), remote_streams[k][r])
  BY FollowsEntries DEF Shows
<1>4. GaugesFollowStats'
  <2>1. OthersKept(k, r)
    BY DEF OthersKept
  <2>. QED
    BY <1>2, <1>3, <2>1, FollowsCall
<1>5. n \in Word
  BY <1>2 DEF Effect
<1>. QED
  BY <1>4, <1>5 DEF GaugesOK

\* Nothing to follow.
LEMMA FollowsNothing ==
  ASSUME GaugesOK, GaugesFollowStats, UNCHANGED <<tunnels, gauges>>
  PROVE  GaugesFollowStats' /\ GaugesOK'
BY DEF GaugesOK, GaugesFollowStats, gauges

\* The tunnel's instrument has the value of its counter.
LEMMA CountShown ==
  ASSUME TunnelsOK, GaugesOK, GaugesFollowStats, NEW k \in DOMAIN tunnels
  PROVE  /\ tunnel_streams[k] = tunnels[k].streams_open
         /\ tunnels[k].streams_open \in Word
         /\ tunnel_streams = [tunnel_streams EXCEPT ![k] = tunnels[k].streams_open]
<1>1. tunnel_streams[k] = tunnels[k].streams_open
  BY DEF GaugesFollowStats
<1>2. tunnels[k].streams_open \in Word
  BY DEF TunnelsOK, IsInfo, Info
<1>. QED
  BY <1>1, <1>2 DEF GaugesOK

\* What RemoteInfo's methods do is what their additions do.
LEMMA AdditionsOfCalls ==
  ASSUME ~ OverflowChecks, NEW ri \in RemoteInfo
  PROVE  LET errors == ri.num_errors
         IN /\ Added(new_pending_stream(ri), ri, 0, 1, 0)
            /\ Added(remote_connected(ri), ri, 1, -1, - errors)
            /\ Added(error(ri), ri, 0, -1, ErrorAdded(ri))
            /\ Added(remote_disconnected(ri), ri, -1, 0, 0)
            /\ Added(check_error(ri), ri, 0, 0, ErrorAdded(ri))
            /\ Added(remote_recovered(ri), ri, 0, 0, - errors)
            /\ errors \in Int
            /\ ErrorAdded(ri) \in Int
<1>. DEFINE open == ri.streams_open
            pending == ri.streams_pending
            errors == ri.num_errors
<1>1. open \in Word /\ pending \in Word /\ errors \in Int
  BY DEF RemoteInfo, ErrorCount
<1>2. /\ open = Wrapped(open + 0)
      /\ Inc(open) = Wrapped(open + 1)
      /\ Dec(open) = Wrapped(open + (-1))
      /\ pending = Wrapped(pending + 0)
      /\ Inc(pending) = Wrapped(pending + 1)
      /\ Dec(pending) = Wrapped(pending + (-1))
  BY <1>1, WrappedFacts
<1>3. /\ errors = errors + 0
      /\ 0 = errors + (- errors)
      /\ ErrorAdded(ri) \in Int
      /\ SaturatedInc(errors) = errors + ErrorAdded(ri)
  BY <1>1 DEF ErrorAdded, SaturatedInc
<1>4. ~ Panics(pending)
  BY DEF Panics
<1>5. /\ new_pending_stream(ri).streams_open = open
      /\ new_pending_stream(ri).streams_pending = Inc(pending)
      /\ new_pending_stream(ri).num_errors = errors
  BY DEF new_pending_stream, RemoteInfo
<1>6. /\ remote_connected(ri).streams_open = Inc(open)
      /\ remote_connected(ri).streams_pending = Dec(pending)
      /\ remote_connected(ri).num_errors = 0
  BY <1>4 DEF remote_connected
<1>7. /\ error(ri).streams_open = open
      /\ error(ri).streams_pending = Dec(pending)
      /\ error(ri).num_errors = SaturatedInc(errors)
  BY DEF error, RemoteInfo
<1>8. /\ remote_disconnected(ri).streams_open = Dec(open)
      /\ remote_disconnected(ri).streams_pending = pending
      /\ remote_disconnected(ri).num_errors = errors
  BY DEF remote_disconnected, RemoteInfo
<1>9. /\ check_error(ri).streams_open = open
      /\ check_error(ri).streams_pending = pending
      /\ check_error(ri).num_errors = SaturatedInc(errors)
  BY DEF check_error, RemoteInfo
<1>10. /\ remote_recovered(ri).streams_open = open
       /\ remote_recovered(ri).streams_pending = pending
       /\ remote_recovered(ri).num_errors = 0
  BY DEF remote_recovered, RemoteInfo
<1>. QED
  BY <1>1, <1>2, <1>3, <1>5, <1>6, <1>7, <1>8, <1>9, <1>10 DEF Added

\* A metered step is a step of the proxy.
LEMMA MeteredIsNext ==
  ASSUME [MeteredNext]_meteredVars
  PROVE  [Next]_vars
BY DEF MeteredNext, meteredVars, Unmetered, CountClientConnected,
   CountSelectRemote, CountRemoteConnected, CountRemoteError,
   CountClientDisconnected, Transfer, CountCheck, Next, ConnStep, ConnTask,
   CheckStep, CheckTask, AdminStep, ListenerStep

\* The instruments follow the calls of a connection's task.
LEMMA ConnGauges ==
  ASSUME ~ OverflowChecks, TypeInv, TunnelsOK', LiveDeadDisjoint,
         GaugesOK, GaugesFollowStats, NEW c \in Conns,
         \/ CountClientConnected(c)
         \/ CountSelectRemote(c)
         \/ CountRemoteConnected(c)
         \/ CountRemoteError(c)
         \/ CountClientDisconnected(c)
  PROVE  GaugesFollowStats' /\ GaugesOK'
<1>. DEFINE Goal == GaugesFollowStats' /\ GaugesOK'
<1>0. TunnelsOK /\ tunnels = [j \in DOMAIN tunnels |-> tunnels[j]]
  BY TypeInvParts DEF TunnelsOK, IsMap
<1>1. PICK k, r : k = conns[c].key /\ r = conns[c].remote
  OBVIOUS
<1>2. \A n : ~ Panics(n)
  BY DEF Panics
<1>3. ASSUME k \in DOMAIN tunnels
      PROVE  /\ IsInfo(tunnels[k])
             /\ DOMAIN tunnels[k].remotes \cap DOMAIN tunnels[k].dead_remotes = {}
             /\ DOMAIN tunnels[k].remotes \subseteq Members(tunnels[k])
             /\ \A q \in DOMAIN tunnels[k].remotes :
                  /\ Stats(tunnels[k], q) = tunnels[k].remotes[q]
                  /\ tunnels[k].remotes[q] \in RemoteInfo
  <2>1. IsInfo(tunnels[k])
    BY <1>0, <1>3 DEF TunnelsOK
  <2>2. \A q \in DOMAIN tunnels[k].remotes : tunnels[k].remotes[q] \in RemoteInfo
    BY <2>1 DEF IsInfo, Info
  <2>. QED
    BY <1>3, <2>1, <2>2 DEF LiveDeadDisjoint, Members, Stats
\* An addition for a remote in rotation.
<1>4. ASSUME k \in DOMAIN tunnels, NEW q \in DOMAIN tunnels[k].remotes, NEW ti,
             NEW n, NEW ri, Effect(tunnels[k], ti, n, q, ri),
             tunnels' = [tunnels EXCEPT ![k] = ti],
             tunnel_streams' = [tunnel_streams EXCEPT ![k] = n],
             NEW o \in Int, NEW p \in Int, NEW e \in Int,
             AddRemoteStreams(k, q, o, p, e),
             Added(ri, tunnels[k].remotes[q], o, p, e)
      PROVE  Goal
  <2>1. Stats(tunnels[k], q) = tunnels[k].remotes[q] /\ q \in Members(tunnels[k])
    BY <1>3, <1>4
  <2>2. Added(ri, Stats(tunnels[k], q), o, p, e)
    BY <1>4, <2>1
  <2>. QED
    BY <1>0, <1>4, <2>1, <2>2, FollowsAddition, Zenon
<1>5. CASE CountClientConnected(c)
  <2>1. CASE k \notin DOMAIN tunnels
    BY <1>1, <1>5, <2>1, FollowsNothing
       DEF CountClientConnected, ClientConnected, IsOpen, gauges
  <2>2. CASE k \in DOMAIN tunnels
    <3>. DEFINE n == Inc(tunnels[k].streams_open)
                ti == client_connected(tunnels[k])
    <3>1. tunnels' = [tunnels EXCEPT ![k] = ti]
      BY <1>1, <1>5, <2>2 DEF CountClientConnected, ClientConnected, IsOpen
    <3>2. /\ tunnel_streams' = [tunnel_streams EXCEPT ![k] = Wrapped(tunnel_streams[k] + 1)]
          /\ UNCHANGED remote_streams
      BY <1>1, <1>5, <2>2 DEF CountClientConnected, AddTunnelStreams, IsOpen
    <3>3. Wrapped(tunnel_streams[k] + 1) = n
      BY <1>0, <2>2, CountShown, WrappedFacts
    <3>4. Effect(tunnels[k], ti, n, r, Stats(tunnels[k], r))
      BY <1>3, <2>2, CountingEffects
    <3>5. Members(ti) \subseteq Members(tunnels[k])
      BY <1>3, <2>2 DEF client_connected, Members, IsInfo, Info
    <3>. HIDE DEF n, ti
    <3>. QED
      BY <1>0, <2>2, <3>1, <3>2, <3>3, <3>4, <3>5, FollowsTunnelCount
  <2>. QED
    BY <2>1, <2>2
<1>6. CASE CountSelectRemote(c)
  <2>1. PICK q \in DOMAIN tunnels[k].remotes :
          /\ k \in DOMAIN tunnels
          /\ tunnels' = [tunnels EXCEPT ![k] = select(tunnels[k], q)]
    BY <1>1, <1>6 DEF CountSelectRemote, SelectRemote, IsOpen, Update
  <2>2. PICK s \in DOMAIN tunnels[k].remotes :
          /\ tunnels'[k].remotes[s] # tunnels[k].remotes[s]
          /\ AddRemoteStreams(k, s, 0, 1, 0)
          /\ UNCHANGED tunnel_streams
    BY <1>1, <1>6 DEF CountSelectRemote
  <2>3. s = q
    <3>1. tunnels'[k].remotes[s] =
            IF q = s THEN new_pending_stream(tunnels[k].remotes[s])
            ELSE tunnels[k].remotes[s]
      BY <1>3, <2>1, RecordAfterCall
    <3>. QED
      BY <2>2, <3>1
  <2>. DEFINE n == tunnels[k].streams_open
              ti == select(tunnels[k], q)
              old == tunnels[k].remotes[q]
              ri == new_pending_stream(old)
  <2>4. Effect(tunnels[k], ti, n, q, ri)
    BY <1>3, <2>1, CountingEffects
  <2>5. Added(ri, old, 0, 1, 0)
    BY <1>3, <2>1, AdditionsOfCalls
  <2>6. tunnel_streams' = [tunnel_streams EXCEPT ![k] = n]
    BY <1>0, <2>1, <2>2, CountShown
  <2>7. tunnels' = [tunnels EXCEPT ![k] = ti] /\ AddRemoteStreams(k, q, 0, 1, 0)
    BY <2>1, <2>2, <2>3
  <2>8. 0 \in Int /\ 1 \in Int
    OBVIOUS
  <2>. HIDE DEF n, ti, ri
  <2>. QED
    BY <1>4, <2>1, <2>4, <2>5, <2>6, <2>7, <2>8, Zenon DEF old
<1>7. CASE CountRemoteConnected(c)
  <2>1. CASE ~ (k \in DOMAIN tunnels /\ r \in DOMAIN tunnels[k].remotes)
    <3>1. tunnels' \in {tunnels, [tunnels EXCEPT ![k] = tunnels[k]]}
      BY <1>1, <1>7, <2>1 DEF CountRemoteConnected, RemoteConnected, connected, IsOpen
    <3>2. UNCHANGED gauges
      BY <1>1, <1>7, <2>1 DEF CountRemoteConnected, InRotation, IsOpen, gauges
    <3>3. tunnels' = tunnels
      BY <1>0, <3>1
    <3>. QED
      BY <3>2, <3>3, FollowsNothing
  <2>2. CASE k \in DOMAIN tunnels /\ r \in DOMAIN tunnels[k].remotes
    <3>. DEFINE n == tunnels[k].streams_open
                ti == connected(tunnels[k], r)
                old == tunnels[k].remotes[r]
                ri == remote_connected(old)
    <3>1. tunnels' = [tunnels EXCEPT ![k] = ti]
      BY <1>1, <1>7, <2>2 DEF CountRemoteConnected, RemoteConnected, IsOpen
    <3>2. /\ AddRemoteStreams(k, r, 1, -1, - old.num_errors)
          /\ UNCHANGED tunnel_streams
      BY <1>1, <1>7, <2>2 DEF CountRemoteConnected, InRotation, IsOpen
    <3>3. Effect(tunnels[k], ti, n, r, ri)
      BY <1>3, <2>2, CountingEffects
    <3>4. Added(ri, old, 1, -1, - old.num_errors) /\ old.num_errors \in Int
      BY <1>3, <2>2, AdditionsOfCalls
    <3>5. tunnel_streams' = [tunnel_streams EXCEPT ![k] = n]
      BY <1>0, <2>2, <3>2, CountShown
    <3>6. PICK e : e = - old.num_errors
      OBVIOUS
    <3>7. /\ 1 \in Int /\ -1 \in Int /\ e \in Int
          /\ Added(ri, old, 1, -1, e)
          /\ AddRemoteStreams(k, r, 1, -1, e)
      BY <3>2, <3>4, <3>6
    <3>. HIDE DEF n, ti, ri
    <3>. QED
      BY <1>4, <2>2, <3>1, <3>3, <3>5, <3>7, Zenon DEF old
  <2>. QED
    BY <2>1, <2>2
<1>8. CASE CountRemoteError(c)
  <2>1. CASE ~ (k \in DOMAIN tunnels /\ r \in DOMAIN tunnels[k].remotes)
    <3>1. tunnels' \in {tunnels, [tunnels EXCEPT ![k] = tunnels[k]]}
      BY <1>1, <1>8, <2>1 DEF CountRemoteError, RemoteError, RemoteDied,
         count_error, is_dead, IsOpen
    <3>2. UNCHANGED gauges
      BY <1>1, <1>8, <2>1 DEF CountRemoteError, InRotation, IsOpen, gauges
    <3>3. tunnels' = tunnels
      BY <1>0, <3>1
    <3>. QED
      BY <3>2, <3>3, FollowsNothing
  <2>2. CASE k \in DOMAIN tunnels /\ r \in DOMAIN tunnels[k].remotes
    <3>. DEFINE n == tunnels[k].streams_open
                old == tunnels[k].remotes[r]
                ri == error(old)
    <3>1. PICK ti : /\ tunnels' = [tunnels EXCEPT ![k] = ti]
                    /\ Effect(tunnels[k], ti, n, r, ri)
      <4>1. CASE RemoteError(c)
        <5>1. tunnels' = [tunnels EXCEPT ![k] = count_error(tunnels[k], r)]
          BY <1>1, <2>2, <4>1 DEF RemoteError, IsOpen
        <5>2. Effect(tunnels[k], count_error(tunnels[k], r), n, r, ri)
          BY <1>3, <2>2, CountingEffects
        <5>. HIDE DEF n, ri
        <5>. QED
          BY <5>1, <5>2
      <4>2. CASE RemoteDied(c)
        <5>1. PICK id : tunnels' = [tunnels EXCEPT ![k] = bury(tunnels[k], r, id)]
          BY <1>1, <4>2 DEF RemoteDied, Update
        <5>2. Effect(tunnels[k], bury(tunnels[k], r, id), n, r, ri)
          BY <1>3, <2>2, MoveEffects
        <5>. HIDE DEF n, ri
        <5>. QED
          BY <5>1, <5>2
      <4>. QED
        BY <1>8, <4>1, <4>2 DEF CountRemoteError
    <3>2. /\ AddRemoteStreams(k, r, 0, -1, ErrorAdded(old))
          /\ UNCHANGED tunnel_streams
      BY <1>1, <1>2, <1>8, <2>2 DEF CountRemoteError, InRotation, IsOpen
    <3>3. Added(ri, old, 0, -1, ErrorAdded(old)) /\ ErrorAdded(old) \in Int
      BY <1>3, <2>2, AdditionsOfCalls
    <3>4. tunnel_streams' = [tunnel_streams EXCEPT ![k] = n]
      BY <1>0, <2>2, <3>2, CountShown
    <3>5. 0 \in Int /\ -1 \in Int
      OBVIOUS
    <3>. HIDE DEF n, ri
    <3>. QED
      BY <1>4, <2>2, <3>1, <3>2, <3>3, <3>4, <3>5, Zenon DEF old
  <2>. QED
    BY <2>1, <2>2
<1>9. CASE CountClientDisconnected(c)
  <2>1. CASE k \notin DOMAIN tunnels
    <3>1. tunnels' = tunnels
      BY <1>1, <1>9, <2>1 DEF CountClientDisconnected, ClientDisconnected, IsOpen
    <3>2. UNCHANGED gauges
      BY <1>1, <1>9, <2>1 DEF CountClientDisconnected, InRotation, IsOpen, gauges
    <3>3. tunnels' = tunnels
      BY <1>0, <3>1
    <3>. QED
      BY <3>2, <3>3, FollowsNothing
  <2>2. CASE k \in DOMAIN tunnels
    <3>. DEFINE n == Dec(tunnels[k].streams_open)
                ti == client_disconnected(tunnels[k], r)
    <3>1. tunnels' = [tunnels EXCEPT ![k] = ti]
      BY <1>1, <1>9, <2>2 DEF CountClientDisconnected, ClientDisconnected, IsOpen
    <3>2. tunnel_streams' = [tunnel_streams EXCEPT ![k] = n]
      <4>1. tunnel_streams' =
              [tunnel_streams EXCEPT ![k] = Wrapped(tunnel_streams[k] - 1)]
        BY <1>1, <1>2, <1>9, <2>2 DEF CountClientDisconnected, IsOpen
      <4>2. Wrapped(tunnel_streams[k] - 1) = n
        BY <1>0, <2>2, CountShown, WrappedFacts
      <4>. QED
        BY <4>1, <4>2
    <3>3. CASE r \notin DOMAIN tunnels[k].remotes
      <4>1. UNCHANGED remote_streams
        BY <1>1, <1>9, <3>3 DEF CountClientDisconnected, InRotation
      <4>2. Effect(tunnels[k], ti, n, r, Stats(tunnels[k], r))
        BY <1>3, <2>2, <3>3, CountingEffects
      <4>3. Members(ti) \subseteq Members(tunnels[k])
        BY <1>3, <2>2, <3>3 DEF client_disconnected, Members, IsInfo, Info
      <4>. HIDE DEF n, ti
      <4>. QED
        BY <1>0, <2>2, <3>1, <3>2, <4>1, <4>2, <4>3, FollowsTunnelCount
    <3>4. CASE r \in DOMAIN tunnels[k].remotes
      <4>. DEFINE old == tunnels[k].remotes[r]
                  ri == remote_disconnected(old)
      <4>1. AddRemoteStreams(k, r, -1, 0, 0)
        BY <1>1, <1>2, <1>9, <2>2, <3>4
           DEF CountClientDisconnected, InRotation, IsOpen
      <4>2. Effect(tunnels[k], ti, n, r, ri)
        BY <1>2, <1>3, <2>2, <3>4, CountingEffects
      <4>3. Added(ri, old, -1, 0, 0)
        BY <1>3, <2>2, <3>4, AdditionsOfCalls
      <4>4. 0 \in Int /\ -1 \in Int
        OBVIOUS
      <4>. HIDE DEF n, ti, ri
      <4>. QED
        BY <1>4, <2>2, <3>1, <3>2, <3>4, <4>1, <4>2, <4>3, <4>4, Zenon DEF old
    <3>. QED
      BY <3>3, <3>4
  <2>. QED
    BY <2>1, <2>2
<1>. QED
  BY <1>5, <1>6, <1>7, <1>8, <1>9

\* The instruments follow a check.
LEMMA CheckGauges ==
  ASSUME ~ OverflowChecks, TypeInv, TunnelsOK', LiveDeadDisjoint,
         GaugesOK, GaugesFollowStats, NEW id \in CheckIds, CountCheck(id)
  PROVE  GaugesFollowStats' /\ GaugesOK'
<1>. DEFINE Goal == GaugesFollowStats' /\ GaugesOK'
<1>0. TunnelsOK
  BY TypeInvParts
<1>1. PICK k, r : k = checks[id].key /\ r = checks[id].remote
  OBVIOUS
<1>2. CASE ~ IsDead(k, r)
  <2>1. UNCHANGED <<tunnels, gauges>>
    BY <1>1, <1>2 DEF CountCheck, Revive, CheckAgain, gauges
  <2>. QED
    BY <2>1, FollowsNothing
<1>3. CASE IsDead(k, r)
  <2>. DEFINE n == tunnels[k].streams_open
              d == tunnels[k].dead_remotes[r].remote
  <2>1. /\ k \in DOMAIN tunnels
        /\ r \in DOMAIN tunnels[k].dead_remotes
        /\ IsInfo(tunnels[k])
        /\ DOMAIN tunnels[k].remotes \cap DOMAIN tunnels[k].dead_remotes = {}
    BY <1>0, <1>3 DEF IsDead, IsOpen, TunnelsOK, LiveDeadDisjoint
  <2>2. /\ d \in RemoteInfo
        /\ r \in Members(tunnels[k])
        /\ Stats(tunnels[k], r) = d
    BY <2>1 DEF IsInfo, Info, DeadRemote, Members, Stats
  <2>3. \E ti, ri, e : /\ tunnels' = [tunnels EXCEPT ![k] = ti]
                       /\ Effect(tunnels[k], ti, n, r, ri)
                       /\ Added(ri, d, 0, 0, e)
                       /\ e \in Int
                       /\ AddRemoteStreams(k, r, 0, 0, e)
    <3>1. CASE Revive(id)
      <4>. DEFINE e == - d.num_errors
      <4>1. /\ tunnels' = [tunnels EXCEPT ![k] = recover(tunnels[k], r)]
            /\ AddRemoteStreams(k, r, 0, 0, e)
        BY <1>1, <1>3, <3>1 DEF Revive, CountCheck
      <4>2. Effect(tunnels[k], recover(tunnels[k], r), n, r, remote_recovered(d))
        BY <2>1, MoveEffects
      <4>3. Added(remote_recovered(d), d, 0, 0, e) /\ e \in Int
        BY <2>2, AdditionsOfCalls
      <4>. HIDE DEF n, d, e
      <4>. QED
        BY <4>1, <4>2, <4>3
    <3>2. CASE CheckAgain(id)
      <4>1. PICK next : tunnels' = [tunnels EXCEPT ![k] = recheck(tunnels[k], r, next)]
        BY <1>1, <1>3, <3>2 DEF CheckAgain, Update
      <4>2. AddRemoteStreams(k, r, 0, 0, ErrorAdded(d))
        BY <1>1, <1>3, <3>2 DEF CheckAgain, CountCheck
      <4>3. Effect(tunnels[k], recheck(tunnels[k], r, next), n, r, check_error(d))
        BY <2>1, MoveEffects
      <4>4. Added(check_error(d), d, 0, 0, ErrorAdded(d)) /\ ErrorAdded(d) \in Int
        BY <2>2, AdditionsOfCalls
      <4>. HIDE DEF n, d
      <4>. QED
        BY <4>1, <4>2, <4>3, <4>4
    <3>. QED
      BY <3>1, <3>2 DEF CountCheck
  <2>4. tunnel_streams' = [tunnel_streams EXCEPT ![k] = n]
    BY <1>0, <2>1, CountShown DEF CountCheck
  <2>5. 0 \in Int
    OBVIOUS
  <2>. HIDE DEF n, d
  <2>6. PICK ti, ri, e : /\ tunnels' = [tunnels EXCEPT ![k] = ti]
                         /\ Effect(tunnels[k], ti, n, r, ri)
                         /\ Added(ri, d, 0, 0, e)
                         /\ e \in Int
                         /\ AddRemoteStreams(k, r, 0, 0, e)
    BY <2>3
  <2>7. Added(ri, Stats(tunnels[k], r), 0, 0, e)
    BY <2>2, <2>6
  <2>. QED
    BY <1>0, <2>1, <2>2, <2>4, <2>5, <2>6, <2>7, FollowsAddition, Zenon
<1>. QED
  BY <1>2, <1>3

\* What a command makes is shown as zero: no series of its key and remote goes
\* on from before.
StartsAtZero ==
  \A k \in DOMAIN tunnels' :
    /\ k \notin DOMAIN tunnels => tunnel_streams[k] = 0
    /\ \A r \in Members(tunnels'[k]) :
         (k \in DOMAIN tunnels => r \notin Members(tunnels[k])) =>
           remote_streams[k][r] = ZeroRemote

\* Then the instruments follow the administrator's commands.
LEMMA AdminGauges ==
  ASSUME TypeInv, TunnelsOK', LiveDeadDisjoint, GaugesOK, GaugesFollowStats,
         AdminStep, UNCHANGED gauges, StartsAtZero
  PROVE  GaugesFollowStats' /\ GaugesOK'
<1>. DEFINE Goal == GaugesFollowStats'
<1>0. TunnelsOK /\ GaugesOK' /\ UNCHANGED <<tunnel_streams, remote_streams>>
  BY TypeInvParts DEF GaugesOK, gauges
\* A tunnel that was not there, or is what it was.
<1>1. ASSUME \A k \in DOMAIN tunnels' :
               Shows(tunnels'[k], tunnel_streams[k], remote_streams[k])
      PROVE  Goal
  BY <1>0, <1>1 DEF GaugesFollowStats, Shows, ShowsRemote, Stats
<1>2. ASSUME NEW k \in Keys, NEW remotes, NEW options,
             OpenTunnel(k, remotes, options)
      PROVE  Goal
  <2>1. /\ k \notin DOMAIN tunnels
        /\ tunnels' = Put(tunnels, k, NewTunnelInfo(opened + 1, remotes, options))
    BY <1>2 DEF OpenTunnel, IsOpen
  <2>2. /\ k \in DOMAIN tunnels'
        /\ tunnels'[k] = NewTunnelInfo(opened + 1, remotes, options)
        /\ \A j \in DOMAIN tunnels' : j # k =>
             j \in DOMAIN tunnels /\ tunnels'[j] = tunnels[j]
    BY <2>1 DEF Put
  <2>3. Shows(tunnels'[k], tunnel_streams[k], remote_streams[k])
    <3>1. /\ tunnels'[k].streams_open = 0
          /\ \A r \in Members(tunnels'[k]) : Stats(tunnels'[k], r) = NewRemoteInfo
      BY <2>2 DEF NewTunnelInfo, Members, Stats
    <3>2. /\ tunnel_streams[k] = 0
          /\ \A r \in Members(tunnels'[k]) : remote_streams[k][r] = ZeroRemote
      BY <2>1, <2>2 DEF StartsAtZero
    <3>. QED
      BY <3>1, <3>2 DEF Shows, ShowsRemote, NewRemoteInfo, ZeroRemote
  <2>4. \A j \in DOMAIN tunnels :
          Shows(tunnels[j], tunnel_streams[j], remote_streams[j])
    BY FollowsEntries
  <2>. QED
    BY <1>1, <2>2, <2>3, <2>4
<1>3. ASSUME NEW k \in Keys, CloseTunnel(k) PROVE Goal
  <2>1. \A j \in DOMAIN tunnels' : j \in DOMAIN tunnels /\ tunnels'[j] = tunnels[j]
    BY <1>3 DEF CloseTunnel, Drop
  <2>2. \A j \in DOMAIN tunnels :
          Shows(tunnels[j], tunnel_streams[j], remote_streams[j])
    BY FollowsEntries
  <2>. QED
    BY <1>1, <2>1, <2>2
\* A remote is added or removed.
<1>4. ASSUME NEW k \in DOMAIN tunnels, NEW r, NEW ti,
             tunnels' = [tunnels EXCEPT ![k] = ti],
             Effect(tunnels[k], ti, tunnels[k].streams_open, r, NewRemoteInfo),
             r \in Members(ti) => remote_streams[k][r] = ZeroRemote
      PROVE  Goal
  <2>1. tunnel_streams' = [tunnel_streams EXCEPT ![k] = tunnels[k].streams_open]
    BY <1>0, CountShown
  <2>2. OthersKept(k, r)
    BY <1>0 DEF OthersKept
  <2>3. r \in Members(ti) => ShowsRemote(NewRemoteInfo, remote_streams'[k][r])
    BY <1>0, <1>4 DEF ShowsRemote, NewRemoteInfo, ZeroRemote
  <2>4. k \in DOMAIN tunnels' /\ tunnels'[k] = ti
    BY <1>4
  <2>5. Members(ti) \subseteq Remotes
    BY <2>4 DEF TunnelsOK, IsInfo, Members
  <2>. QED
    BY <1>0, <1>4, <2>1, <2>2, <2>3, <2>5, FollowsCall, Zenon
<1>5. ASSUME NEW k \in DOMAIN tunnels
      PROVE  /\ IsInfo(tunnels[k])
             /\ DOMAIN tunnels[k].remotes \cap DOMAIN tunnels[k].dead_remotes = {}
  BY <1>0 DEF TunnelsOK, LiveDeadDisjoint
<1>6. ASSUME NEW k \in Keys, NEW r, AddRemote(k, r) PROVE Goal
  <2>1. /\ k \in DOMAIN tunnels
        /\ r \notin Members(tunnels[k])
        /\ tunnels' = [tunnels EXCEPT ![k] = add_remote(tunnels[k], r)]
    BY <1>6 DEF AddRemote, IsOpen, may_add, Members, Update
  <2>2. Effect(tunnels[k], add_remote(tunnels[k], r), tunnels[k].streams_open, r,
               NewRemoteInfo)
    BY <1>5, <2>1, MoveEffects DEF Members
  <2>3. r \in Members(add_remote(tunnels[k], r)) => remote_streams[k][r] = ZeroRemote
    BY <2>1 DEF StartsAtZero
  <2>. QED
    BY <1>4, <2>1, <2>2, <2>3
<1>7. ASSUME NEW k \in Keys, NEW r, RemoveRemote(k, r) PROVE Goal
  <2>1. /\ k \in DOMAIN tunnels
        /\ tunnels' = [tunnels EXCEPT ![k] = remove_remote(tunnels[k], r)]
    BY <1>7 DEF RemoveRemote, IsOpen, Update
  <2>2. Effect(tunnels[k], remove_remote(tunnels[k], r), tunnels[k].streams_open,
               r, NewRemoteInfo)
    BY <1>5, <2>1, MoveEffects
  <2>3. r \notin Members(remove_remote(tunnels[k], r))
    BY <1>5, <2>1 DEF remove_remote, Drop, Members, IsInfo, Info
  <2>. QED
    BY <1>4, <2>1, <2>2, <2>3
<1>. QED
  BY <1>0, <1>2, <1>3, <1>6, <1>7 DEF AdminStep

\* A metered step keeps the instruments showing the records.
LEMMA GaugesStep ==
  ASSUME ~ OverflowChecks, TypeInv, LiveDeadDisjoint, GaugesOK, GaugesFollowStats,
         [MeteredNext]_meteredVars, [StartsAtZero]_meteredVars
  PROVE  GaugesFollowStats' /\ GaugesOK'
<1>. DEFINE Goal == GaugesFollowStats' /\ GaugesOK'
<1>1. TunnelsOK'
  BY MeteredIsNext, TunnelsType
<1>2. CASE UNCHANGED <<tunnels, gauges>>
  BY <1>2, FollowsNothing
<1>3. CASE AdminStep /\ UNCHANGED gauges
  <2>1. CASE StartsAtZero
    BY <1>1, <1>3, <2>1, AdminGauges
  <2>2. CASE UNCHANGED meteredVars
    BY <1>2, <2>2 DEF meteredVars, vars
  <2>. QED
    BY <2>1, <2>2
<1>4. CASE Unmetered
  <2>1. AdminStep \/ UNCHANGED tunnels
    BY <1>4 DEF Unmetered, ListenerStep, Accept, StopListening, ReadRetries, GiveUp,
       CopyDone, CopyFinished, ProbeAnswered, ProbeFailed
  <2>2. UNCHANGED gauges
    BY <1>4 DEF Unmetered
  <2>. QED
    BY <1>2, <1>3, <2>1, <2>2
<1>5. ASSUME NEW c \in Conns,
             \/ CountClientConnected(c)
             \/ CountSelectRemote(c)
             \/ CountRemoteConnected(c)
             \/ CountRemoteError(c)
             \/ CountClientDisconnected(c)
      PROVE  Goal
  BY <1>1, <1>5, ConnGauges
<1>6. ASSUME NEW c \in Conns, NEW direction, Transfer(c, direction)
      PROVE  Goal
  BY <1>2, <1>6 DEF Transfer, vars
<1>7. ASSUME NEW id \in CheckIds, CountCheck(id) PROVE Goal
  BY <1>1, <1>7, CheckGauges
<1>8. CASE UNCHANGED meteredVars
  BY <1>2, <1>8 DEF meteredVars, vars
<1>. QED
  BY <1>4, <1>5, <1>6, <1>7, <1>8 DEF MeteredNext

LEMMA MeteredInitType ==
  MeteredInit => /\ TypeInv
                 /\ LiveDeadDisjoint
                 /\ GaugesOK
                 /\ GaugesFollowStats
<1>. SUFFICES ASSUME MeteredInit
              PROVE  TypeInv /\ LiveDeadDisjoint /\ GaugesOK /\ GaugesFollowStats
  OBVIOUS
<1>1. TypeInv
  BY InitType DEF MeteredInit
<1>2. LiveDeadDisjoint /\ GaugesFollowStats
  BY DEF MeteredInit, Init, LiveDeadDisjoint, GaugesFollowStats
<1>3. 0 \in Word
  BY WordSizeAssumption DEF Word
<1>4. ZeroRemote \in Gauge
  BY <1>3 DEF ZeroRemote, Gauge
<1>5. GaugesOK
  BY <1>3, <1>4 DEF MeteredInit, GaugesOK
<1>. QED
  BY <1>1, <1>2, <1>5

LEMMA MeteredTypeStep ==
  TypeInv /\ LiveDeadDisjoint /\ [MeteredNext]_meteredVars
    => TypeInv' /\ LiveDeadDisjoint'
BY MeteredIsNext, TypeInvStep, DisjointStep

\* While a tunnel is open its instruments show its records, in a build whose
\* counters wrap, if what a command makes is shown as zero.
THEOREM InstrumentsShowRecords ==
  ASSUME ~ OverflowChecks
  PROVE  MeteredSpec /\ [][StartsAtZero]_meteredVars => []GaugesFollowStats
<1>1. TypeInv /\ LiveDeadDisjoint /\ GaugesOK /\ GaugesFollowStats
        /\ [MeteredNext]_meteredVars /\ [StartsAtZero]_meteredVars
        => GaugesFollowStats' /\ GaugesOK'
  BY GaugesStep
<1>. QED
  <2>. DEFINE H == StartsAtZero
  <2>. HIDE DEF H
  <2>1. TypeInv /\ LiveDeadDisjoint /\ GaugesOK /\ GaugesFollowStats
          /\ [MeteredNext]_meteredVars /\ [H]_meteredVars
          => GaugesFollowStats' /\ GaugesOK'
    BY <1>1 DEF H
  <2>2. MeteredSpec /\ [][H]_meteredVars => []GaugesFollowStats
    BY <2>1, MeteredInitType, MeteredTypeStep, PTL DEF MeteredSpec
  <2>. QED
    BY <2>2 DEF H

\* Only the instruments of open tunnels and of their remotes move.
LEMMA GaugesMoveOnly ==
  ASSUME TypeInv, GaugesOK, [MeteredNext]_meteredVars
  PROVE  /\ \A k \in Keys : tunnel_streams'[k] # tunnel_streams[k] =>
              k \in DOMAIN tunnels
         /\ \A k \in Keys, r \in Remotes :
              remote_streams'[k][r] # remote_streams[k][r] =>
                k \in DOMAIN tunnels /\ r \in Members(tunnels[k])
<1>. DEFINE Goal ==
              /\ \A k \in Keys : tunnel_streams'[k] # tunnel_streams[k] =>
                   k \in DOMAIN tunnels
              /\ \A k \in Keys, r \in Remotes :
                   remote_streams'[k][r] # remote_streams[k][r] =>
                     k \in DOMAIN tunnels /\ r \in Members(tunnels[k])
<1>1. CASE UNCHANGED gauges
  BY <1>1 DEF gauges
\* An addition for a remote of a tunnel.
<1>2. ASSUME NEW k \in DOMAIN tunnels, NEW r \in Members(tunnels[k]),
             NEW o, NEW p, NEW e, AddRemoteStreams(k, r, o, p, e),
             \A j \in Keys : j # k => tunnel_streams'[j] = tunnel_streams[j]
      PROVE  Goal
  BY <1>2 DEF GaugesOK, AddRemoteStreams
<1>3. ASSUME NEW k \in DOMAIN tunnels, NEW n,
             tunnel_streams' = [tunnel_streams EXCEPT ![k] = n],
             UNCHANGED remote_streams
      PROVE  Goal
  BY <1>3 DEF GaugesOK
<1>4. ASSUME NEW c \in Conns, CountClientConnected(c) PROVE Goal
  BY <1>1, <1>3, <1>4 DEF CountClientConnected, AddTunnelStreams, IsOpen
<1>5. ASSUME NEW c \in Conns, CountSelectRemote(c) PROVE Goal
  <2>1. PICK k : k = conns[c].key
    OBVIOUS
  <2>2. k \in DOMAIN tunnels /\ UNCHANGED tunnel_streams
    BY <1>5, <2>1 DEF CountSelectRemote, SelectRemote, IsOpen
  <2>3. PICK r \in DOMAIN tunnels[k].remotes : AddRemoteStreams(k, r, 0, 1, 0)
    BY <1>5, <2>1 DEF CountSelectRemote
  <2>. QED
    BY <1>2, <2>2, <2>3, Zenon DEF Members
<1>6. ASSUME NEW k, NEW r, InRotation(k, r)
      PROVE  k \in DOMAIN tunnels /\ r \in Members(tunnels[k])
  BY <1>6 DEF InRotation, IsOpen, Members
<1>7. ASSUME NEW c \in Conns,
             \/ CountRemoteConnected(c)
             \/ CountRemoteError(c)
             \/ CountClientDisconnected(c)
      PROVE  Goal
  <2>1. PICK k, r : k = conns[c].key /\ r = conns[c].remote
    OBVIOUS
  <2>2. \/ UNCHANGED remote_streams
        \/ InRotation(k, r) /\ \E o, p, e : AddRemoteStreams(k, r, o, p, e)
    BY <1>7, <2>1 DEF CountRemoteConnected, CountRemoteError,
       CountClientDisconnected
  <2>3. \/ UNCHANGED tunnel_streams
        \/ k \in DOMAIN tunnels
             /\ tunnel_streams' = [tunnel_streams EXCEPT ![k] = Wrapped(tunnel_streams[k] - 1)]
    BY <1>7, <2>1 DEF CountRemoteConnected, CountRemoteError,
       CountClientDisconnected, IsOpen
  <2>4. CASE UNCHANGED remote_streams
    BY <1>1, <1>3, <2>3, <2>4 DEF gauges
  <2>5. CASE InRotation(k, r) /\ \E o, p, e : AddRemoteStreams(k, r, o, p, e)
    <3>1. PICK o, p, e : AddRemoteStreams(k, r, o, p, e)
      BY <2>5
    <3>2. \A j \in Keys : j # k => tunnel_streams'[j] = tunnel_streams[j]
      BY <2>3 DEF GaugesOK
    <3>3. k \in DOMAIN tunnels /\ r \in Members(tunnels[k])
      BY <1>6, <2>5
    <3>4. Goal
      BY <1>2, <3>1, <3>2, <3>3
    <3>. QED
      BY <3>4
  <2>. QED
    BY <2>2, <2>4, <2>5
<1>8. ASSUME NEW id \in CheckIds, CountCheck(id) PROVE Goal
  <2>1. PICK k, r : k = checks[id].key /\ r = checks[id].remote
    OBVIOUS
  <2>2. CASE ~ IsDead(k, r)
    BY <1>1, <1>8, <2>1, <2>2 DEF CountCheck, gauges
  <2>3. CASE IsDead(k, r)
    <3>1. PICK e : AddRemoteStreams(k, r, 0, 0, e)
      BY <1>8, <2>1, <2>3 DEF CountCheck
    <3>2. k \in DOMAIN tunnels /\ r \in Members(tunnels[k])
      BY <2>3 DEF IsDead, IsOpen, Members
    <3>3. UNCHANGED tunnel_streams
      BY <1>8 DEF CountCheck
    <3>. QED
      BY <1>2, <3>1, <3>2, <3>3, Zenon
  <2>. QED
    BY <2>2, <2>3
<1>9. ASSUME NEW c \in Conns, NEW direction, Transfer(c, direction)
      PROVE  UNCHANGED gauges
  BY <1>9 DEF Transfer
<1>. QED
  BY <1>1, <1>4, <1>5, <1>7, <1>8, <1>9 DEF MeteredNext, Unmetered, meteredVars

\* No series has begun that a tunnel or remote to come could go on with, when
\* tunnels are opened once and no remote is removed.
Untouched ==
  /\ opened = 0 =>
       \A k \in Keys : /\ tunnel_streams[k] = 0
                       /\ \A r \in Remotes : remote_streams[k][r] = ZeroRemote
  /\ \A k \in DOMAIN tunnels : \A r \in Remotes \ Members(tunnels[k]) :
       remote_streams[k][r] = ZeroRemote

LEMMA UntouchedStep ==
  ASSUME MaxOpens = 1, Removable = {}, TypeInv, Fresh, GaugesOK, Untouched,
         [MeteredNext]_meteredVars
  PROVE  Untouched' /\ StartsAtZero
<1>1. [Next]_vars
  BY MeteredIsNext
<1>2. opened \in 0 .. MaxOpens
  BY TypeInvParts
<1>3. /\ DOMAIN tunnels \subseteq Keys
      /\ DOMAIN tunnels' \subseteq Keys
      /\ \A k \in DOMAIN tunnels' : Members(tunnels'[k]) \subseteq Remotes
  BY <1>1, TunnelsType, TypeInvParts DEF TunnelsOK, IsMap, IsInfo, Info, Members
\* Nothing is open before the first OPEN.
<1>4. opened = 0 => DOMAIN tunnels = {}
  BY DEF Fresh, Init
<1>5. ASSUME opened = 0
      PROVE  \A k \in Keys :
               /\ tunnel_streams[k] = 0 /\ tunnel_streams'[k] = 0
               /\ \A r \in Remotes : /\ remote_streams[k][r] = ZeroRemote
                                     /\ remote_streams'[k][r] = ZeroRemote
  BY <1>4, <1>5, GaugesMoveOnly DEF Untouched
<1>6. ASSUME NEW k \in DOMAIN tunnels' \ DOMAIN tunnels
      PROVE  opened = 0
  BY <1>1, <1>2, <1>6, OpensOnly DEF OpenTunnel
<1>7. ASSUME NEW k \in DOMAIN tunnels, k \in DOMAIN tunnels',
             NEW r \in Remotes \ Members(tunnels[k])
      PROVE  remote_streams[k][r] = ZeroRemote /\ remote_streams'[k][r] = ZeroRemote
  BY <1>3, <1>7, GaugesMoveOnly DEF Untouched
<1>8. opened' = 0 => opened = 0
  <2>1. opened' \in {opened, opened + 1}
    BY <1>1 DEF Next, AdminStep, OpenTunnel, CloseTunnel, AddRemote, RemoveRemote,
       ListenerStep, Accept, StopListening, ConnStep, ConnTask, ClientConnected,
       ReadRetries, SelectRemote, GiveUp, RemoteConnected, RemoteError,
       RemoteDied, CopyDone, CopyFinished, ClientDisconnected, CheckStep,
       CheckTask, ProbeAnswered, ProbeFailed, Revive, CheckAgain, vars
  <2>. QED
    BY <1>2, <2>1
<1>9. Untouched'
  <2>1. ASSUME NEW k \in DOMAIN tunnels', NEW r \in Remotes \ Members(tunnels'[k])
        PROVE  remote_streams'[k][r] = ZeroRemote
    <3>1. CASE k \in DOMAIN tunnels
      <4>1. Members(tunnels[k]) \subseteq Members(tunnels'[k])
        BY <1>1, <2>1, <3>1, MembersGrow
      <4>. QED
        BY <1>7, <2>1, <3>1, <4>1
    <3>2. CASE k \notin DOMAIN tunnels
      BY <1>3, <1>5, <1>6, <2>1, <3>2
    <3>. QED
      BY <3>1, <3>2
  <2>. QED
    BY <1>5, <1>8, <2>1 DEF Untouched
<1>10. StartsAtZero
  BY <1>3, <1>5, <1>6, <1>7 DEF StartsAtZero
<1>. QED
  BY <1>9, <1>10

\* In particular when tunnels are opened once and no remote is removed.
THEOREM InstrumentsShowRecordsOnce ==
  ASSUME ~ OverflowChecks, MaxOpens = 1, Removable = {}
  PROVE  MeteredSpec => []GaugesFollowStats
<1>. DEFINE H == StartsAtZero
<1>1. TypeInv /\ Fresh /\ GaugesOK /\ Untouched /\ [MeteredNext]_meteredVars
        => Untouched' /\ [H]_meteredVars
  BY UntouchedStep
<1>2. TypeInv /\ LiveDeadDisjoint /\ GaugesOK /\ GaugesFollowStats
        /\ [MeteredNext]_meteredVars /\ [H]_meteredVars
        => GaugesFollowStats' /\ GaugesOK'
  BY GaugesStep
<1>3. TypeInv /\ Fresh /\ [MeteredNext]_meteredVars => Fresh'
  BY MeteredIsNext, FreshStep
<1>4. MeteredInit => Fresh /\ Untouched
  BY DEF MeteredInit, Init, Fresh, Untouched
<1>. HIDE DEF H
<1>. QED
  BY <1>1, <1>2, <1>3, <1>4, MeteredInitType, MeteredTypeStep, PTL DEF MeteredSpec
=============================================================================
