-------------------------- MODULE TunnelInfoProof --------------------------
(***************************************************************************)
(* What each operator of TunnelInfo keeps: the type of the record, which   *)
(* remotes are in rotation and dead after it, and which check every dead   *)
(* remote names.                                                           *)
(***************************************************************************)
EXTENDS TunnelInfo, TLAPS

USE NoRemoteAssumption, OptionsAssumption, MaxOpensAssumption,
    MaxChecksAssumption, WordSizeAssumption, ErrorCapAssumption,
    OverflowChecksAssumption

-----------------------------------------------------------------------------
\* Incrementing and decrementing a usize yields a usize, whether the build
\* checks for overflow or wraps.
LEMMA CounterTypes ==
  ASSUME NEW n \in Word
  PROVE  Inc(n) \in Word /\ Dec(n) \in Word
BY DEF Word, Inc, Dec

\* The saturated error count stays in its range.
LEMMA ErrorCountType ==
  ASSUME NEW n \in ErrorCount
  PROVE  SaturatedInc(n) \in ErrorCount
BY DEF ErrorCount, SaturatedInc

\* Every method of RemoteInfo yields a RemoteInfo.
LEMMA RemoteInfoTypes ==
  ASSUME NEW ri \in RemoteInfo
  PROVE  /\ new_pending_stream(ri) \in RemoteInfo
         /\ remote_connected(ri) \in RemoteInfo
         /\ error(ri) \in RemoteInfo
         /\ check_error(ri) \in RemoteInfo
         /\ remote_recovered(ri) \in RemoteInfo
         /\ remote_disconnected(ri) \in RemoteInfo
<1>1. /\ ri.streams_open \in Word
      /\ ri.streams_pending \in Word
      /\ ri.num_errors \in ErrorCount
  BY DEF RemoteInfo
<1>2. /\ Inc(ri.streams_open) \in Word
      /\ Dec(ri.streams_open) \in Word
      /\ Inc(ri.streams_pending) \in Word
      /\ Dec(ri.streams_pending) \in Word
      /\ SaturatedInc(ri.num_errors) \in ErrorCount
  BY <1>1, CounterTypes, ErrorCountType
<1>3. 0 \in ErrorCount
  BY DEF ErrorCount
<1>. QED
  BY <1>1, <1>2, <1>3 DEF RemoteInfo, new_pending_stream, remote_connected,
     error, check_error, remote_recovered, remote_disconnected

\* A remote just added has its type.
LEMMA NewRemoteInfoType == NewRemoteInfo \in RemoteInfo
BY DEF NewRemoteInfo, RemoteInfo, Word, ErrorCount

-----------------------------------------------------------------------------
\* Inserting in a map and removing from it.
LEMMA MapFacts ==
  ASSUME NEW map, NEW keys, IsMap(map, keys), NEW key \in keys, NEW val
  PROVE  /\ IsMap(Put(map, key, val), keys)
         /\ DOMAIN Put(map, key, val) = DOMAIN map \cup {key}
         /\ Put(map, key, val)[key] = val
         /\ \A x \in DOMAIN map : x # key => Put(map, key, val)[x] = map[x]
         /\ IsMap(Drop(map, key), keys)
         /\ DOMAIN Drop(map, key) = DOMAIN map \ {key}
         /\ \A x \in DOMAIN map : x # key => Drop(map, key)[x] = map[x]
BY DEF IsMap, Put, Drop

\* Removal alone.
LEMMA DropFacts ==
  ASSUME NEW map, NEW keys, IsMap(map, keys), NEW key \in keys
  PROVE  /\ IsMap(Drop(map, key), keys)
         /\ DOMAIN Drop(map, key) = DOMAIN map \ {key}
         /\ \A x \in DOMAIN map : x # key => Drop(map, key)[x] = map[x]
BY DEF IsMap, Drop

\* Replacing the value of a key that is there.
LEMMA EntryFacts ==
  ASSUME NEW map, NEW keys, IsMap(map, keys), NEW key \in DOMAIN map, NEW val
  PROVE  LET new == [map EXCEPT ![key] = val] IN
         /\ IsMap(new, keys)
         /\ DOMAIN new = DOMAIN map
         /\ new[key] = val
         /\ \A x \in DOMAIN map : x # key => new[x] = map[x]
<1>. DEFINE new == [map EXCEPT ![key] = val]
<1>1. DOMAIN new = DOMAIN map
  OBVIOUS
<1>2. new = [x \in DOMAIN map |-> IF x = key THEN val ELSE map[x]]
  OBVIOUS
<1>3. new = [x \in DOMAIN new |-> new[x]]
  BY <1>2
<1>. QED
  BY <1>1, <1>2, <1>3 DEF IsMap

-----------------------------------------------------------------------------
\* NewTunnelInfo: all remotes are in rotation.
LEMMA NewTunnelInfoFacts ==
  ASSUME NEW channel \in Channels, NEW remotes \in SUBSET Remotes,
         NEW options \in Options
  PROVE  LET new == NewTunnelInfo(channel, remotes, options) IN
         /\ IsInfo(new)
         /\ DOMAIN new.remotes = remotes
         /\ DOMAIN new.dead_remotes = {}
<1>. DEFINE new == NewTunnelInfo(channel, remotes, options)
<1>1. /\ DOMAIN new.remotes = remotes
      /\ DOMAIN new.dead_remotes = {}
  BY DEF NewTunnelInfo
<1>2. new \in Info(remotes, {})
  BY NewRemoteInfoType DEF NewTunnelInfo, Info, Word
<1>. QED
  BY <1>1, <1>2 DEF IsInfo

\* What the counting of connections never changes: the places of the remotes
\* and the checks of the dead ones.
SamePlaces(old, new) ==
  /\ IsInfo(new)
  /\ DOMAIN new.remotes = DOMAIN old.remotes
  /\ new.dead_remotes = old.dead_remotes

\* Connections come and go without moving a remote.
LEMMA CountingFacts ==
  ASSUME NEW ti, IsInfo(ti), NEW r
  PROVE  /\ SamePlaces(ti, client_connected(ti))
         /\ r \in DOMAIN ti.remotes => SamePlaces(ti, select(ti, r))
         /\ SamePlaces(ti, connected(ti, r))
         /\ SamePlaces(ti, count_error(ti, r))
         /\ SamePlaces(ti, client_disconnected(ti, r))
<1>. DEFINE live == DOMAIN ti.remotes
            dead == DOMAIN ti.dead_remotes
<1>1. /\ ti \in Info(live, dead)
      /\ live \subseteq Remotes
      /\ dead \subseteq Remotes
  BY DEF IsInfo
<1>2. \A ri \in RemoteInfo, n \in Word :
        LET new1 == [ti EXCEPT !.streams_open = n]
            new2 == [ti EXCEPT !.remotes[r] = ri]
            new3 == [ti EXCEPT !.streams_open = n, !.remotes[r] = ri]
        IN /\ SamePlaces(ti, new1)
           /\ SamePlaces(ti, new2)
           /\ SamePlaces(ti, new3)
  BY <1>1 DEF IsInfo, Info, SamePlaces
<1>3. ti.streams_open \in Word
  BY <1>1 DEF Info
<1>4. r \in live => ti.remotes[r] \in RemoteInfo
  BY <1>1 DEF Info
<1>5. SamePlaces(ti, ti)
  BY DEF SamePlaces
<1>6. SamePlaces(ti, client_connected(ti))
  BY <1>1, <1>3, CounterTypes DEF client_connected, SamePlaces, IsInfo, Info
<1>7. r \in live => SamePlaces(ti, select(ti, r))
  BY <1>2, <1>3, <1>4, RemoteInfoTypes DEF select
<1>8. SamePlaces(ti, connected(ti, r))
  BY <1>2, <1>3, <1>4, <1>5, RemoteInfoTypes DEF connected
<1>9. SamePlaces(ti, count_error(ti, r))
  BY <1>2, <1>3, <1>4, <1>5, RemoteInfoTypes DEF count_error
<1>10. SamePlaces(ti, client_disconnected(ti, r))
  <2>. DEFINE n == Dec(ti.streams_open)
              ri == remote_disconnected(ti.remotes[r])
  <2>1. n \in Word
    BY <1>3, CounterTypes
  <2>2. CASE r \in live /\ ~ Panics(ti.streams_open)
    <3>1. ri \in RemoteInfo
      BY <2>2, <1>4, RemoteInfoTypes
    <3>2. SamePlaces(ti, [ti EXCEPT !.streams_open = n, !.remotes[r] = ri])
      BY <2>1, <3>1, <1>2
    <3>. QED
      BY <2>2, <3>2 DEF client_disconnected
  <2>3. CASE ~ (r \in live /\ ~ Panics(ti.streams_open))
    <3>1. SamePlaces(ti, [ti EXCEPT !.streams_open = n])
      BY <1>1, <2>1 DEF SamePlaces, IsInfo, Info
    <3>. QED
      BY <2>3, <3>1 DEF client_disconnected
  <2>. QED
    BY <2>2, <2>3
<1>. QED
  BY <1>6, <1>7, <1>8, <1>9, <1>10

\* The moves of a remote. Each says which remotes are in rotation and dead
\* afterwards, and that the checks of the other dead remotes are as before.
MovesTo(old, new, r, live, dead) ==
  /\ IsInfo(new)
  /\ DOMAIN new.remotes = live
  /\ DOMAIN new.dead_remotes = dead
  /\ \A q \in dead : q # r =>
       /\ q \in DOMAIN old.dead_remotes
       /\ new.dead_remotes[q] = old.dead_remotes[q]

\* An error that makes a remote dead moves it out of rotation, with the check
\* just spawned.
LEMMA BuryFacts ==
  ASSUME NEW ti, IsInfo(ti), NEW r \in DOMAIN ti.remotes, NEW handle \in CheckIds
  PROVE  MovesTo(ti, bury(ti, r, handle), r,
                 DOMAIN ti.remotes \ {r}, DOMAIN ti.dead_remotes \cup {r})
<1>. DEFINE live == DOMAIN ti.remotes
            dead == DOMAIN ti.dead_remotes
            d == [remote |-> error(ti.remotes[r]), join_handle |-> handle]
            new == bury(ti, r, handle)
<1>1. /\ ti \in Info(live, dead)
      /\ live \subseteq Remotes
      /\ dead \subseteq Remotes
  BY DEF IsInfo
<1>2. d \in DeadRemote
  BY <1>1, RemoteInfoTypes DEF Info, DeadRemote
<1>3. /\ new.remotes = Drop(ti.remotes, r)
      /\ new.dead_remotes = Put(ti.dead_remotes, r, d)
  BY <1>1 DEF bury, Info
<1>4. new.remotes \in [live \ {r} -> RemoteInfo]
  BY <1>1, <1>3 DEF Info, Drop
<1>5. new.dead_remotes \in [dead \cup {r} -> DeadRemote]
  BY <1>1, <1>2, <1>3 DEF Info, Put
<1>6. new \in Info(live \ {r}, dead \cup {r})
  <2>. HIDE DEF d
  <2>. QED BY <1>1, <1>3, <1>4, <1>5 DEF bury, Info
<1>7. IsInfo(new)
  BY <1>1, <1>4, <1>5, <1>6 DEF IsInfo
<1>. QED
  BY <1>1, <1>3, <1>4, <1>5, <1>7 DEF MovesTo, Put

\* The check it names is the one just spawned.
LEMMA BuryHandle ==
  ASSUME NEW ti, IsInfo(ti), NEW r, NEW handle
  PROVE  bury(ti, r, handle).dead_remotes[r].join_handle = handle
<1>. DEFINE d == [remote |-> error(ti.remotes[r]), join_handle |-> handle]
<1>1. bury(ti, r, handle).dead_remotes = Put(ti.dead_remotes, r, d)
  BY DEF bury, IsInfo, Info
<1>2. Put(ti.dead_remotes, r, d)[r] = d
  BY DEF Put
<1>. QED
  BY <1>1, <1>2

\* A check that finds the remote again puts it in rotation.
LEMMA RecoverFacts ==
  ASSUME NEW ti, IsInfo(ti), NEW r \in DOMAIN ti.dead_remotes
  PROVE  MovesTo(ti, recover(ti, r), r,
                 DOMAIN ti.remotes \cup {r}, DOMAIN ti.dead_remotes \ {r})
<1>. DEFINE live == DOMAIN ti.remotes
            dead == DOMAIN ti.dead_remotes
            ri == remote_recovered(ti.dead_remotes[r].remote)
            new == recover(ti, r)
<1>1. /\ ti \in Info(live, dead)
      /\ live \subseteq Remotes
      /\ dead \subseteq Remotes
  BY DEF IsInfo
<1>2. ri \in RemoteInfo
  BY <1>1, RemoteInfoTypes DEF Info, DeadRemote
<1>3. /\ new.remotes = Put(ti.remotes, r, ri)
      /\ new.dead_remotes = Drop(ti.dead_remotes, r)
  BY <1>1 DEF recover, Info
<1>4. new.remotes \in [live \cup {r} -> RemoteInfo]
  BY <1>1, <1>2, <1>3 DEF Info, Put
<1>5. new.dead_remotes \in [dead \ {r} -> DeadRemote]
  BY <1>1, <1>3 DEF Info, Drop
<1>6. new \in Info(live \cup {r}, dead \ {r})
  <2>. HIDE DEF ri
  <2>. QED BY <1>1, <1>3, <1>4, <1>5 DEF recover, Info
<1>7. IsInfo(new)
  BY <1>1, <1>4, <1>5, <1>6 DEF IsInfo
<1>. QED
  BY <1>1, <1>3, <1>4, <1>5, <1>7 DEF MovesTo, Drop

\* A check that fails leaves the remote dead, with the next check.
LEMMA RecheckFacts ==
  ASSUME NEW ti, IsInfo(ti), NEW r \in DOMAIN ti.dead_remotes,
         NEW handle \in CheckIds
  PROVE  /\ MovesTo(ti, recheck(ti, r, handle), r,
                    DOMAIN ti.remotes, DOMAIN ti.dead_remotes)
         /\ recheck(ti, r, handle).dead_remotes[r].join_handle = handle
<1>. DEFINE live == DOMAIN ti.remotes
            dead == DOMAIN ti.dead_remotes
            d == [remote |-> check_error(ti.dead_remotes[r].remote),
                  join_handle |-> handle]
            new == recheck(ti, r, handle)
<1>1. /\ ti \in Info(live, dead)
      /\ live \subseteq Remotes
      /\ dead \subseteq Remotes
  BY DEF IsInfo
<1>2. d \in DeadRemote
  BY <1>1, RemoteInfoTypes DEF Info, DeadRemote
<1>3. /\ new = [ti EXCEPT !.dead_remotes = [@ EXCEPT ![r] = d]]
      /\ d.join_handle = handle
  BY DEF recheck
<1>. HIDE DEF d, new
<1>4. /\ new \in Info(live, dead)
      /\ new.remotes = ti.remotes
      /\ new.dead_remotes = [ti.dead_remotes EXCEPT ![r] = d]
  BY <1>1, <1>2, <1>3 DEF Info
<1>5. IsInfo(new)
  BY <1>1, <1>4 DEF IsInfo, Info
<1>6. MovesTo(ti, new, r, live, dead) /\ new.dead_remotes[r].join_handle = handle
  BY <1>1, <1>3, <1>4, <1>5 DEF MovesTo, Info
<1>. QED
  BY <1>6 DEF new

\* ADD puts a new remote in rotation.
LEMMA AddFacts ==
  ASSUME NEW ti, IsInfo(ti), NEW r \in Remotes
  PROVE  MovesTo(ti, add_remote(ti, r), r,
                 DOMAIN ti.remotes \cup {r}, DOMAIN ti.dead_remotes)
<1>. DEFINE live == DOMAIN ti.remotes
            dead == DOMAIN ti.dead_remotes
            new == add_remote(ti, r)
<1>1. /\ ti \in Info(live, dead)
      /\ live \subseteq Remotes
      /\ dead \subseteq Remotes
  BY DEF IsInfo
<1>2. new = [ti EXCEPT !.remotes = Put(ti.remotes, r, NewRemoteInfo)]
  BY DEF add_remote
<1>3. Put(ti.remotes, r, NewRemoteInfo) \in [live \cup {r} -> RemoteInfo]
  BY <1>1, NewRemoteInfoType DEF Info, Put
<1>. HIDE DEF new
<1>4. /\ new \in Info(live \cup {r}, dead)
      /\ DOMAIN new.remotes = live \cup {r}
      /\ new.dead_remotes = ti.dead_remotes
  BY <1>1, <1>2, <1>3 DEF Info
<1>5. MovesTo(ti, new, r, live \cup {r}, dead)
  BY <1>1, <1>4 DEF MovesTo, IsInfo, Info
<1>. QED
  BY <1>5 DEF new

\* REMOVE takes a remote out of rotation or out of the dead ones, and leaves
\* the check of a dead one running.
LEMMA RemoveFacts ==
  ASSUME NEW ti, IsInfo(ti), NEW r
  PROVE  LET new == remove_remote(ti, r) IN
         /\ r \in DOMAIN ti.remotes =>
              MovesTo(ti, new, r, DOMAIN ti.remotes \ {r}, DOMAIN ti.dead_remotes)
              /\ new.dead_remotes = ti.dead_remotes
         /\ r \notin DOMAIN ti.remotes =>
              MovesTo(ti, new, r, DOMAIN ti.remotes, DOMAIN ti.dead_remotes \ {r})
<1>. DEFINE live == DOMAIN ti.remotes
            dead == DOMAIN ti.dead_remotes
            new == remove_remote(ti, r)
<1>1. /\ ti \in Info(live, dead)
      /\ live \subseteq Remotes
      /\ dead \subseteq Remotes
  BY DEF IsInfo
<1>2. CASE r \in live
  <2>1. new = [ti EXCEPT !.remotes = Drop(ti.remotes, r)]
    BY <1>2 DEF remove_remote
  <2>2. Drop(ti.remotes, r) \in [live \ {r} -> RemoteInfo]
    BY <1>1 DEF Info, Drop
  <2>. HIDE DEF new
  <2>3. /\ new \in Info(live \ {r}, dead)
        /\ DOMAIN new.remotes = live \ {r}
        /\ new.dead_remotes = ti.dead_remotes
    BY <1>1, <2>1, <2>2 DEF Info
  <2>4. /\ MovesTo(ti, new, r, live \ {r}, dead)
        /\ new.dead_remotes = ti.dead_remotes
    BY <1>1, <2>3 DEF MovesTo, IsInfo, Info
  <2>. QED
    BY <1>2, <2>4 DEF new
<1>3. CASE r \notin live
  <2>1. new = [ti EXCEPT !.dead_remotes = Drop(ti.dead_remotes, r)]
    BY <1>3 DEF remove_remote
  <2>2. Drop(ti.dead_remotes, r) \in [dead \ {r} -> DeadRemote]
    BY <1>1 DEF Info, Drop
  <2>. HIDE DEF new
  <2>3. /\ new \in Info(live, dead \ {r})
        /\ DOMAIN new.remotes = live
        /\ new.dead_remotes = Drop(ti.dead_remotes, r)
    BY <1>1, <2>1, <2>2 DEF Info
  <2>4. MovesTo(ti, new, r, live, dead \ {r})
    BY <1>1, <2>3 DEF MovesTo, IsInfo, Info, Drop
  <2>. QED
    BY <1>3, <2>4 DEF new
<1>. QED
  BY <1>2, <1>3
=============================================================================
