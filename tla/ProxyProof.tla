---------------------------- MODULE ProxyProof ----------------------------
(***************************************************************************)
(* Proofs about Proxy for any number of keys, remotes and connections, any *)
(* options and both arithmetic profiles: its variables keep their types, a *)
(* remote is never both in rotation and dead, every dead remote has its    *)
(* check, and only the administrator changes which remotes a tunnel has;   *)
(* and, under hypotheses the code does not enforce: the errors of a remote *)
(* decide where it is, and a check that can be aborted is of a dead one.   *)
(***************************************************************************)
EXTENDS Proxy, TunnelInfoProof

USE NoRemoteAssumption, OptionsAssumption, MaxOpensAssumption,
    MaxChecksAssumption, WordSizeAssumption, ErrorCapAssumption,
    OverflowChecksAssumption, NoKeyAssumption, RemoteSetsAssumption,
    RemovableAssumption

-----------------------------------------------------------------------------
(* The inductive invariant: TypeOK needs that a failed attempt was one of   *)
(* those retries allows.                                                    *)

ConnectingHasRetries ==
  \A c \in Conns : conns[c].pc = "connecting" => conns[c].retries > 0

TypeInv == TypeOK /\ ConnectingHasRetries

TunnelsOK ==
  /\ IsMap(tunnels, Keys)
  /\ \A k \in DOMAIN tunnels : IsInfo(tunnels[k])

ConnOK(conn) ==
  /\ conn \in Conn
  /\ conn.pc # "idle" => conn.key \in Keys
  /\ conn.pc \in {"connecting", "copying"} => conn.remote \in Remotes
  /\ conn.pc = "connecting" => conn.retries > 0

\* The conjuncts of TypeInv, one per variable.
LEMMA TypeInvParts ==
  TypeInv <=> /\ TunnelsOK
              /\ listener \in [Keys -> 0 .. MaxOpens]
              /\ opened \in 0 .. MaxOpens
              /\ conns \in [Conns -> Conn]
              /\ \A c \in Conns : ConnOK(conns[c])
              /\ checks \in [CheckIds -> Check]
<1>1. conns \in [Conns -> Conn] =>
        \A c \in Conns : conns[c] \in Conn
  OBVIOUS
<1>. QED
  BY <1>1 DEF TypeInv, TypeOK, ConnectingHasRetries, TunnelsOK, ConnOK

-----------------------------------------------------------------------------
(* What steps do to the registry.                                           *)

\* The registry after a step that only counts.
CountingStep ==
  /\ IsMap(tunnels', Keys)
  /\ DOMAIN tunnels' = DOMAIN tunnels
  /\ \A k \in DOMAIN tunnels : SamePlaces(tunnels[k], tunnels'[k])

\* Replacing one entry of the registry by a record of the same places.
LEMMA CountingUpdate ==
  ASSUME TunnelsOK, NEW k, NEW ti,
         k \in DOMAIN tunnels => SamePlaces(tunnels[k], ti),
         tunnels' = IF k \in DOMAIN tunnels
                    THEN [tunnels EXCEPT ![k] = ti] ELSE tunnels
  PROVE  CountingStep
<1>1. \A j \in DOMAIN tunnels : SamePlaces(tunnels[j], tunnels[j])
  BY DEF TunnelsOK, SamePlaces
<1>. QED
  BY <1>1 DEF TunnelsOK, IsMap, CountingStep

\* Accepting, counting, copying and probing never move a remote.
LEMMA CountingSteps ==
  ASSUME TypeInv,
         \/ ListenerStep
         \/ \E c \in Conns : \/ ClientConnected(c)
                             \/ ReadRetries(c)
                             \/ SelectRemote(c)
                             \/ GiveUp(c)
                             \/ RemoteConnected(c)
                             \/ RemoteError(c)
                             \/ CopyDone(c)
                             \/ CopyFinished(c)
                             \/ ClientDisconnected(c)
         \/ \E id \in CheckIds : ProbeAnswered(id) \/ ProbeFailed(id)
         \/ UNCHANGED vars
  PROVE  CountingStep
<1>0. TunnelsOK
  BY TypeInvParts
<1>1. ASSUME UNCHANGED tunnels PROVE CountingStep
  BY <1>0, <1>1 DEF TunnelsOK, SamePlaces, CountingStep
<1>2. ASSUME NEW k, k \in DOMAIN tunnels PROVE IsInfo(tunnels[k])
  BY <1>0, <1>2 DEF TunnelsOK
<1>3. ASSUME NEW c \in Conns, ClientConnected(c) PROVE CountingStep
  <2>. DEFINE k == conns[c].key
  <2>1. tunnels' = IF k \in DOMAIN tunnels
                   THEN [tunnels EXCEPT ![k] = client_connected(tunnels[k])]
                   ELSE tunnels
    BY <1>3 DEF ClientConnected, IsOpen
  <2>2. k \in DOMAIN tunnels =>
          SamePlaces(tunnels[k], client_connected(tunnels[k]))
    BY <1>2, CountingFacts
  <2>. QED
    BY <1>0, <2>1, <2>2, CountingUpdate
<1>4. ASSUME NEW c \in Conns, SelectRemote(c) PROVE CountingStep
  <2>. DEFINE k == conns[c].key
  <2>1. PICK r \in DOMAIN tunnels[k].remotes :
          tunnels' = [tunnels EXCEPT ![k] = select(tunnels[k], r)]
    BY <1>4 DEF SelectRemote, Update
  <2>2. k \in DOMAIN tunnels
    BY <1>4 DEF SelectRemote, IsOpen
  <2>3. SamePlaces(tunnels[k], select(tunnels[k], r))
    BY <1>2, <2>1, <2>2, CountingFacts
  <2>. QED
    BY <1>0, <2>1, <2>2, <2>3, CountingUpdate
<1>5. ASSUME NEW c \in Conns, RemoteConnected(c) PROVE CountingStep
  <2>. DEFINE k == conns[c].key
              r == conns[c].remote
  <2>1. tunnels' = IF k \in DOMAIN tunnels
                   THEN [tunnels EXCEPT ![k] = connected(tunnels[k], r)]
                   ELSE tunnels
    BY <1>5 DEF RemoteConnected, IsOpen
  <2>2. k \in DOMAIN tunnels => SamePlaces(tunnels[k], connected(tunnels[k], r))
    BY <1>2, CountingFacts
  <2>. QED
    BY <1>0, <2>1, <2>2, CountingUpdate
<1>6. ASSUME NEW c \in Conns, RemoteError(c) PROVE CountingStep
  <2>. DEFINE k == conns[c].key
              r == conns[c].remote
  <2>1. tunnels' = IF k \in DOMAIN tunnels
                   THEN [tunnels EXCEPT ![k] = count_error(tunnels[k], r)]
                   ELSE tunnels
    BY <1>6 DEF RemoteError, IsOpen
  <2>2. k \in DOMAIN tunnels =>
          SamePlaces(tunnels[k], count_error(tunnels[k], r))
    BY <1>2, CountingFacts
  <2>. QED
    BY <1>0, <2>1, <2>2, CountingUpdate
<1>7. ASSUME NEW c \in Conns, ClientDisconnected(c) PROVE CountingStep
  <2>. DEFINE k == conns[c].key
              r == conns[c].remote
  <2>1. tunnels' = IF k \in DOMAIN tunnels
                   THEN [tunnels EXCEPT
                           ![k] = client_disconnected(tunnels[k], r)]
                   ELSE tunnels
    BY <1>7 DEF ClientDisconnected, IsOpen
  <2>2. k \in DOMAIN tunnels =>
          SamePlaces(tunnels[k], client_disconnected(tunnels[k], r))
    BY <1>2, CountingFacts
  <2>. QED
    BY <1>0, <2>1, <2>2, CountingUpdate
<1>. QED
  BY <1>1, <1>3, <1>4, <1>5, <1>6, <1>7
     DEF ListenerStep, Accept, StopListening, ReadRetries, GiveUp, CopyDone,
         CopyFinished, ProbeAnswered, ProbeFailed, vars

\* The registry after remote r of tunnel k moved: live is in rotation now and
\* dead is not.
MoveStep(k, r, live, dead) ==
  /\ IsMap(tunnels', Keys)
  /\ DOMAIN tunnels' = DOMAIN tunnels
  /\ k \in DOMAIN tunnels
  /\ MovesTo(tunnels[k], tunnels'[k], r, live, dead)
  /\ \A j \in DOMAIN tunnels : j # k => tunnels'[j] = tunnels[j]

\* Replacing one entry of the registry by a record with a remote moved.
LEMMA MoveUpdate ==
  ASSUME TunnelsOK, NEW k \in DOMAIN tunnels, NEW ti, NEW r, NEW live, NEW dead,
         MovesTo(tunnels[k], ti, r, live, dead),
         tunnels' = [tunnels EXCEPT ![k] = ti]
  PROVE  MoveStep(k, r, live, dead) /\ tunnels'[k] = ti
<1>1. IsMap(tunnels, Keys)
  BY DEF TunnelsOK
<1>2. /\ IsMap(tunnels', Keys)
      /\ DOMAIN tunnels' = DOMAIN tunnels
      /\ tunnels'[k] = ti
      /\ \A j \in DOMAIN tunnels : j # k => tunnels'[j] = tunnels[j]
  BY <1>1, EntryFacts, Zenon
<1>. QED
  BY <1>2 DEF MoveStep

\* A remote dies: it leaves rotation with a check that was free.
LEMMA RemoteDiedMove ==
  ASSUME TypeInv, NEW c \in Conns, RemoteDied(c)
  PROVE  LET k == conns[c].key
             r == conns[c].remote
             ti == tunnels[k]
         IN /\ MoveStep(k, r, DOMAIN ti.remotes \ {r},
                        DOMAIN ti.dead_remotes \cup {r})
            /\ r \in DOMAIN ti.remotes
            /\ \E id \in FreeChecks :
                 /\ tunnels'[k].dead_remotes[r].join_handle = id
                 /\ checks' = [checks EXCEPT ![id] = WaitingCheck(k, r)]
<1>. DEFINE k == conns[c].key
            r == conns[c].remote
            ti == tunnels[k]
<1>1. TunnelsOK
  BY TypeInvParts
<1>2. /\ k \in DOMAIN tunnels
      /\ r \in DOMAIN ti.remotes
  BY DEF RemoteDied, IsOpen, is_dead
<1>3. PICK id \in CheckIds :
        /\ id \in FreeChecks
        /\ checks' = [checks EXCEPT ![id] = WaitingCheck(k, r)]
        /\ tunnels' = [tunnels EXCEPT ![k] = bury(ti, r, id)]
  BY DEF RemoteDied, IsNextCheck, Update
<1>4. IsInfo(ti)
  BY <1>1, <1>2 DEF TunnelsOK
<1>. HIDE DEF k, r, ti
<1>. DEFINE live == DOMAIN ti.remotes \ {r}
            dead == DOMAIN ti.dead_remotes \cup {r}
<1>5. /\ MovesTo(ti, bury(ti, r, id), r, live, dead)
      /\ bury(ti, r, id).dead_remotes[r].join_handle = id
  <2>1. id \in CheckIds /\ r \in DOMAIN ti.remotes
    BY <1>2
  <2>. HIDE DEF live, dead
  <2>2. MovesTo(ti, bury(ti, r, id), r, live, dead)
    BY <2>1, <1>4, BuryFacts DEF live, dead
  <2>3. bury(ti, r, id).dead_remotes[r].join_handle = id
    BY <1>4, BuryHandle
  <2>. QED
    BY <2>2, <2>3
<1>. HIDE DEF live, dead
<1>6. /\ MoveStep(k, r, live, dead)
      /\ tunnels'[k] = bury(ti, r, id)
  BY <1>1, <1>2, <1>3, <1>5, MoveUpdate DEF ti
<1>7. tunnels'[k].dead_remotes[r].join_handle = id
  BY <1>5, <1>6
<1>. QED
  BY <1>2, <1>3, <1>6, <1>7 DEF k, r, ti, live, dead

\* A dead remote returns.
LEMMA ReviveMove ==
  ASSUME TypeInv, NEW id \in CheckIds, Revive(id),
         IsDead(checks[id].key, checks[id].remote)
  PROVE  LET k == checks[id].key
             r == checks[id].remote
             ti == tunnels[k]
         IN /\ MoveStep(k, r, DOMAIN ti.remotes \cup {r},
                        DOMAIN ti.dead_remotes \ {r})
            /\ r \in DOMAIN ti.dead_remotes
<1>. DEFINE k == checks[id].key
            r == checks[id].remote
            ti == tunnels[k]
<1>1. TunnelsOK
  BY TypeInvParts
<1>2. /\ k \in DOMAIN tunnels
      /\ r \in DOMAIN ti.dead_remotes
      /\ tunnels' = [tunnels EXCEPT ![k] = recover(ti, r)]
  BY DEF Revive, IsDead, IsOpen
<1>3. IsInfo(ti)
  BY <1>1, <1>2 DEF TunnelsOK
<1>. HIDE DEF k, r, ti
<1>4. MovesTo(ti, recover(ti, r), r,
              DOMAIN ti.remotes \cup {r}, DOMAIN ti.dead_remotes \ {r})
  BY <1>2, <1>3, RecoverFacts
<1>5. MoveStep(k, r, DOMAIN ti.remotes \cup {r}, DOMAIN ti.dead_remotes \ {r})
  BY <1>1, <1>2, <1>4, MoveUpdate DEF ti
<1>. QED
  BY <1>2, <1>5 DEF k, r, ti

\* A check fails: the remote stays where it is, with another check.
LEMMA CheckAgainMove ==
  ASSUME TypeInv, NEW id \in CheckIds, CheckAgain(id),
         IsDead(checks[id].key, checks[id].remote)
  PROVE  LET k == checks[id].key
             r == checks[id].remote
             ti == tunnels[k]
         IN /\ MoveStep(k, r, DOMAIN ti.remotes, DOMAIN ti.dead_remotes)
            /\ r \in DOMAIN ti.dead_remotes
            /\ \E next \in FreeChecks \cup {id} :
                 /\ tunnels'[k].dead_remotes[r].join_handle = next
                 /\ checks' = [checks EXCEPT ![id] = FreeCheck,
                                             ![next] = WaitingCheck(k, r)]
<1>. DEFINE k == checks[id].key
            r == checks[id].remote
            ti == tunnels[k]
<1>1. TunnelsOK
  BY TypeInvParts
<1>2. /\ k \in DOMAIN tunnels
      /\ r \in DOMAIN ti.dead_remotes
  BY DEF IsDead, IsOpen
<1>3. PICK next \in CheckIds :
        /\ next \in FreeChecks \cup {id}
        /\ checks' = [checks EXCEPT ![id] = FreeCheck,
                                    ![next] = WaitingCheck(k, r)]
        /\ tunnels' = [tunnels EXCEPT ![k] = recheck(ti, r, next)]
  BY DEF CheckAgain, IsNextCheckAfter, IsNextCheck, Update
<1>4. IsInfo(ti)
  BY <1>1, <1>2 DEF TunnelsOK
<1>. HIDE DEF k, r, ti
<1>5. /\ MovesTo(ti, recheck(ti, r, next), r,
                 DOMAIN ti.remotes, DOMAIN ti.dead_remotes)
      /\ recheck(ti, r, next).dead_remotes[r].join_handle = next
  BY <1>2, <1>3, <1>4, RecheckFacts
<1>6. /\ MoveStep(k, r, DOMAIN ti.remotes, DOMAIN ti.dead_remotes)
      /\ tunnels'[k] = recheck(ti, r, next)
  BY <1>1, <1>2, <1>3, <1>5, MoveUpdate DEF ti
<1>7. tunnels'[k].dead_remotes[r].join_handle = next
  BY <1>5, <1>6
<1>. QED
  BY <1>2, <1>3, <1>6, <1>7 DEF k, r, ti

\* The administrator adds a remote the tunnel does not have.
LEMMA AddRemoteMove ==
  ASSUME TypeInv, NEW k \in Keys, NEW r \in Remotes, AddRemote(k, r)
  PROVE  LET ti == tunnels[k]
         IN /\ MoveStep(k, r, DOMAIN ti.remotes \cup {r}, DOMAIN ti.dead_remotes)
            /\ r \notin Members(ti)
            /\ UNCHANGED checks
<1>. DEFINE ti == tunnels[k]
<1>1. TunnelsOK
  BY TypeInvParts
<1>2. /\ k \in DOMAIN tunnels
      /\ r \notin Members(ti)
      /\ tunnels' = [tunnels EXCEPT ![k] = add_remote(ti, r)]
      /\ UNCHANGED checks
  BY DEF AddRemote, IsOpen, Update, may_add, Members
<1>3. IsInfo(ti)
  BY <1>1, <1>2 DEF TunnelsOK
<1>. HIDE DEF ti
<1>4. MovesTo(ti, add_remote(ti, r), r,
              DOMAIN ti.remotes \cup {r}, DOMAIN ti.dead_remotes)
  BY <1>3, AddFacts
<1>5. MoveStep(k, r, DOMAIN ti.remotes \cup {r}, DOMAIN ti.dead_remotes)
  BY <1>1, <1>2, <1>4, MoveUpdate DEF ti
<1>. QED
  BY <1>2, <1>5 DEF ti

\* The administrator removes a remote the tunnel has.
LEMMA RemoveRemoteMove ==
  ASSUME TypeInv, NEW k \in Keys, NEW r, RemoveRemote(k, r)
  PROVE  LET ti == tunnels[k]
         IN /\ \E live \in SUBSET DOMAIN ti.remotes,
                  dead \in SUBSET DOMAIN ti.dead_remotes :
                 /\ MoveStep(k, r, live, dead)
                 /\ r \in dead => tunnels'[k].dead_remotes = ti.dead_remotes
            /\ UNCHANGED checks
<1>. DEFINE ti == tunnels[k]
            new == remove_remote(ti, r)
<1>1. TunnelsOK
  BY TypeInvParts
<1>2. /\ k \in DOMAIN tunnels
      /\ tunnels' = [tunnels EXCEPT ![k] = new]
      /\ UNCHANGED checks
  BY DEF RemoveRemote, IsOpen, Update
<1>3. IsInfo(ti)
  BY <1>1, <1>2 DEF TunnelsOK
<1>4. \E live \in SUBSET DOMAIN ti.remotes,
         dead \in SUBSET DOMAIN ti.dead_remotes :
           /\ MovesTo(ti, new, r, live, dead)
           /\ r \in dead => new.dead_remotes = ti.dead_remotes
  <2>. HIDE DEF ti
  <2>1. CASE r \in DOMAIN ti.remotes
    BY <1>3, <2>1, RemoveFacts
  <2>2. CASE r \notin DOMAIN ti.remotes
    <3>. DEFINE dead == DOMAIN ti.dead_remotes \ {r}
    <3>1. MovesTo(ti, new, r, DOMAIN ti.remotes, dead)
      BY <1>3, <2>2, RemoveFacts, Zenon
    <3>2. dead \in SUBSET DOMAIN ti.dead_remotes /\ r \notin dead
      OBVIOUS
    <3>. HIDE DEF dead, new
    <3>. QED
      BY <3>1, <3>2
  <2>. QED
    BY <2>1, <2>2
<1>. HIDE DEF ti, new
<1>5. PICK live \in SUBSET DOMAIN ti.remotes,
           dead \in SUBSET DOMAIN ti.dead_remotes :
           /\ MovesTo(ti, new, r, live, dead)
           /\ r \in dead => new.dead_remotes = ti.dead_remotes
  BY <1>4
<1>6. MoveStep(k, r, live, dead) /\ tunnels'[k] = new
  BY <1>1, <1>2, <1>5, MoveUpdate DEF ti
<1>. QED
  BY <1>2, <1>5, <1>6 DEF ti

-----------------------------------------------------------------------------
(* Types.                                                                   *)

\* A step that only counts, or that moves a remote, keeps the registry's type.
LEMMA RegistryType ==
  ASSUME TunnelsOK,
         \/ CountingStep
         \/ \E k, r, live, dead : MoveStep(k, r, live, dead)
  PROVE  TunnelsOK'
BY DEF TunnelsOK, CountingStep, SamePlaces, MoveStep, MovesTo

\* A step of one connection's task that leaves it well typed keeps the type
\* of all.
LEMMA ConnUpdate ==
  ASSUME TypeInv, NEW c \in Conns, NEW conn, ConnOK(conn),
         conns' = [conns EXCEPT ![c] = conn]
  PROVE  /\ conns' \in [Conns -> Conn]
         /\ \A d \in Conns : ConnOK(conns'[d])
BY TypeInvParts DEF ConnOK

\* An idle connection slot is well typed.
LEMMA IdleConnOK == ConnOK(IdleConn)
BY DEF ConnOK, IdleConn, Conn, ConnPcs

\* The task goes on after a failed attempt, or is dead: well typed.
LEMMA AfterErrorOK ==
  ASSUME TypeInv, NEW c \in Conns, conns[c].pc = "connecting"
  PROVE  ConnOK(AfterError(c))
<1>. DEFINE n == conns[c].retries - 1
            next == [conns[c] EXCEPT !.pc = "select", !.retries = n,
                             !.remote = NoRemote, !.errors_till_dead = 0]
<1>1. ConnOK(conns[c])
  BY TypeInvParts
<1>2. n \in Nat
  BY <1>1 DEF ConnOK, Conn
<1>3. AfterError(c) = IdleConn \/ AfterError(c) = next
  BY DEF AfterError
<1>. HIDE DEF n
<1>4. next \in Conn /\ next.pc = "select" /\ next.key = conns[c].key
  BY <1>1, <1>2 DEF ConnOK, Conn, ConnPcs
<1>5. ConnOK(next)
  BY <1>1, <1>4 DEF ConnOK
<1>. QED
  BY <1>3, <1>5, IdleConnOK

\* Every step keeps the types of the connections.
LEMMA ConnsType ==
  ASSUME TypeInv, [Next]_vars
  PROVE  /\ conns' \in [Conns -> Conn]
         /\ \A c \in Conns : ConnOK(conns'[c])
<1>. DEFINE Goal == /\ conns' \in [Conns -> Conn]
                    /\ \A c \in Conns : ConnOK(conns'[c])
<1>1. ASSUME UNCHANGED conns PROVE Goal
  BY <1>1, TypeInvParts
<1>2. \A c \in Conns : ConnOK(conns[c])
  BY TypeInvParts
<1>3. ASSUME NEW k \in Keys, NEW c \in Conns, Accept(k, c) PROVE Goal
  <2>. DEFINE conn == [IdleConn EXCEPT !.pc = "accepted", !.key = k,
                                      !.channel = listener[k]]
  <2>1. listener[k] \in 0 .. MaxOpens
    BY TypeInvParts
  <2>2. ConnOK(conn)
    BY <2>1 DEF ConnOK, IdleConn, Conn, ConnPcs
  <2>3. conns' = [conns EXCEPT ![c] = conn]
    BY <1>3 DEF Accept
  <2>. QED
    BY <2>2, <2>3, ConnUpdate
<1>4. ASSUME NEW c \in Conns, ClientConnected(c) PROVE Goal
  <2>1. ConnOK([conns[c] EXCEPT !.pc = "counted"])
    BY <1>2, <1>4 DEF ClientConnected, ConnOK, Conn, ConnPcs
  <2>2. conns' = [conns EXCEPT ![c] = [conns[c] EXCEPT !.pc = "counted"]]
    BY <1>4 DEF ClientConnected
  <2>. QED
    BY <2>1, <2>2, ConnUpdate
<1>5. ASSUME NEW c \in Conns, ReadRetries(c) PROVE Goal
  <2>. DEFINE k == conns[c].key
              n == tunnels[k].options.remote_connect_retries
              conn == [conns[c] EXCEPT !.pc = "select", !.retries = n]
  <2>1. conns' = [conns EXCEPT ![c] = IF IsOpen(k) THEN conn ELSE IdleConn]
    BY <1>5 DEF ReadRetries
  <2>2. CASE IsOpen(k)
    <3>1. tunnels[k].options \in Options
      BY <2>2, TypeInvParts DEF IsOpen, TunnelsOK, IsInfo, Info
    <3>2. n \in Nat
      BY <3>1
    <3>. HIDE DEF n
    <3>. conns[c] \in Conn
      BY TypeInvParts
    <3>3. conn \in Conn /\ conn.pc = "select" /\ conn.key = conns[c].key
      BY <3>2 DEF Conn, ConnPcs
    <3>4. conns[c].pc # "idle"
      BY <1>5 DEF ReadRetries
    <3>5. ConnOK(conn)
      BY <1>2, <3>3, <3>4 DEF ConnOK
    <3>. QED
      BY <2>1, <2>2, <3>5, ConnUpdate
  <2>3. CASE ~ IsOpen(k)
    BY <2>1, <2>3, IdleConnOK, ConnUpdate
  <2>. QED
    BY <2>2, <2>3
<1>6. ASSUME NEW c \in Conns, SelectRemote(c) PROVE Goal
  <2>. DEFINE k == conns[c].key
              n == tunnels[k].options.errors_till_dead
  <2>1. PICK r \in DOMAIN tunnels[k].remotes :
          conns' = [conns EXCEPT ![c] = AfterSelect(c, r)]
    BY <1>6 DEF SelectRemote
  <2>2. /\ tunnels[k].options \in Options
        /\ r \in Remotes
    BY <1>6, <2>1, TypeInvParts DEF SelectRemote, IsOpen, TunnelsOK, IsInfo, Info
  <2>3. n \in Nat
    BY <2>2
  <2>. DEFINE conn == [conns[c] EXCEPT !.pc = "connecting", !.remote = r,
                                      !.errors_till_dead = n]
  <2>7. AfterSelect(c, r) = IdleConn \/ AfterSelect(c, r) = conn
    BY DEF AfterSelect
  <2>. HIDE DEF n
  <2>. conns[c] \in Conn
    BY TypeInvParts
  <2>4. /\ conn \in Conn
        /\ conn.pc = "connecting"
        /\ conn.key = conns[c].key
        /\ conn.remote = r
        /\ conn.retries = conns[c].retries
    BY <2>2, <2>3 DEF Conn, ConnPcs
  <2>5. conns[c].pc # "idle" /\ conns[c].retries > 0
    BY <1>6 DEF SelectRemote
  <2>6. ConnOK(conn)
    BY <1>2, <2>2, <2>4, <2>5 DEF ConnOK
  <2>8. ConnOK(AfterSelect(c, r))
    BY <2>6, <2>7, IdleConnOK
  <2>. QED
    BY <2>1, <2>8, ConnUpdate
<1>7. ASSUME NEW c \in Conns, GiveUp(c) \/ CopyDone(c) \/ CopyFinished(c)
      PROVE  Goal
  <2>1. ConnOK([conns[c] EXCEPT !.pc = "closing"])
    BY <1>2, <1>7 DEF GiveUp, CopyDone, CopyFinished, ConnOK, Conn, ConnPcs
  <2>2. conns' = [conns EXCEPT ![c] = [conns[c] EXCEPT !.pc = "closing"]]
    BY <1>7 DEF GiveUp, CopyDone, CopyFinished
  <2>. QED
    BY <2>1, <2>2, ConnUpdate
<1>8. ASSUME NEW c \in Conns, RemoteConnected(c) PROVE Goal
  <2>. DEFINE conn == [conns[c] EXCEPT !.pc = "copying"]
  <2>1. ConnOK(conn)
    BY <1>2, <1>8 DEF RemoteConnected, ConnOK, Conn, ConnPcs
  <2>2. \/ conns' = [conns EXCEPT ![c] = IdleConn]
        \/ conns' = [conns EXCEPT ![c] = conn]
    BY <1>8 DEF RemoteConnected
  <2>. QED
    BY <2>1, <2>2, IdleConnOK, ConnUpdate
<1>9. ASSUME NEW c \in Conns, RemoteError(c) \/ RemoteDied(c) PROVE Goal
  <2>1. conns[c].pc = "connecting"
    BY <1>9 DEF RemoteError, RemoteDied
  <2>2. conns' = [conns EXCEPT ![c] = AfterError(c)]
    BY <1>9 DEF RemoteError, RemoteDied
  <2>. QED
    BY <2>1, <2>2, AfterErrorOK, ConnUpdate
<1>10. ASSUME NEW c \in Conns, ClientDisconnected(c) PROVE Goal
  <2>1. conns' = [conns EXCEPT ![c] = IdleConn]
    BY <1>10 DEF ClientDisconnected
  <2>. QED
    BY <2>1, IdleConnOK, ConnUpdate
<1>. QED
  BY <1>1, <1>3, <1>4, <1>5, <1>6, <1>7, <1>8, <1>9, <1>10
     DEF Next, AdminStep, OpenTunnel, CloseTunnel, AddRemote, RemoveRemote,
         ListenerStep, StopListening, ConnStep, ConnTask, CheckStep, CheckTask,
         ProbeAnswered, ProbeFailed, Revive, CheckAgain, vars

\* Every step keeps the types of the checks.
LEMMA ChecksType ==
  ASSUME TypeInv, [Next]_vars
  PROVE  checks' \in [CheckIds -> Check]
<1>. DEFINE Goal == checks' \in [CheckIds -> Check]
<1>1. checks \in [CheckIds -> Check]
  BY TypeInvParts
<1>2. FreeCheck \in Check
  BY DEF FreeCheck, Check, CheckPcs
<1>3. ASSUME NEW k \in Keys, CloseTunnel(k) PROVE Goal
  BY <1>1, <1>2, <1>3 DEF CloseTunnel
<1>4. ASSUME NEW c \in Conns, RemoteDied(c) PROVE Goal
  <2>. DEFINE k == conns[c].key
              r == conns[c].remote
  <2>1. k \in Keys /\ r \in Remotes
    BY <1>4, TypeInvParts DEF RemoteDied, ConnOK
  <2>2. WaitingCheck(k, r) \in Check
    BY <2>1 DEF WaitingCheck, Check, CheckPcs
  <2>3. PICK id \in CheckIds : checks' = [checks EXCEPT ![id] = WaitingCheck(k, r)]
    BY <1>4 DEF RemoteDied
  <2>. QED
    BY <1>1, <2>2, <2>3
<1>5. ASSUME NEW id \in CheckIds, ProbeAnswered(id) \/ ProbeFailed(id) PROVE Goal
  BY <1>1, <1>5 DEF ProbeAnswered, ProbeFailed, Check, CheckPcs
<1>6. ASSUME NEW id \in CheckIds, Revive(id) PROVE Goal
  BY <1>1, <1>2, <1>6 DEF Revive
<1>7. ASSUME NEW id \in CheckIds, CheckAgain(id) PROVE Goal
  <2>. DEFINE k == checks[id].key
              r == checks[id].remote
  <2>1. CASE checks' = [checks EXCEPT ![id] = FreeCheck]
    BY <1>1, <1>2, <2>1
  <2>2. CASE \E next \in CheckIds :
               checks' = [checks EXCEPT ![id] = FreeCheck,
                                        ![next] = WaitingCheck(k, r)]
    <3>1. WaitingCheck(k, r) \in Check
      BY <1>1 DEF WaitingCheck, Check, CheckPcs
    <3>. QED
      BY <1>1, <1>2, <2>2, <3>1
  <2>. QED
    BY <1>7, <2>1, <2>2 DEF CheckAgain
<1>. QED
  BY <1>1, <1>3, <1>4, <1>5, <1>6, <1>7
     DEF Next, AdminStep, OpenTunnel, AddRemote, RemoveRemote,
         ListenerStep, Accept, StopListening, ConnStep, ConnTask,
         ClientConnected, ReadRetries, SelectRemote, GiveUp, RemoteConnected,
         RemoteError, CopyDone, CopyFinished, ClientDisconnected,
         CheckStep, CheckTask, vars

-----------------------------------------------------------------------------
(* Every step, seen by what it does to the registry.                        *)

\* A new tunnel has its remotes in rotation and none dead.
OpenStep(k) ==
  /\ TunnelsOK'
  /\ k \notin DOMAIN tunnels
  /\ DOMAIN tunnels' = DOMAIN tunnels \cup {k}
  /\ DOMAIN tunnels'[k].dead_remotes = {}
  /\ \A j \in DOMAIN tunnels : tunnels'[j] = tunnels[j]
  /\ UNCHANGED checks

\* A tunnel goes, the others stay.
CloseStep(k) ==
  /\ TunnelsOK'
  /\ k \in DOMAIN tunnels
  /\ DOMAIN tunnels' = DOMAIN tunnels \ {k}
  /\ \A j \in DOMAIN tunnels : j # k => tunnels'[j] = tunnels[j]

\* OPEN makes such a tunnel.
LEMMA OpenTunnelStep ==
  ASSUME TypeInv, NEW k \in Keys, NEW remotes \in RemoteSets,
         NEW options \in Options, OpenTunnel(k, remotes, options)
  PROVE  OpenStep(k)
<1>. DEFINE new == NewTunnelInfo(opened + 1, remotes, options)
<1>1. TunnelsOK /\ opened \in 0 .. MaxOpens
  BY TypeInvParts
<1>2. /\ opened < MaxOpens
      /\ k \notin DOMAIN tunnels
      /\ tunnels' = Put(tunnels, k, new)
      /\ UNCHANGED checks
  BY DEF OpenTunnel, IsOpen
<1>3. opened + 1 \in Channels /\ remotes \in SUBSET Remotes
  BY <1>1, <1>2 DEF Channels
<1>4. IsInfo(new) /\ DOMAIN new.dead_remotes = {}
  BY <1>3, NewTunnelInfoFacts
<1>. HIDE DEF new
<1>5. /\ IsMap(tunnels', Keys)
      /\ DOMAIN tunnels' = DOMAIN tunnels \cup {k}
      /\ tunnels'[k] = new
      /\ \A j \in DOMAIN tunnels : tunnels'[j] = tunnels[j]
  BY <1>1, <1>2, MapFacts DEF TunnelsOK
<1>. QED
  BY <1>1, <1>2, <1>4, <1>5 DEF OpenStep, TunnelsOK

\* CLOSE takes such a tunnel away.
LEMMA CloseTunnelStep ==
  ASSUME TypeInv, NEW k \in Keys, CloseTunnel(k)
  PROVE  CloseStep(k)
<1>1. TunnelsOK
  BY TypeInvParts
<1>2. k \in DOMAIN tunnels /\ tunnels' = Drop(tunnels, k)
  BY DEF CloseTunnel, IsOpen
<1>3. /\ IsMap(Drop(tunnels, k), Keys)
      /\ DOMAIN Drop(tunnels, k) = DOMAIN tunnels \ {k}
      /\ \A j \in DOMAIN tunnels : j # k => Drop(tunnels, k)[j] = tunnels[j]
  <2>1. IsMap(tunnels, Keys)
    BY <1>1 DEF TunnelsOK
  <2>. QED
    BY <2>1, DropFacts
<1>. QED
  BY <1>1, <1>2, <1>3 DEF CloseStep, TunnelsOK

\* The end of a check whose remote is not dead any more changes no tunnel.
LEMMA LateCheck ==
  ASSUME TypeInv, NEW id \in CheckIds, Revive(id) \/ CheckAgain(id),
         ~ IsDead(checks[id].key, checks[id].remote)
  PROVE  CountingStep /\ checks' = [checks EXCEPT ![id] = FreeCheck]
<1>1. TunnelsOK
  BY TypeInvParts
<1>2. UNCHANGED tunnels /\ checks' = [checks EXCEPT ![id] = FreeCheck]
  BY DEF Revive, CheckAgain
<1>. QED
  BY <1>1, <1>2 DEF TunnelsOK, SamePlaces, CountingStep

\* Every step keeps the type of the registry.
LEMMA TunnelsType ==
  ASSUME TypeInv, [Next]_vars
  PROVE  TunnelsOK'
<1>1. TunnelsOK
  BY TypeInvParts
<1>2. ASSUME NEW k \in Keys, NEW remotes \in RemoteSets, NEW options \in Options,
             OpenTunnel(k, remotes, options)
      PROVE  TunnelsOK'
  BY <1>2, OpenTunnelStep DEF OpenStep
<1>3. ASSUME NEW k \in Keys, CloseTunnel(k) PROVE TunnelsOK'
  BY <1>3, CloseTunnelStep DEF CloseStep
<1>4. ASSUME NEW k \in Keys, NEW r \in Remotes, AddRemote(k, r) PROVE TunnelsOK'
  BY <1>1, <1>4, AddRemoteMove, RegistryType
<1>5. ASSUME NEW k \in Keys, NEW r \in Removable, RemoveRemote(k, r)
      PROVE  TunnelsOK'
  BY <1>1, <1>5, RemoveRemoteMove, RegistryType
<1>6. ASSUME NEW c \in Conns, RemoteDied(c) PROVE TunnelsOK'
  <2>1. \E k, r, live, dead : MoveStep(k, r, live, dead)
    BY <1>6, RemoteDiedMove, Zenon
  <2>. QED
    BY <1>1, <2>1, RegistryType
<1>7. ASSUME NEW id \in CheckIds, Revive(id) PROVE TunnelsOK'
  BY <1>1, <1>7, ReviveMove, LateCheck, RegistryType
<1>8. ASSUME NEW id \in CheckIds, CheckAgain(id) PROVE TunnelsOK'
  BY <1>1, <1>8, CheckAgainMove, LateCheck, RegistryType
<1>9. CASE CountingStep
  BY <1>1, <1>9, RegistryType
<1>. QED
  BY <1>2, <1>3, <1>4, <1>5, <1>6, <1>7, <1>8, <1>9, CountingSteps
     DEF Next, AdminStep, ConnStep, ConnTask, CheckStep, CheckTask

\* The initial state is well typed.
LEMMA InitType == Init => TypeInv
<1>. SUFFICES ASSUME Init PROVE TypeInv
  OBVIOUS
<1>1. TunnelsOK
  BY DEF Init, TunnelsOK, IsMap
<1>2. listener \in [Keys -> 0 .. MaxOpens] /\ opened \in 0 .. MaxOpens
  BY DEF Init
<1>3. conns \in [Conns -> Conn] /\ \A c \in Conns : ConnOK(conns[c])
  BY IdleConnOK DEF Init, ConnOK
<1>4. checks \in [CheckIds -> Check]
  BY DEF Init, FreeCheck, Check, CheckPcs
<1>. QED
  BY <1>1, <1>2, <1>3, <1>4, TypeInvParts

\* TypeInv is inductive.
LEMMA TypeInvStep == TypeInv /\ [Next]_vars => TypeInv'
<1>. SUFFICES ASSUME TypeInv, [Next]_vars PROVE TypeInv'
  OBVIOUS
<1>1. /\ listener \in [Keys -> 0 .. MaxOpens]
      /\ opened \in 0 .. MaxOpens
  BY TypeInvParts
<1>2. /\ listener' \in [Keys -> 0 .. MaxOpens]
      /\ opened' \in 0 .. MaxOpens
  <2>1. ASSUME NEW k \in Keys, NEW remotes, NEW options,
               OpenTunnel(k, remotes, options)
        PROVE  /\ listener' \in [Keys -> 0 .. MaxOpens]
               /\ opened' \in 0 .. MaxOpens
    BY <1>1, <2>1 DEF OpenTunnel
  <2>2. ASSUME NEW k \in Keys, StopListening(k)
        PROVE  /\ listener' \in [Keys -> 0 .. MaxOpens]
               /\ opened' \in 0 .. MaxOpens
    BY <1>1, <2>2 DEF StopListening
  <2>3. CASE UNCHANGED <<listener, opened>>
    BY <1>1, <2>3
  <2>. QED
    BY <2>1, <2>2, <2>3
       DEF Next, AdminStep, CloseTunnel, AddRemote, RemoveRemote,
           ListenerStep, Accept, ConnStep, ConnTask, ClientConnected,
           ReadRetries, SelectRemote, GiveUp, RemoteConnected, RemoteError,
           RemoteDied, CopyDone, CopyFinished, ClientDisconnected, CheckStep,
           CheckTask, ProbeAnswered, ProbeFailed, Revive, CheckAgain, vars
<1>3. /\ TunnelsOK'
      /\ conns' \in [Conns -> Conn]
      /\ \A c \in Conns : ConnOK(conns'[c])
      /\ checks' \in [CheckIds -> Check]
  BY TunnelsType, ConnsType, ChecksType
<1>. QED
  BY <1>2, <1>3
     DEF TypeInv, TypeOK, ConnectingHasRetries, TunnelsOK, ConnOK

\* Every variable keeps its type: in particular a usize that underflows stays
\* a usize, and a connection attempt is never made without a retry left.
THEOREM TypeCorrect == Spec => []TypeOK
<1>1. TypeInv => TypeOK
  BY DEF TypeInv
<1>. QED
  BY <1>1, InitType, TypeInvStep, PTL DEF Spec

-----------------------------------------------------------------------------
(* A remote is in one place.                                                *)

\* No step puts a remote in rotation while it is dead, or the other way.
LEMMA DisjointStep ==
  ASSUME TypeInv, LiveDeadDisjoint, [Next]_vars
  PROVE  LiveDeadDisjoint'
<1>1. CASE CountingStep
  BY <1>1 DEF CountingStep, SamePlaces, LiveDeadDisjoint
<1>2. ASSUME NEW k, OpenStep(k) \/ CloseStep(k) PROVE LiveDeadDisjoint'
  BY <1>2 DEF OpenStep, CloseStep, LiveDeadDisjoint
<1>3. ASSUME NEW k, NEW r, NEW live, NEW dead, MoveStep(k, r, live, dead),
             live \cap dead = {}
      PROVE  LiveDeadDisjoint'
  BY <1>3 DEF MoveStep, MovesTo, LiveDeadDisjoint
<1>4. \A k \in DOMAIN tunnels :
        DOMAIN tunnels[k].remotes \cap DOMAIN tunnels[k].dead_remotes = {}
  BY DEF LiveDeadDisjoint
<1>5. ASSUME NEW k \in Keys, NEW r \in Remotes, AddRemote(k, r)
      PROVE  LiveDeadDisjoint'
  <2>. DEFINE live == DOMAIN tunnels[k].remotes \cup {r}
              dead == DOMAIN tunnels[k].dead_remotes
  <2>1. MoveStep(k, r, live, dead) /\ r \notin dead
    BY <1>5, AddRemoteMove DEF Members
  <2>2. live \cap dead = {}
    BY <1>4, <2>1 DEF MoveStep
  <2>. QED
    BY <1>3, <2>1, <2>2
<1>6. ASSUME NEW k \in Keys, NEW r \in Removable, RemoveRemote(k, r)
      PROVE  LiveDeadDisjoint'
  <2>1. PICK live \in SUBSET DOMAIN tunnels[k].remotes,
             dead \in SUBSET DOMAIN tunnels[k].dead_remotes :
               MoveStep(k, r, live, dead)
    BY <1>6, RemoveRemoteMove
  <2>2. live \cap dead = {}
    BY <1>4, <2>1 DEF MoveStep
  <2>. QED
    BY <1>3, <2>1, <2>2
<1>7. ASSUME NEW c \in Conns, RemoteDied(c) PROVE LiveDeadDisjoint'
  <2>. DEFINE k == conns[c].key
              r == conns[c].remote
              live == DOMAIN tunnels[k].remotes \ {r}
              dead == DOMAIN tunnels[k].dead_remotes \cup {r}
  <2>1. MoveStep(k, r, live, dead)
    BY <1>7, RemoteDiedMove, Zenon
  <2>2. live \cap dead = {}
    BY <1>4, <2>1 DEF MoveStep
  <2>. QED
    BY <1>3, <2>1, <2>2
<1>8. ASSUME NEW id \in CheckIds, Revive(id),
             IsDead(checks[id].key, checks[id].remote)
      PROVE  LiveDeadDisjoint'
  <2>. DEFINE k == checks[id].key
              r == checks[id].remote
              live == DOMAIN tunnels[k].remotes \cup {r}
              dead == DOMAIN tunnels[k].dead_remotes \ {r}
  <2>1. MoveStep(k, r, live, dead)
    BY <1>8, ReviveMove, Zenon
  <2>2. live \cap dead = {}
    BY <1>4, <2>1 DEF MoveStep
  <2>. QED
    BY <1>3, <2>1, <2>2
<1>9. ASSUME NEW id \in CheckIds, CheckAgain(id),
             IsDead(checks[id].key, checks[id].remote)
      PROVE  LiveDeadDisjoint'
  <2>. DEFINE k == checks[id].key
              r == checks[id].remote
              live == DOMAIN tunnels[k].remotes
              dead == DOMAIN tunnels[k].dead_remotes
  <2>1. MoveStep(k, r, live, dead)
    BY <1>9, CheckAgainMove, Zenon
  <2>2. live \cap dead = {}
    BY <1>4, <2>1 DEF MoveStep
  <2>. QED
    BY <1>3, <2>1, <2>2
<1>10. ASSUME NEW k \in Keys, NEW remotes \in RemoteSets, NEW options \in Options,
              OpenTunnel(k, remotes, options)
       PROVE  LiveDeadDisjoint'
  BY <1>2, <1>10, OpenTunnelStep
<1>11. ASSUME NEW k \in Keys, CloseTunnel(k) PROVE LiveDeadDisjoint'
  BY <1>2, <1>11, CloseTunnelStep
<1>12. ASSUME NEW id \in CheckIds, Revive(id) \/ CheckAgain(id)
       PROVE  LiveDeadDisjoint'
  BY <1>1, <1>8, <1>9, <1>12, LateCheck
<1>. QED
  BY <1>1, <1>5, <1>6, <1>7, <1>10, <1>11, <1>12, CountingSteps
     DEF Next, AdminStep, ConnStep, ConnTask, CheckStep, CheckTask

\* A remote is never both in rotation and dead, whatever errors, checks and
\* commands of different tasks interleave.
THEOREM PlacesDisjoint == Spec => []LiveDeadDisjoint
<1>1. Init => LiveDeadDisjoint
  BY DEF Init, LiveDeadDisjoint
<1>2. TypeInv /\ LiveDeadDisjoint /\ [Next]_vars => (TypeInv /\ LiveDeadDisjoint)'
  BY TypeInvStep, DisjointStep
<1>. QED
  BY <1>1, <1>2, InitType, PTL DEF Spec

-----------------------------------------------------------------------------
(* A dead remote is checked.                                                *)

\* Remote r of tunnel k is dead and id is its join_handle.
HasHandle(k, r, id) ==
  /\ k \in DOMAIN tunnels
  /\ r \in DOMAIN tunnels[k].dead_remotes
  /\ tunnels[k].dead_remotes[r].join_handle = id

\* id is a running check of remote r of tunnel k.
Checks(id, k, r) ==
  /\ id \in CheckIds
  /\ checks[id].pc # "free"
  /\ checks[id].key = k
  /\ checks[id].remote = r

\* DeadIsChecked, dead remote by dead remote.
LEMMA CheckedEntries ==
  ASSUME TunnelsOK, DeadIsChecked, NEW k, NEW r, NEW id, HasHandle(k, r, id)
  PROVE  Checks(id, k, r)
<1>1. id \in CheckIds
  BY DEF TunnelsOK, IsInfo, Info, DeadRemote, HasHandle
<1>. QED
  BY <1>1 DEF DeadIsChecked, Checks, HasHandle

\* DeadIsChecked after a step, when every dead remote has its check then.
LEMMA CheckedAfter ==
  ASSUME \A k, r, id : HasHandle(k, r, id)' => Checks(id, k, r)'
  PROVE  DeadIsChecked'
BY DEF DeadIsChecked, Checks, HasHandle

\* After a step that makes no remote dead but r of tunnel k, every dead remote
\* is checked if r is and the checks of the others still run.
LEMMA CheckedAfterMove ==
  ASSUME TypeInv, DeadIsChecked,
         NEW k, NEW r, NEW live, NEW dead, MoveStep(k, r, live, dead),
         \A id : HasHandle(k, r, id)' => Checks(id, k, r)',
         \A id, j, q : /\ j # k \/ q # r
                       /\ Checks(id, j, q)
                       => Checks(id, j, q)'
  PROVE  DeadIsChecked'
<1>1. TunnelsOK
  BY TypeInvParts
<1>2. ASSUME NEW j, NEW q, NEW id, HasHandle(j, q, id)'
      PROVE  Checks(id, j, q)'
  <2>1. CASE j = k /\ q = r
    BY <1>2, <2>1
  <2>2. CASE j # k \/ q # r
    <3>1. HasHandle(j, q, id)
      BY <1>2, <2>2 DEF MoveStep, MovesTo, HasHandle
    <3>2. Checks(id, j, q)
      BY <1>1, <3>1, CheckedEntries
    <3>. QED
      BY <2>2, <3>2
  <2>. QED
    BY <2>1, <2>2
<1>. QED
  BY <1>2, CheckedAfter

\* After a step that makes no remote dead, every dead remote is checked if the
\* checks of those that are left still run.
LEMMA CheckedAfterNoMove ==
  ASSUME TypeInv, DeadIsChecked,
         \A k, r, id : HasHandle(k, r, id)' =>
           /\ HasHandle(k, r, id)
           /\ Checks(id, k, r) => Checks(id, k, r)'
  PROVE  DeadIsChecked'
<1>1. TunnelsOK
  BY TypeInvParts
<1>2. ASSUME NEW k, NEW r, NEW id, HasHandle(k, r, id)'
      PROVE  Checks(id, k, r)'
  <2>1. Checks(id, k, r)
    BY <1>1, <1>2, CheckedEntries
  <2>. QED
    BY <1>2, <2>1
<1>. QED
  BY <1>2, CheckedAfter

\* No step leaves a dead remote without a check.
LEMMA CheckedStep ==
  ASSUME TypeInv, DeadIsChecked, [Next]_vars
  PROVE  DeadIsChecked'
<1>0. TunnelsOK /\ checks \in [CheckIds -> Check]
  BY TypeInvParts
<1>1. ASSUME CountingStep,
             \A k, r, id : /\ HasHandle(k, r, id)
                           /\ Checks(id, k, r)
                           => Checks(id, k, r)'
      PROVE  DeadIsChecked'
  <2>1. \A k, r, id : HasHandle(k, r, id)' => HasHandle(k, r, id)
    BY <1>1 DEF CountingStep, SamePlaces, HasHandle
  <2>. QED
    BY <1>1, <2>1, CheckedAfterNoMove
<1>2. ASSUME CountingStep, UNCHANGED checks PROVE DeadIsChecked'
  BY <1>1, <1>2 DEF Checks
<1>3. ASSUME NEW id \in CheckIds, ProbeAnswered(id) \/ ProbeFailed(id)
      PROVE  DeadIsChecked'
  <2>1. CountingStep
    BY <1>3, CountingSteps
  <2>2. \A j, k, r : Checks(j, k, r) => Checks(j, k, r)'
    BY <1>0, <1>3 DEF ProbeAnswered, ProbeFailed, Checks, Check
  <2>. QED
    BY <1>1, <2>1, <2>2
<1>4. ASSUME NEW id \in CheckIds, Revive(id) \/ CheckAgain(id),
             ~ IsDead(checks[id].key, checks[id].remote)
      PROVE  DeadIsChecked'
  <2>1. CountingStep /\ checks' = [checks EXCEPT ![id] = FreeCheck]
    BY <1>4, LateCheck
  <2>2. \A k, r, j : HasHandle(k, r, j) /\ Checks(j, k, r) => Checks(j, k, r)'
    BY <1>0, <1>4, <2>1 DEF HasHandle, Checks, IsDead, IsOpen
  <2>. QED
    BY <1>1, <2>1, <2>2
<1>5. ASSUME NEW k \in Keys, NEW remotes \in RemoteSets, NEW options \in Options,
             OpenTunnel(k, remotes, options)
      PROVE  DeadIsChecked'
  <2>1. OpenStep(k)
    BY <1>5, OpenTunnelStep
  <2>2. \A id, j, r : Checks(id, j, r) => Checks(id, j, r)'
    BY <2>1 DEF OpenStep, Checks
  <2>3. \A j, r, id : HasHandle(j, r, id)' => HasHandle(j, r, id)
    BY <2>1 DEF OpenStep, HasHandle
  <2>. QED
    BY <2>2, <2>3, CheckedAfterNoMove
<1>6. ASSUME NEW k \in Keys, CloseTunnel(k) PROVE DeadIsChecked'
  <2>. DEFINE handles == {tunnels[k].dead_remotes[r].join_handle :
                           r \in DOMAIN tunnels[k].dead_remotes}
  <2>1. CloseStep(k)
    BY <1>6, CloseTunnelStep
  <2>2. checks' = [id \in CheckIds |->
                     IF id \in handles /\ checks[id].pc = "waiting"
                     THEN FreeCheck ELSE checks[id]]
    BY <1>6 DEF CloseTunnel
  <2>3. ASSUME NEW id \in handles PROVE checks[id].key = k
    <3>1. PICK r : HasHandle(k, r, id)
      BY <2>1 DEF CloseStep, HasHandle
    <3>. QED
      BY <1>0, <3>1, CheckedEntries DEF Checks
  <2>. HIDE DEF handles
  <2>4. \A id, j, r : j # k /\ Checks(id, j, r) => Checks(id, j, r)'
    BY <2>2, <2>3 DEF Checks
  <2>5. \A j, r, id : HasHandle(j, r, id)' => j # k /\ HasHandle(j, r, id)
    BY <2>1 DEF CloseStep, HasHandle
  <2>. QED
    BY <2>4, <2>5, CheckedAfterNoMove
<1>7. ASSUME NEW k \in Keys, NEW r \in Remotes, AddRemote(k, r)
      PROVE  DeadIsChecked'
  <2>1. /\ MoveStep(k, r, DOMAIN tunnels[k].remotes \cup {r},
                    DOMAIN tunnels[k].dead_remotes)
        /\ r \notin DOMAIN tunnels[k].dead_remotes
        /\ UNCHANGED checks
    BY <1>7, AddRemoteMove DEF Members
  <2>2. \A id, j, q : Checks(id, j, q) => Checks(id, j, q)'
    BY <2>1 DEF Checks
  <2>3. \A id : ~ HasHandle(k, r, id)'
    BY <2>1 DEF MoveStep, MovesTo, HasHandle
  <2>. QED
    BY <2>1, <2>2, <2>3, CheckedAfterMove
<1>8. ASSUME NEW k \in Keys, NEW r \in Removable, RemoveRemote(k, r)
      PROVE  DeadIsChecked'
  <2>1. PICK live \in SUBSET DOMAIN tunnels[k].remotes,
             dead \in SUBSET DOMAIN tunnels[k].dead_remotes :
          /\ MoveStep(k, r, live, dead)
          /\ r \in dead => tunnels'[k].dead_remotes = tunnels[k].dead_remotes
          /\ UNCHANGED checks
    BY <1>8, RemoveRemoteMove
  <2>2. \A id, j, q : Checks(id, j, q) => Checks(id, j, q)'
    BY <2>1 DEF Checks
  <2>3. ASSUME NEW id, HasHandle(k, r, id)' PROVE Checks(id, k, r)'
    <3>1. HasHandle(k, r, id)
      BY <2>1, <2>3 DEF MoveStep, MovesTo, HasHandle
    <3>2. Checks(id, k, r)
      BY <1>0, <3>1, CheckedEntries
    <3>. QED
      BY <2>2, <3>2
  <2>. QED
    BY <2>1, <2>2, <2>3, CheckedAfterMove
<1>9. ASSUME NEW c \in Conns, RemoteDied(c) PROVE DeadIsChecked'
  <2>1. PICK k, r, live, dead, id :
          /\ MoveStep(k, r, live, dead)
          /\ id \in FreeChecks
          /\ tunnels'[k].dead_remotes[r].join_handle = id
          /\ checks' = [checks EXCEPT ![id] = WaitingCheck(k, r)]
    BY <1>9, RemoteDiedMove, Zenon
  <2>2. id \in CheckIds /\ checks[id].pc = "free"
    BY <2>1 DEF FreeChecks
  <2>3. checks'[id] = WaitingCheck(k, r)
    BY <1>0, <2>1, <2>2
  <2>4. Checks(id, k, r)'
    BY <2>2, <2>3 DEF Checks, WaitingCheck
  <2>5. \A i, j, q : Checks(i, j, q) => Checks(i, j, q)'
    BY <1>0, <2>1, <2>2 DEF Checks
  <2>6. \A i : HasHandle(k, r, i)' => i = id
    BY <2>1 DEF HasHandle
  <2>. QED
    BY <2>1, <2>4, <2>5, <2>6, CheckedAfterMove
<1>10. ASSUME NEW id \in CheckIds, Revive(id),
              IsDead(checks[id].key, checks[id].remote)
       PROVE  DeadIsChecked'
  <2>1. PICK k, r, live, dead :
          /\ MoveStep(k, r, live, dead)
          /\ r \notin dead
          /\ checks[id].key = k
          /\ checks[id].remote = r
    <3>. DEFINE d == DOMAIN tunnels[checks[id].key].dead_remotes
                       \ {checks[id].remote}
    <3>1. checks[id].remote \notin d
      OBVIOUS
    <3>. QED
      BY <1>10, <3>1, ReviveMove, Zenon
  <2>2. checks' = [checks EXCEPT ![id] = FreeCheck]
    BY <1>10 DEF Revive
  <2>3. \A i, j, q : (j # k \/ q # r) /\ Checks(i, j, q) => Checks(i, j, q)'
    BY <1>0, <2>1, <2>2 DEF Checks
  <2>4. \A i : ~ HasHandle(k, r, i)'
    BY <2>1 DEF MoveStep, MovesTo, HasHandle
  <2>. QED
    BY <2>1, <2>3, <2>4, CheckedAfterMove
<1>11. ASSUME NEW id \in CheckIds, CheckAgain(id),
              IsDead(checks[id].key, checks[id].remote)
       PROVE  DeadIsChecked'
  <2>1. PICK k, r, live, dead, next :
          /\ MoveStep(k, r, live, dead)
          /\ checks[id].key = k
          /\ checks[id].remote = r
          /\ next \in FreeChecks \cup {id}
          /\ tunnels'[k].dead_remotes[r].join_handle = next
          /\ checks' = [checks EXCEPT ![id] = FreeCheck,
                                      ![next] = WaitingCheck(k, r)]
    <3>1. PICK k, r : k = checks[id].key /\ r = checks[id].remote
      OBVIOUS
    <3>2. /\ MoveStep(k, r, DOMAIN tunnels[k].remotes,
                      DOMAIN tunnels[k].dead_remotes)
          /\ \E next \in FreeChecks \cup {id} :
               /\ tunnels'[k].dead_remotes[r].join_handle = next
               /\ checks' = [checks EXCEPT ![id] = FreeCheck,
                                           ![next] = WaitingCheck(k, r)]
      BY <1>11, <3>1, CheckAgainMove
    <3>. QED
      BY <3>1, <3>2, Zenon
  <2>2. /\ next \in CheckIds
        /\ next # id => checks[next].pc = "free"
    BY <2>1 DEF FreeChecks
  <2>3. /\ checks'[next] = WaitingCheck(k, r)
        /\ \A i \in CheckIds \ {id, next} : checks'[i] = checks[i]
    BY <1>0, <2>1, <2>2
  <2>4. Checks(next, k, r)'
    BY <2>2, <2>3 DEF Checks, WaitingCheck
  <2>5. \A i, j, q : (j # k \/ q # r) /\ Checks(i, j, q) => Checks(i, j, q)'
    BY <2>1, <2>2, <2>3 DEF Checks
  <2>6. \A i : HasHandle(k, r, i)' => i = next
    BY <2>1 DEF HasHandle
  <2>. QED
    BY <2>1, <2>4, <2>5, <2>6, CheckedAfterMove
<1>12. ASSUME NEW id \in CheckIds, Revive(id) \/ CheckAgain(id)
       PROVE  DeadIsChecked'
  BY <1>4, <1>10, <1>11, <1>12
<1>13. ASSUME \/ ListenerStep
              \/ \E c \in Conns : \/ ClientConnected(c)
                                  \/ ReadRetries(c)
                                  \/ SelectRemote(c)
                                  \/ GiveUp(c)
                                  \/ RemoteConnected(c)
                                  \/ RemoteError(c)
                                  \/ CopyDone(c)
                                  \/ CopyFinished(c)
                                  \/ ClientDisconnected(c)
              \/ UNCHANGED vars
       PROVE  DeadIsChecked'
  <2>1. CountingStep
    BY <1>13, CountingSteps
  <2>2. UNCHANGED checks
    BY <1>13 DEF ListenerStep, Accept, StopListening, ClientConnected,
       ReadRetries, SelectRemote, GiveUp, RemoteConnected, RemoteError,
       CopyDone, CopyFinished, ClientDisconnected, vars
  <2>. QED
    BY <1>2, <2>1, <2>2
<1>. QED
  BY <1>3, <1>5, <1>6, <1>7, <1>8, <1>9, <1>12, <1>13
     DEF Next, AdminStep, ConnStep, ConnTask, CheckStep, CheckTask

\* A dead remote is never forgotten: the check its join_handle names is
\* running and is a check of that remote, whatever is closed, opened again,
\* removed, added and answered late meanwhile.
THEOREM DeadRemotesChecked == Spec => []DeadIsChecked
<1>1. Init => DeadIsChecked
  BY DEF Init, DeadIsChecked
<1>2. TypeInv /\ DeadIsChecked /\ [Next]_vars => (TypeInv /\ DeadIsChecked)'
  BY TypeInvStep, CheckedStep
<1>. QED
  BY <1>1, <1>2, InitType, PTL DEF Spec

-----------------------------------------------------------------------------
(* Who changes the remotes of a tunnel.                                     *)

\* Errors, checks and traffic keep the remotes of every tunnel.
LEMMA MembersStep ==
  ASSUME TypeInv, ListenerStep \/ ConnStep \/ CheckStep
  PROVE  /\ DOMAIN tunnels' = DOMAIN tunnels
         /\ \A k \in DOMAIN tunnels : Members(tunnels'[k]) = Members(tunnels[k])
<1>. DEFINE Goal ==
       /\ DOMAIN tunnels' = DOMAIN tunnels
       /\ \A k \in DOMAIN tunnels : Members(tunnels'[k]) = Members(tunnels[k])
<1>1. CASE CountingStep
  BY <1>1 DEF CountingStep, SamePlaces, Members
<1>2. ASSUME NEW k, NEW r, NEW live, NEW dead, MoveStep(k, r, live, dead),
             live \cup dead = Members(tunnels[k])
      PROVE  Goal
  BY <1>2 DEF MoveStep, MovesTo, Members
<1>3. ASSUME NEW c \in Conns, RemoteDied(c) PROVE Goal
  <2>1. PICK k, r : k = conns[c].key /\ r = conns[c].remote
    OBVIOUS
  <2>. DEFINE live == DOMAIN tunnels[k].remotes \ {r}
              dead == DOMAIN tunnels[k].dead_remotes \cup {r}
  <2>2. MoveStep(k, r, live, dead) /\ r \in DOMAIN tunnels[k].remotes
    BY <1>3, <2>1, RemoteDiedMove, Zenon
  <2>3. live \cup dead = Members(tunnels[k])
    BY <2>2 DEF Members
  <2>. HIDE DEF live, dead
  <2>. QED
    BY <1>2, <2>2, <2>3
<1>4. ASSUME NEW id \in CheckIds, Revive(id),
             IsDead(checks[id].key, checks[id].remote)
      PROVE  Goal
  <2>1. PICK k, r : k = checks[id].key /\ r = checks[id].remote
    OBVIOUS
  <2>. DEFINE live == DOMAIN tunnels[k].remotes \cup {r}
              dead == DOMAIN tunnels[k].dead_remotes \ {r}
  <2>2. MoveStep(k, r, live, dead) /\ r \in DOMAIN tunnels[k].dead_remotes
    BY <1>4, <2>1, ReviveMove, Zenon
  <2>3. live \cup dead = Members(tunnels[k])
    BY <2>2 DEF Members
  <2>. HIDE DEF live, dead
  <2>. QED
    BY <1>2, <2>2, <2>3
<1>5. ASSUME NEW id \in CheckIds, CheckAgain(id),
             IsDead(checks[id].key, checks[id].remote)
      PROVE  Goal
  <2>1. PICK k, r : k = checks[id].key /\ r = checks[id].remote
    OBVIOUS
  <2>2. MoveStep(k, r, DOMAIN tunnels[k].remotes, DOMAIN tunnels[k].dead_remotes)
    BY <1>5, <2>1, CheckAgainMove
  <2>. QED
    BY <1>2, <2>2 DEF Members
<1>6. ASSUME NEW id \in CheckIds, Revive(id) \/ CheckAgain(id) PROVE Goal
  BY <1>1, <1>4, <1>5, <1>6, LateCheck
<1>. QED
  BY <1>1, <1>3, <1>6, CountingSteps DEF ConnStep, ConnTask, CheckStep, CheckTask

\* Only the administrator changes which remotes a tunnel has: an error or a
\* late check never adds a remote that was removed, nor loses one.
THEOREM MembersAreAdmins == Spec => OnlyAdminChangesMembers
<1>. DEFINE A == ListenerStep \/ ConnStep \/ CheckStep =>
                   /\ DOMAIN tunnels' = DOMAIN tunnels
                   /\ \A k \in DOMAIN tunnels :
                        Members(tunnels'[k]) = Members(tunnels[k])
<1>1. TypeInv /\ [Next]_vars => [A]_vars
  BY MembersStep
<1>2. Spec => []TypeInv
  BY InitType, TypeInvStep, PTL DEF Spec
<1>3. Spec => [][A]_vars
  <2>. HIDE DEF A
  <2>. QED BY <1>1, <1>2, PTL DEF Spec
<1>. QED
  BY <1>3 DEF OnlyAdminChangesMembers

-----------------------------------------------------------------------------
(* Errors decide where a remote is.                                         *)

\* A remote in rotation has not reached the threshold, a dead one has.
LiveFits(ri, threshold) == ri.num_errors = 0 \/ ri.num_errors < threshold

DeadFits(ri, threshold) == ri.num_errors >= threshold

ErrorsFit(ti, threshold) ==
  /\ \A r \in DOMAIN ti.remotes : LiveFits(ti.remotes[r], threshold)
  /\ \A r \in DOMAIN ti.dead_remotes :
       DeadFits(ti.dead_remotes[r].remote, threshold)

\* A tunnel whose remotes fit after a call.
FitsStill(old, new, threshold) ==
  /\ new.options = old.options
  /\ ErrorsFit(new, threshold)

\* What the methods of RemoteInfo do to the errors.
LEMMA ErrorFacts ==
  ASSUME NEW ri \in RemoteInfo, NEW t \in Nat, ~ OverflowChecks
  PROVE  /\ new_pending_stream(ri).num_errors = ri.num_errors
         /\ remote_connected(ri).num_errors = 0
         /\ error(ri).num_errors \in Nat
         /\ remote_recovered(ri).num_errors = 0
         /\ remote_disconnected(ri).num_errors = ri.num_errors
         /\ DeadFits(ri, t) => DeadFits(check_error(ri), t)
BY DEF RemoteInfo, ErrorCount, new_pending_stream, remote_connected, error,
   remote_recovered, remote_disconnected, check_error, SaturatedInc, DeadFits,
   Panics

\* A tunnel's remotes fit if one in rotation changed and fits.
LEMMA LiveChange ==
  ASSUME NEW ti, IsInfo(ti), NEW t \in Nat, ErrorsFit(ti, t),
         NEW r \in DOMAIN ti.remotes, NEW ri, LiveFits(ri, t)
  PROVE  /\ FitsStill(ti, [ti EXCEPT !.remotes[r] = ri], t)
         /\ \A n : FitsStill(ti, [ti EXCEPT !.streams_open = n,
                                            !.remotes[r] = ri], t)
BY DEF IsInfo, Info, ErrorsFit, FitsStill

\* Counting keeps them.
LEMMA CountingFits ==
  ASSUME NEW ti, IsInfo(ti), NEW t \in Nat, ErrorsFit(ti, t), NEW r,
         ~ OverflowChecks
  PROVE  /\ FitsStill(ti, client_connected(ti), t)
         /\ r \in DOMAIN ti.remotes => FitsStill(ti, select(ti, r), t)
         /\ FitsStill(ti, connected(ti, r), t)
         /\ ~ is_dead(ti, r, t) => FitsStill(ti, count_error(ti, r), t)
         /\ FitsStill(ti, client_disconnected(ti, r), t)
<1>1. r \in DOMAIN ti.remotes =>
        ti.remotes[r] \in RemoteInfo /\ LiveFits(ti.remotes[r], t)
  BY DEF IsInfo, Info, ErrorsFit
<1>2. FitsStill(ti, ti, t)
  BY DEF FitsStill
<1>3. \A n : FitsStill(ti, [ti EXCEPT !.streams_open = n], t)
  BY DEF IsInfo, Info, ErrorsFit, FitsStill
<1>4. FitsStill(ti, client_connected(ti), t)
  BY <1>3 DEF client_connected
<1>5. ASSUME r \in DOMAIN ti.remotes PROVE FitsStill(ti, select(ti, r), t)
  <2>1. LiveFits(new_pending_stream(ti.remotes[r]), t)
    BY <1>1, <1>5, ErrorFacts DEF LiveFits
  <2>. QED
    BY <1>5, <2>1, LiveChange DEF select
<1>6. FitsStill(ti, connected(ti, r), t)
  <2>1. CASE r \in DOMAIN ti.remotes
    <3>1. LiveFits(remote_connected(ti.remotes[r]), t)
      BY <1>1, <2>1, ErrorFacts DEF LiveFits
    <3>. QED
      BY <2>1, <3>1, LiveChange DEF connected
  <2>. QED
    BY <1>2, <2>1 DEF connected
<1>7. ASSUME ~ is_dead(ti, r, t) PROVE FitsStill(ti, count_error(ti, r), t)
  <2>1. CASE r \in DOMAIN ti.remotes
    <3>1. LiveFits(error(ti.remotes[r]), t)
      BY <1>1, <1>7, <2>1, ErrorFacts DEF LiveFits, is_dead, Panics
    <3>. QED
      BY <2>1, <3>1, LiveChange DEF count_error
  <2>. QED
    BY <1>2, <2>1 DEF count_error
<1>8. FitsStill(ti, client_disconnected(ti, r), t)
  <2>1. CASE r \in DOMAIN ti.remotes
    <3>1. LiveFits(remote_disconnected(ti.remotes[r]), t)
      BY <1>1, <2>1, ErrorFacts DEF LiveFits
    <3>. QED
      BY <1>3, <2>1, <3>1, LiveChange DEF client_disconnected
  <2>. QED
    BY <1>3, <2>1 DEF client_disconnected
<1>. QED
  BY <1>4, <1>5, <1>6, <1>7, <1>8

\* So do the moves: an error takes a remote out of rotation at the threshold,
\* an answer brings it back with none.
LEMMA MovesFit ==
  ASSUME NEW ti, IsInfo(ti), NEW t \in Nat, ErrorsFit(ti, t), NEW r, NEW handle,
         ~ OverflowChecks
  PROVE  /\ is_dead(ti, r, t) => FitsStill(ti, bury(ti, r, handle), t)
         /\ r \in DOMAIN ti.dead_remotes =>
              /\ FitsStill(ti, recover(ti, r), t)
              /\ FitsStill(ti, recheck(ti, r, handle), t)
         /\ FitsStill(ti, add_remote(ti, r), t)
         /\ FitsStill(ti, remove_remote(ti, r), t)
<1>1. /\ \A q \in DOMAIN ti.dead_remotes : ti.dead_remotes[q].remote \in RemoteInfo
      /\ \A q \in DOMAIN ti.remotes : ti.remotes[q] \in RemoteInfo
      /\ ti \in Info(DOMAIN ti.remotes, DOMAIN ti.dead_remotes)
  BY DEF IsInfo, Info, DeadRemote
<1>2. ASSUME NEW live, NEW dead,
             \A q \in DOMAIN live : LiveFits(live[q], t),
             \A q \in DOMAIN dead : DeadFits(dead[q].remote, t)
      PROVE  FitsStill(ti, [ti EXCEPT !.remotes = live, !.dead_remotes = dead], t)
  BY <1>1, <1>2 DEF Info, FitsStill, ErrorsFit
<1>3. ASSUME NEW live, \A q \in DOMAIN live : LiveFits(live[q], t)
      PROVE  FitsStill(ti, [ti EXCEPT !.remotes = live], t)
  BY <1>1, <1>3 DEF Info, FitsStill, ErrorsFit
<1>4. ASSUME NEW dead, \A q \in DOMAIN dead : DeadFits(dead[q].remote, t)
      PROVE  FitsStill(ti, [ti EXCEPT !.dead_remotes = dead], t)
  BY <1>1, <1>4 DEF Info, FitsStill, ErrorsFit
<1>5. ASSUME is_dead(ti, r, t) PROVE FitsStill(ti, bury(ti, r, handle), t)
  <2>. DEFINE d == [remote |-> error(ti.remotes[r]), join_handle |-> handle]
              live == Drop(ti.remotes, r)
              dead == Put(ti.dead_remotes, r, d)
  <2>1. DeadFits(d.remote, t)
    BY <1>5 DEF is_dead, DeadFits
  <2>2. \A q \in DOMAIN live : LiveFits(live[q], t)
    BY DEF Drop, ErrorsFit
  <2>3. \A q \in DOMAIN dead : DeadFits(dead[q].remote, t)
    <3>. HIDE DEF d
    <3>. QED BY <2>1 DEF Put, ErrorsFit
  <2>. HIDE DEF live, dead
  <2>4. FitsStill(ti, [ti EXCEPT !.remotes = live, !.dead_remotes = dead], t)
    BY <1>2, <2>2, <2>3
  <2>. QED
    BY <2>4 DEF bury, live, dead
<1>6. ASSUME r \in DOMAIN ti.dead_remotes PROVE FitsStill(ti, recover(ti, r), t)
  <2>. DEFINE ri == remote_recovered(ti.dead_remotes[r].remote)
              live == Put(ti.remotes, r, ri)
              dead == Drop(ti.dead_remotes, r)
  <2>1. LiveFits(ri, t)
    BY <1>1, <1>6, ErrorFacts DEF LiveFits
  <2>2. \A q \in DOMAIN live : LiveFits(live[q], t)
    <3>. HIDE DEF ri
    <3>. QED BY <2>1 DEF Put, ErrorsFit
  <2>3. \A q \in DOMAIN dead : DeadFits(dead[q].remote, t)
    BY DEF Drop, ErrorsFit
  <2>. HIDE DEF live, dead
  <2>4. FitsStill(ti, [ti EXCEPT !.remotes = live, !.dead_remotes = dead], t)
    BY <1>2, <2>2, <2>3
  <2>. QED
    BY <2>4 DEF recover, live, dead
<1>7. ASSUME r \in DOMAIN ti.dead_remotes
      PROVE  FitsStill(ti, recheck(ti, r, handle), t)
  <2>. DEFINE d == [remote |-> check_error(ti.dead_remotes[r].remote),
                    join_handle |-> handle]
              dead == [ti.dead_remotes EXCEPT ![r] = d]
  <2>1. DeadFits(d.remote, t)
    BY <1>1, <1>7, ErrorFacts DEF ErrorsFit
  <2>2. \A q \in DOMAIN dead : DeadFits(dead[q].remote, t)
    <3>. HIDE DEF d
    <3>. QED BY <2>1 DEF ErrorsFit
  <2>3. recheck(ti, r, handle) = [ti EXCEPT !.dead_remotes = dead]
    BY DEF recheck
  <2>. HIDE DEF dead
  <2>4. FitsStill(ti, [ti EXCEPT !.dead_remotes = dead], t)
    BY <1>4, <2>2
  <2>. QED
    BY <2>3, <2>4
<1>8. FitsStill(ti, add_remote(ti, r), t)
  <2>. DEFINE live == Put(ti.remotes, r, NewRemoteInfo)
  <2>1. \A q \in DOMAIN live : LiveFits(live[q], t)
    BY DEF Put, ErrorsFit, NewRemoteInfo, LiveFits
  <2>. HIDE DEF live
  <2>. QED
    BY <1>3, <2>1 DEF add_remote, live
<1>9. FitsStill(ti, remove_remote(ti, r), t)
  <2>. DEFINE live == Drop(ti.remotes, r)
              dead == Drop(ti.dead_remotes, r)
  <2>1. /\ \A q \in DOMAIN live : LiveFits(live[q], t)
        /\ \A q \in DOMAIN dead : DeadFits(dead[q].remote, t)
    BY DEF Drop, ErrorsFit
  <2>. HIDE DEF live, dead
  <2>. QED
    BY <1>3, <1>4, <2>1 DEF remove_remote, live, dead
<1>. QED
  BY <1>5, <1>6, <1>7, <1>8, <1>9

\* All tunnels are opened with the threshold t.
SameThreshold(t) == \A o \in Options : o.errors_till_dead = t

\* The invariant: a task that connects has the threshold its tunnel has.
ErrorsInv(t) ==
  /\ \A c \in Conns : conns[c].pc = "connecting" => conns[c].errors_till_dead = t
  /\ \A k \in DOMAIN tunnels : ErrorsFit(tunnels[k], t)

\* Replacing one entry of the registry.
LEMMA FitUpdate ==
  ASSUME TunnelsOK, NEW t, \A k \in DOMAIN tunnels : ErrorsFit(tunnels[k], t),
         NEW k, NEW ti,
         k \in DOMAIN tunnels => FitsStill(tunnels[k], ti, t),
         tunnels' = IF k \in DOMAIN tunnels
                    THEN [tunnels EXCEPT ![k] = ti] ELSE tunnels
  PROVE  \A j \in DOMAIN tunnels' : ErrorsFit(tunnels'[j], t)
BY DEF TunnelsOK, IsMap, FitsStill

\* A task connects with the threshold of the tunnels.
LEMMA ThresholdStep ==
  ASSUME NEW t \in Nat, SameThreshold(t), TypeInv, ErrorsInv(t), [Next]_vars,
         NEW c \in Conns, conns'[c].pc = "connecting"
  PROVE  conns'[c].errors_till_dead = t
<1>0. conns \in [Conns -> Conn] /\ TunnelsOK
  BY TypeInvParts
<1>1. CASE conns'[c] = conns[c]
  BY <1>1 DEF ErrorsInv
<1>2. ASSUME NEW d \in Conns, SelectRemote(d)
      PROVE  conns'[c].errors_till_dead = t
  <2>1. CASE c # d
    BY <1>0, <1>1, <1>2, <2>1 DEF SelectRemote
  <2>2. CASE c = d
    <3>. DEFINE o == tunnels[conns[c].key].options
    <3>1. o \in Options
      BY <1>0, <1>2, <2>2 DEF SelectRemote, IsOpen, TunnelsOK, IsInfo, Info
    <3>2. o.errors_till_dead = t
      BY <3>1 DEF SameThreshold
    <3>3. PICK r : conns' = [conns EXCEPT ![c] = AfterSelect(c, r)]
      BY <1>2, <2>2 DEF SelectRemote
    <3>. HIDE DEF o
    <3>4. AfterSelect(c, r) \in
            {IdleConn, [conns[c] EXCEPT !.pc = "connecting", !.remote = r,
                                        !.errors_till_dead = o.errors_till_dead]}
      BY DEF AfterSelect, o
    <3>5. conns[c] \in Conn /\ conns'[c] = AfterSelect(c, r)
      BY <1>0, <3>3
    <3>6. AfterSelect(c, r) # IdleConn
      BY <3>5 DEF IdleConn
    <3>7. conns'[c].errors_till_dead = o.errors_till_dead
      BY <3>4, <3>5, <3>6 DEF Conn
    <3>. QED
      BY <3>2, <3>7
  <2>. QED
    BY <2>1, <2>2
<1>3. ASSUME NEW d \in Conns, RemoteError(d) \/ RemoteDied(d)
      PROVE  conns'[c].errors_till_dead = t
  <2>1. conns' = [conns EXCEPT ![d] = AfterError(d)]
    BY <1>3 DEF RemoteError, RemoteDied
  <2>2. c # d
    BY <1>0, <2>1 DEF AfterError, IdleConn, Conn
  <2>. QED
    BY <1>0, <1>1, <2>1, <2>2
<1>4. ASSUME NEW d \in Conns, NEW conn, conn.pc # "connecting",
             conns' = [conns EXCEPT ![d] = conn]
      PROVE  conns'[c].errors_till_dead = t
  BY <1>0, <1>1, <1>4
<1>5. ASSUME NEW d \in Conns, \/ ClientConnected(d)
                               \/ ReadRetries(d)
                               \/ GiveUp(d)
                               \/ RemoteConnected(d)
                               \/ CopyDone(d)
                               \/ CopyFinished(d)
                               \/ ClientDisconnected(d)
      PROVE  conns'[c].errors_till_dead = t
  <2>. conns[d] \in Conn
    BY <1>0
  <2>1. IdleConn.pc # "connecting"
    BY DEF IdleConn
  <2>2. \A n, p : /\ [conns[d] EXCEPT !.pc = p].pc = p
                  /\ [conns[d] EXCEPT !.pc = p, !.retries = n].pc = p
    BY DEF Conn
  <2>3. \E n, p : /\ p # "connecting"
                 /\ \/ conns' = [conns EXCEPT ![d] = IdleConn]
                    \/ conns' = [conns EXCEPT ![d] = [conns[d] EXCEPT !.pc = p]]
                    \/ conns' = [conns EXCEPT ![d] = [conns[d] EXCEPT
                                   !.pc = p, !.retries = n]]
    <3>1. CASE ReadRetries(d)
      BY <3>1 DEF ReadRetries
    <3>2. CASE RemoteConnected(d)
      BY <3>2 DEF RemoteConnected
    <3>. QED
      BY <1>5, <3>1, <3>2 DEF ClientConnected, GiveUp, CopyDone, CopyFinished,
         ClientDisconnected
  <2>4. PICK conn : conn.pc # "connecting" /\ conns' = [conns EXCEPT ![d] = conn]
    <3>1. PICK n, p :
            /\ p # "connecting"
            /\ \/ conns' = [conns EXCEPT ![d] = IdleConn]
               \/ conns' = [conns EXCEPT ![d] = [conns[d] EXCEPT !.pc = p]]
               \/ conns' = [conns EXCEPT ![d] = [conns[d] EXCEPT
                              !.pc = p, !.retries = n]]
      BY <2>3
    <3>2. CASE conns' = [conns EXCEPT ![d] = IdleConn]
      BY <2>1, <3>2
    <3>. DEFINE one == [conns[d] EXCEPT !.pc = p]
                two == [conns[d] EXCEPT !.pc = p, !.retries = n]
    <3>3. one.pc # "connecting" /\ two.pc # "connecting"
      BY <2>2, <3>1
    <3>4. \/ conns' = [conns EXCEPT ![d] = one]
          \/ conns' = [conns EXCEPT ![d] = two]
          \/ conns' = [conns EXCEPT ![d] = IdleConn]
      BY <3>1
    <3>. HIDE DEF one, two
    <3>. QED
      BY <3>2, <3>3, <3>4
  <2>. QED
    BY <1>4, <2>4
<1>6. ASSUME NEW k \in Keys, NEW d \in Conns, Accept(k, d)
      PROVE  conns'[c].errors_till_dead = t
  BY <1>4, <1>6 DEF Accept, IdleConn
<1>. QED
  BY <1>1, <1>2, <1>3, <1>5, <1>6
     DEF Next, AdminStep, OpenTunnel, CloseTunnel, AddRemote, RemoveRemote,
         ListenerStep, StopListening, ConnStep, ConnTask, CheckStep, CheckTask,
         ProbeAnswered, ProbeFailed, Revive, CheckAgain, vars

\* No step leaves a remote in the wrong place for its errors.
LEMMA FitStep ==
  ASSUME NEW t \in Nat, SameThreshold(t), ~ OverflowChecks,
         TypeInv, ErrorsInv(t), [Next]_vars
  PROVE  \A k \in DOMAIN tunnels' : ErrorsFit(tunnels'[k], t)
<1>. DEFINE Goal == \A k \in DOMAIN tunnels' : ErrorsFit(tunnels'[k], t)
<1>0. TunnelsOK /\ \A k \in DOMAIN tunnels : ErrorsFit(tunnels[k], t)
  BY TypeInvParts DEF ErrorsInv
<1>1. ASSUME NEW k, k \in DOMAIN tunnels
      PROVE  IsInfo(tunnels[k]) /\ ErrorsFit(tunnels[k], t)
  BY <1>0, <1>1 DEF TunnelsOK
<1>2. CASE UNCHANGED tunnels
  BY <1>0, <1>2
<1>3. ASSUME NEW k, NEW ti, k \in DOMAIN tunnels => FitsStill(tunnels[k], ti, t),
             tunnels' = IF k \in DOMAIN tunnels
                        THEN [tunnels EXCEPT ![k] = ti] ELSE tunnels
      PROVE  Goal
  BY <1>0, <1>3, FitUpdate
<1>4. ASSUME NEW k \in Keys, NEW remotes \in RemoteSets, NEW options \in Options,
             OpenTunnel(k, remotes, options)
      PROVE  Goal
  <2>. DEFINE new == NewTunnelInfo(opened + 1, remotes, options)
  <2>1. ErrorsFit(new, t)
    BY DEF NewTunnelInfo, NewRemoteInfo, ErrorsFit, LiveFits
  <2>2. tunnels' = Put(tunnels, k, new)
    BY <1>4 DEF OpenTunnel
  <2>. HIDE DEF new
  <2>. QED
    BY <1>0, <2>1, <2>2 DEF Put
<1>5. ASSUME NEW k \in Keys, CloseTunnel(k) PROVE Goal
  BY <1>0, <1>5 DEF CloseTunnel, Drop
<1>6. ASSUME NEW k \in Keys, NEW r \in Remotes, AddRemote(k, r) PROVE Goal
  <2>1. k \in DOMAIN tunnels
        /\ tunnels' = [tunnels EXCEPT ![k] = add_remote(tunnels[k], r)]
    BY <1>6 DEF AddRemote, IsOpen, Update
  <2>. QED
    BY <1>1, <1>3, <2>1, MovesFit
<1>7. ASSUME NEW k \in Keys, NEW r \in Removable, RemoveRemote(k, r) PROVE Goal
  <2>1. k \in DOMAIN tunnels
        /\ tunnels' = [tunnels EXCEPT ![k] = remove_remote(tunnels[k], r)]
    BY <1>7 DEF RemoveRemote, IsOpen, Update
  <2>. QED
    BY <1>1, <1>3, <2>1, MovesFit
<1>8. ASSUME NEW c \in Conns, ClientConnected(c) PROVE Goal
  BY <1>1, <1>3, <1>8, CountingFits DEF ClientConnected, IsOpen
<1>9. ASSUME NEW c \in Conns, SelectRemote(c) PROVE Goal
  <2>1. PICK k, r : /\ k \in DOMAIN tunnels
                    /\ r \in DOMAIN tunnels[k].remotes
                    /\ tunnels' = [tunnels EXCEPT ![k] = select(tunnels[k], r)]
    BY <1>9 DEF SelectRemote, Update, IsOpen
  <2>. QED
    BY <1>1, <1>3, <2>1, CountingFits
<1>10. ASSUME NEW c \in Conns, RemoteConnected(c) PROVE Goal
  BY <1>1, <1>3, <1>10, CountingFits DEF RemoteConnected, IsOpen
<1>11. ASSUME NEW c \in Conns, RemoteError(c) PROVE Goal
  <2>. DEFINE k == conns[c].key
              r == conns[c].remote
  <2>1. conns[c].errors_till_dead = t
    BY <1>11 DEF RemoteError, ErrorsInv
  <2>2. k \in DOMAIN tunnels => ~ is_dead(tunnels[k], r, t)
    BY <1>11, <2>1 DEF RemoteError, IsOpen
  <2>3. tunnels' = IF k \in DOMAIN tunnels
                   THEN [tunnels EXCEPT ![k] = count_error(tunnels[k], r)]
                   ELSE tunnels
    BY <1>11 DEF RemoteError, IsOpen
  <2>. QED
    BY <1>1, <1>3, <2>2, <2>3, CountingFits
<1>12. ASSUME NEW c \in Conns, RemoteDied(c) PROVE Goal
  <2>. DEFINE k == conns[c].key
              r == conns[c].remote
  <2>1. conns[c].errors_till_dead = t
    BY <1>12 DEF RemoteDied, ErrorsInv
  <2>2. PICK id : /\ k \in DOMAIN tunnels
                  /\ is_dead(tunnels[k], r, t)
                  /\ tunnels' = [tunnels EXCEPT ![k] = bury(tunnels[k], r, id)]
    BY <1>12, <2>1 DEF RemoteDied, IsOpen, Update
  <2>. QED
    BY <1>1, <1>3, <2>2, MovesFit
<1>13. ASSUME NEW c \in Conns, ClientDisconnected(c) PROVE Goal
  BY <1>1, <1>3, <1>13, CountingFits DEF ClientDisconnected, IsOpen
<1>14. ASSUME NEW id \in CheckIds, Revive(id) PROVE Goal
  <2>1. CASE IsDead(checks[id].key, checks[id].remote)
    <3>1. PICK k, r :
            /\ k \in DOMAIN tunnels
            /\ r \in DOMAIN tunnels[k].dead_remotes
            /\ tunnels' = [tunnels EXCEPT ![k] = recover(tunnels[k], r)]
      BY <1>14, <2>1 DEF Revive, IsDead, IsOpen
    <3>2. FitsStill(tunnels[k], recover(tunnels[k], r), t)
      BY <1>1, <3>1, MovesFit
    <3>. QED
      BY <1>3, <3>1, <3>2
  <2>. QED
    BY <1>2, <1>14, <2>1 DEF Revive
<1>15. ASSUME NEW id \in CheckIds, CheckAgain(id) PROVE Goal
  <2>1. CASE IsDead(checks[id].key, checks[id].remote)
    <3>1. PICK k, r, next :
            /\ k \in DOMAIN tunnels
            /\ r \in DOMAIN tunnels[k].dead_remotes
            /\ tunnels' = [tunnels EXCEPT ![k] = recheck(tunnels[k], r, next)]
      BY <1>15, <2>1 DEF CheckAgain, IsDead, IsOpen, Update
    <3>2. FitsStill(tunnels[k], recheck(tunnels[k], r, next), t)
      BY <1>1, <3>1, MovesFit
    <3>. QED
      BY <1>3, <3>1, <3>2
  <2>. QED
    BY <1>2, <1>15, <2>1 DEF CheckAgain
<1>. QED
  BY <1>2, <1>4, <1>5, <1>6, <1>7, <1>8, <1>9, <1>10, <1>11, <1>12, <1>13,
     <1>14, <1>15
     DEF Next, AdminStep, ListenerStep, Accept, StopListening, ConnStep,
         ConnTask, ReadRetries, GiveUp, CopyDone, CopyFinished, CheckStep,
         CheckTask, ProbeAnswered, ProbeFailed, vars

\* In the release build, and with one threshold for all tunnels, the errors of
\* a remote are below the threshold exactly as long as it is in rotation: an
\* error that reaches it always moves the remote, whatever clients connect to
\* it meanwhile, and no check puts back one that has errors left.
THEOREM ErrorsDecidePlace ==
  ASSUME ~ OverflowChecks,
         \A o, p \in Options : o.errors_till_dead = p.errors_till_dead
  PROVE  Spec => []ErrorsMatchPlace
<1>1. PICK t \in Nat : SameThreshold(t)
  <2>1. CASE Options = {}
    BY <2>1 DEF SameThreshold
  <2>2. CASE Options # {}
    <3>1. PICK o \in Options : TRUE
      BY <2>2
    <3>2. o.errors_till_dead \in Nat
      OBVIOUS
    <3>. QED
      BY <3>2 DEF SameThreshold
  <2>. QED
    BY <2>1, <2>2
<1>2. Init => ErrorsInv(t)
  BY DEF Init, ErrorsInv, IdleConn
<1>3. TypeInv /\ ErrorsInv(t) /\ [Next]_vars => ErrorsInv(t)'
  BY <1>1, ThresholdStep, FitStep DEF ErrorsInv
<1>4. TypeInv /\ ErrorsInv(t) => ErrorsMatchPlace
  <2>. SUFFICES ASSUME TypeInv, ErrorsInv(t), NEW k \in DOMAIN tunnels
                PROVE  tunnels[k].options.errors_till_dead = t
    BY DEF ErrorsMatchPlace, ErrorsInv, ErrorsFit, LiveFits, DeadFits
  <2>1. tunnels[k].options \in Options
    BY TypeInvParts DEF TunnelsOK, IsInfo, Info
  <2>. QED
    BY <1>1, <2>1 DEF SameThreshold
<1>. QED
  BY <1>2, <1>3, <1>4, InitType, TypeInvStep, PTL DEF Spec

-----------------------------------------------------------------------------
(* Checks have a purpose.                                                   *)

\* OPEN takes a key only when nothing of an earlier tunnel at it is left.
OpensAfresh ==
  \A k \in DOMAIN tunnels' \ DOMAIN tunnels :
    /\ \A c \in Conns : conns[c].key # k
    /\ \A id \in CheckIds : checks[id].key # k

\* REMOVE takes a remote only while it is in rotation.
RemovesLive == \A k \in Keys, r \in Removable : RemoveRemote(k, r) => ~ IsDead(k, r)

\* A check whose tunnel is open is the one its remote's join_handle names,
\* and a check that can still be aborted has its tunnel.
ChecksOwned ==
  \A id \in CheckIds : checks[id].pc # "free" =>
    /\ IsOpen(checks[id].key) =>
         HasHandle(checks[id].key, checks[id].remote, id)
    /\ checks[id].pc = "waiting" => IsOpen(checks[id].key)

\* The same, a check and its target at a time.
Owned(id, k, r) ==
  Checks(id, k, r) => /\ IsOpen(k) => HasHandle(k, r, id)
                      /\ checks[id].pc = "waiting" => IsOpen(k)

LEMMA OwnedEntries == ChecksOwned <=> \A id, k, r : Owned(id, k, r)
BY DEF ChecksOwned, Owned, Checks

\* The checks are owned after a step if each has its handle, or has lost its
\* tunnel and cannot be aborted, or is what it was.
LEMMA OwnedAfter ==
  ASSUME ChecksOwned,
         \A id, k, r : Checks(id, k, r)' =>
           \/ HasHandle(k, r, id)'
           \/ k \notin DOMAIN tunnels' /\ checks'[id].pc # "waiting"
           \/ /\ Checks(id, k, r)
              /\ IsOpen(k)' = IsOpen(k)
              /\ HasHandle(k, r, id) => HasHandle(k, r, id)'
              /\ checks'[id].pc = "waiting" => checks[id].pc = "waiting"
  PROVE  ChecksOwned'
<1>1. ASSUME NEW id, NEW k, NEW r PROVE Owned(id, k, r)'
  <2>1. Owned(id, k, r)
    BY OwnedEntries
  <2>. QED
    BY <2>1 DEF Owned, HasHandle, IsOpen
<1>. QED
  BY <1>1 DEF ChecksOwned, Owned, Checks

\* A handle is kept by a move of another remote.
LEMMA HandleKept ==
  ASSUME NEW k, NEW r, NEW live, NEW dead, MoveStep(k, r, live, dead),
         DOMAIN tunnels[k].dead_remotes \ {r} \subseteq dead,
         NEW j, NEW q, NEW id, HasHandle(j, q, id), j # k \/ q # r
  PROVE  HasHandle(j, q, id)'
BY DEF MoveStep, MovesTo, HasHandle

\* A remote has one check.
LEMMA OneHandle ==
  ASSUME ChecksOwned, NEW k, NEW r, NEW id, NEW j,
         HasHandle(k, r, id), Checks(j, k, r)
  PROVE  j = id
<1>1. Owned(j, k, r)
  BY OwnedEntries
<1>. QED
  BY <1>1 DEF Owned, HasHandle, IsOpen

\* No step gives a remote a second check, and none leaves a check that can
\* still be aborted without its remote.
LEMMA OwnedStep ==
  ASSUME TypeInv, LiveDeadDisjoint, ChecksOwned, [Next]_vars,
         [OpensAfresh /\ RemovesLive]_vars
  PROVE  ChecksOwned'
<1>0. TunnelsOK /\ checks \in [CheckIds -> Check]
  BY TypeInvParts
<1>1. ASSUME CountingStep,
             \A id, k, r : Checks(id, k, r)' =>
               /\ Checks(id, k, r)
               /\ checks'[id].pc = "waiting" => checks[id].pc = "waiting"
      PROVE  ChecksOwned'
  <2>1. \A k, r, id : HasHandle(k, r, id) => HasHandle(k, r, id)'
    BY <1>1 DEF CountingStep, SamePlaces, HasHandle
  <2>2. \A k : IsOpen(k)' = IsOpen(k)
    BY <1>1 DEF CountingStep, IsOpen
  <2>. QED
    BY <1>1, <2>1, <2>2, OwnedAfter
<1>2. ASSUME CountingStep, UNCHANGED checks PROVE ChecksOwned'
  BY <1>1, <1>2 DEF Checks
<1>3. ASSUME NEW id \in CheckIds, ProbeAnswered(id) \/ ProbeFailed(id)
      PROVE  ChecksOwned'
  <2>1. CountingStep
    BY <1>3, CountingSteps
  <2>2. \A j, k, r : Checks(j, k, r)' =>
          /\ Checks(j, k, r)
          /\ checks'[j].pc = "waiting" => checks[j].pc = "waiting"
    BY <1>0, <1>3 DEF ProbeAnswered, ProbeFailed, Check, Checks
  <2>. QED
    BY <1>1, <2>1, <2>2
<1>4. ASSUME NEW id \in CheckIds, Revive(id) \/ CheckAgain(id),
             ~ IsDead(checks[id].key, checks[id].remote)
      PROVE  ChecksOwned'
  <2>1. CountingStep /\ checks' = [checks EXCEPT ![id] = FreeCheck]
    BY <1>4, LateCheck
  <2>. QED
    BY <1>0, <1>1, <2>1 DEF FreeCheck, Checks
<1>5. ASSUME NEW k \in Keys, NEW remotes \in RemoteSets, NEW options \in Options,
             OpenTunnel(k, remotes, options)
      PROVE  ChecksOwned'
  <2>1. OpenStep(k)
    BY <1>5, OpenTunnelStep
  <2>2. \A id \in CheckIds : checks[id].key # k
    BY <2>1 DEF OpensAfresh, OpenStep, vars
  <2>3. \A j, r, id : HasHandle(j, r, id) => HasHandle(j, r, id)'
    BY <2>1 DEF OpenStep, HasHandle
  <2>4. \A j : j # k => IsOpen(j)' = IsOpen(j)
    BY <2>1 DEF OpenStep, IsOpen
  <2>5. \A id, j, r : Checks(id, j, r)' =>
          /\ Checks(id, j, r)
          /\ j # k
          /\ checks'[id].pc = checks[id].pc
    BY <2>1, <2>2 DEF OpenStep, Checks
  <2>. QED
    BY <2>3, <2>4, <2>5, OwnedAfter
<1>6. ASSUME NEW k \in Keys, CloseTunnel(k) PROVE ChecksOwned'
  <2>. DEFINE handles == {tunnels[k].dead_remotes[r].join_handle :
                           r \in DOMAIN tunnels[k].dead_remotes}
  <2>1. CloseStep(k)
    BY <1>6, CloseTunnelStep
  <2>2. checks' = [id \in CheckIds |->
                     IF id \in handles /\ checks[id].pc = "waiting"
                     THEN FreeCheck ELSE checks[id]]
    BY <1>6 DEF CloseTunnel
  <2>3. ASSUME NEW id, NEW r, Checks(id, k, r) PROVE id \in handles
    <3>1. Owned(id, k, r)
      BY OwnedEntries
    <3>2. HasHandle(k, r, id)
      BY <2>1, <2>3, <3>1 DEF Owned, CloseStep, IsOpen
    <3>. QED
      BY <3>2 DEF HasHandle
  <2>. HIDE DEF handles
  <2>4. \A j, r, id : j # k /\ HasHandle(j, r, id) => HasHandle(j, r, id)'
    BY <2>1 DEF CloseStep, HasHandle
  <2>5. \A id, j, r : Checks(id, j, r)' =>
          /\ Checks(id, j, r)
          /\ checks'[id] = checks[id]
          /\ j = k => checks[id].pc # "waiting"
    BY <2>2, <2>3 DEF FreeCheck, Checks
  <2>6. \A j : j # k => IsOpen(j)' = IsOpen(j)
    BY <2>1 DEF CloseStep, IsOpen
  <2>7. k \notin DOMAIN tunnels'
    BY <2>1 DEF CloseStep
  <2>. QED
    BY <2>4, <2>5, <2>6, <2>7, OwnedAfter
<1>7. ASSUME NEW k, NEW r, NEW live, NEW dead, MoveStep(k, r, live, dead),
             DOMAIN tunnels[k].dead_remotes \ {r} \subseteq dead,
             \A id : Checks(id, k, r)' => HasHandle(k, r, id)',
             \A id, j, q : Checks(id, j, q)' /\ (j # k \/ q # r) =>
                /\ Checks(id, j, q)
                /\ checks'[id].pc = checks[id].pc
      PROVE  ChecksOwned'
  <2>1. \A j : IsOpen(j)' = IsOpen(j)
    BY <1>7 DEF MoveStep, IsOpen
  <2>2. \A j, q, id : HasHandle(j, q, id) /\ (j # k \/ q # r)
                        => HasHandle(j, q, id)'
    BY <1>7, HandleKept
  <2>. QED
    BY <1>7, <2>1, <2>2, OwnedAfter
<1>8. ASSUME NEW k, NEW r, NEW live, NEW dead, MoveStep(k, r, live, dead),
             dead = DOMAIN tunnels[k].dead_remotes, r \notin dead,
             UNCHANGED checks
      PROVE  ChecksOwned'
  <2>1. \A id : ~ Checks(id, k, r)
    <3>1. \A id : ~ HasHandle(k, r, id) /\ IsOpen(k)
      BY <1>8 DEF HasHandle, MoveStep, IsOpen
    <3>2. \A id : Owned(id, k, r)
      BY OwnedEntries
    <3>. QED
      BY <3>1, <3>2 DEF Owned
  <2>. QED
    BY <1>7, <1>8, <2>1 DEF Checks
<1>9. ASSUME NEW k \in Keys, NEW r \in Remotes, AddRemote(k, r)
      PROVE  ChecksOwned'
  <2>1. /\ MoveStep(k, r, DOMAIN tunnels[k].remotes \cup {r},
                    DOMAIN tunnels[k].dead_remotes)
        /\ r \notin DOMAIN tunnels[k].dead_remotes
        /\ UNCHANGED checks
    BY <1>9, AddRemoteMove DEF Members
  <2>. QED
    BY <1>8, <2>1
<1>10. ASSUME NEW k \in Keys, NEW r \in Removable, RemoveRemote(k, r)
       PROVE  ChecksOwned'
  <2>1. CASE UNCHANGED vars
    BY <2>1 DEF vars, ChecksOwned, HasHandle, IsOpen
  <2>2. CASE RemovesLive
    <3>1. IsOpen(k) /\ ~ IsDead(k, r) /\ UNCHANGED checks
      BY <1>10, <2>2 DEF RemovesLive, RemoveRemote
    <3>2. /\ k \in DOMAIN tunnels
          /\ r \in DOMAIN tunnels[k].remotes
          /\ r \notin DOMAIN tunnels[k].dead_remotes
          /\ tunnels' = [tunnels EXCEPT ![k] = remove_remote(tunnels[k], r)]
      BY <1>10, <3>1 DEF RemoveRemote, Update, Members, IsOpen, IsDead
    <3>3. MovesTo(tunnels[k], remove_remote(tunnels[k], r), r,
                  DOMAIN tunnels[k].remotes \ {r}, DOMAIN tunnels[k].dead_remotes)
      BY <1>0, <3>2, RemoveFacts DEF TunnelsOK
    <3>4. MoveStep(k, r, DOMAIN tunnels[k].remotes \ {r},
                   DOMAIN tunnels[k].dead_remotes)
      BY <1>0, <3>2, <3>3, MoveUpdate, Zenon
    <3>. QED
      BY <1>8, <3>1, <3>2, <3>4
  <2>. QED
    BY <2>1, <2>2
<1>11. ASSUME NEW c \in Conns, RemoteDied(c) PROVE ChecksOwned'
  <2>1. PICK k, r, live, dead, id :
          /\ MoveStep(k, r, live, dead)
          /\ r \in DOMAIN tunnels[k].remotes
          /\ dead = DOMAIN tunnels[k].dead_remotes \cup {r}
          /\ id \in FreeChecks
          /\ tunnels'[k].dead_remotes[r].join_handle = id
          /\ checks' = [checks EXCEPT ![id] = WaitingCheck(k, r)]
    BY <1>11, RemoteDiedMove, Zenon
  <2>2. /\ id \in CheckIds
        /\ checks[id].pc = "free"
        /\ checks'[id] = WaitingCheck(k, r)
        /\ \A j \in CheckIds \ {id} : checks'[j] = checks[j]
    BY <1>0, <2>1 DEF FreeChecks
  <2>3. HasHandle(k, r, id)' /\ IsOpen(k)
    BY <2>1 DEF MoveStep, MovesTo, HasHandle, IsOpen
  <2>4. \A i : ~ Checks(i, k, r)
    <3>1. \A i : ~ HasHandle(k, r, i)
      BY <2>1 DEF HasHandle, LiveDeadDisjoint
    <3>2. \A i : Owned(i, k, r)
      BY OwnedEntries
    <3>. QED
      BY <2>3, <3>1, <3>2 DEF Owned
  <2>5. \A i, j, q : Checks(i, j, q)' =>
          \/ i = id /\ j = k /\ q = r
          \/ Checks(i, j, q) /\ checks'[i].pc = checks[i].pc
    BY <2>2 DEF Checks, WaitingCheck
  <2>. QED
    BY <1>7, <2>1, <2>3, <2>4, <2>5
<1>12. ASSUME NEW id \in CheckIds, Revive(id),
              IsDead(checks[id].key, checks[id].remote)
       PROVE  ChecksOwned'
  <2>1. PICK k, r, live, dead :
          /\ MoveStep(k, r, live, dead)
          /\ dead = DOMAIN tunnels[k].dead_remotes \ {r}
          /\ checks[id].key = k
          /\ checks[id].remote = r
    BY <1>12, ReviveMove, Zenon
  <2>2. checks' = [checks EXCEPT ![id] = FreeCheck] /\ Checks(id, k, r)
    BY <1>12, <2>1 DEF Revive, Checks
  <2>3. \A i : Checks(i, k, r) => i = id
    <3>1. \A i : Owned(i, k, r)
      BY OwnedEntries
    <3>. QED
      BY <2>1, <2>2, <3>1 DEF Owned, HasHandle, IsOpen, MoveStep
  <2>4. \A i, j, q : Checks(i, j, q)' =>
          i # id /\ Checks(i, j, q) /\ checks'[i].pc = checks[i].pc
    BY <1>0, <2>2 DEF Checks, FreeCheck
  <2>. QED
    BY <1>7, <2>1, <2>3, <2>4
<1>13. ASSUME NEW id \in CheckIds, CheckAgain(id),
              IsDead(checks[id].key, checks[id].remote)
       PROVE  ChecksOwned'
  <2>1. PICK k, r, live, dead, next :
          /\ MoveStep(k, r, live, dead)
          /\ dead = DOMAIN tunnels[k].dead_remotes
          /\ r \in dead
          /\ checks[id].key = k
          /\ checks[id].remote = r
          /\ next \in FreeChecks \cup {id}
          /\ tunnels'[k].dead_remotes[r].join_handle = next
          /\ checks' = [checks EXCEPT ![id] = FreeCheck,
                                      ![next] = WaitingCheck(k, r)]
    <3>1. PICK k, r : k = checks[id].key /\ r = checks[id].remote
      OBVIOUS
    <3>2. /\ MoveStep(k, r, DOMAIN tunnels[k].remotes,
                      DOMAIN tunnels[k].dead_remotes)
          /\ r \in DOMAIN tunnels[k].dead_remotes
          /\ \E next \in FreeChecks \cup {id} :
               /\ tunnels'[k].dead_remotes[r].join_handle = next
               /\ checks' = [checks EXCEPT ![id] = FreeCheck,
                                           ![next] = WaitingCheck(k, r)]
      BY <1>13, <3>1, CheckAgainMove
    <3>. QED
      BY <3>1, <3>2, Zenon
  <2>2. /\ next \in CheckIds
        /\ checks'[next] = WaitingCheck(k, r)
        /\ next # id => checks'[id] = FreeCheck
        /\ \A i \in CheckIds \ {id, next} : checks'[i] = checks[i]
    BY <1>0, <2>1 DEF FreeChecks
  <2>3. HasHandle(k, r, next)' /\ Checks(id, k, r)
    BY <1>13, <2>1 DEF MoveStep, MovesTo, HasHandle, CheckAgain, Checks
  <2>4. \A i : Checks(i, k, r) => i = id
    <3>1. \A i : Owned(i, k, r)
      BY OwnedEntries
    <3>. QED
      BY <2>1, <2>3, <3>1 DEF Owned, HasHandle, IsOpen, MoveStep
  <2>5. \A i, j, q : Checks(i, j, q)' =>
          \/ i = next /\ j = k /\ q = r
          \/ i # id /\ Checks(i, j, q) /\ checks'[i].pc = checks[i].pc
    BY <2>2 DEF Checks, FreeCheck, WaitingCheck
  <2>6. \A i : Checks(i, k, r)' => HasHandle(k, r, i)'
    BY <2>3, <2>4, <2>5
  <2>7. \A i, j, q : Checks(i, j, q)' /\ (j # k \/ q # r) =>
          Checks(i, j, q) /\ checks'[i].pc = checks[i].pc
    BY <2>5
  <2>8. MoveStep(k, r, live, dead) /\ DOMAIN tunnels[k].dead_remotes \ {r} \subseteq dead
    BY <2>1
  <2>. QED
    BY <1>7, <2>6, <2>7, <2>8
<1>14. ASSUME \/ ListenerStep
              \/ \E c \in Conns : \/ ClientConnected(c)
                                  \/ ReadRetries(c)
                                  \/ SelectRemote(c)
                                  \/ GiveUp(c)
                                  \/ RemoteConnected(c)
                                  \/ RemoteError(c)
                                  \/ CopyDone(c)
                                  \/ CopyFinished(c)
                                  \/ ClientDisconnected(c)
              \/ UNCHANGED vars
       PROVE  ChecksOwned'
  <2>1. CountingStep
    BY <1>14, CountingSteps
  <2>2. UNCHANGED checks
    BY <1>14 DEF ListenerStep, Accept, StopListening, ClientConnected,
       ReadRetries, SelectRemote, GiveUp, RemoteConnected, RemoteError,
       CopyDone, CopyFinished, ClientDisconnected, vars
  <2>. QED
    BY <1>2, <2>1, <2>2
<1>15. ASSUME NEW id \in CheckIds, Revive(id) \/ CheckAgain(id)
       PROVE  ChecksOwned'
  BY <1>4, <1>12, <1>13, <1>15
<1>. QED
  BY <1>3, <1>5, <1>6, <1>9, <1>10, <1>11, <1>14, <1>15
     DEF Next, AdminStep, ConnStep, ConnTask, CheckStep, CheckTask

\* Nobody has begun: before the first OPEN nothing but OPEN can happen.
Fresh == opened = 0 => Init

LEMMA FreshStep == TypeInv /\ Fresh /\ [Next]_vars => Fresh'
<1>. SUFFICES ASSUME TypeInv, Fresh, [Next]_vars, opened' = 0 PROVE Init'
  BY DEF Fresh
<1>1. opened \in 0 .. MaxOpens
  BY TypeInvParts
<1>2. ASSUME NEW k, NEW remotes, NEW options, OpenTunnel(k, remotes, options)
      PROVE  FALSE
  BY <1>1, <1>2 DEF OpenTunnel
<1>3. opened' = opened
  BY <1>2 DEF Next, AdminStep, CloseTunnel, AddRemote, RemoveRemote,
     ListenerStep, Accept, StopListening, ConnStep, ConnTask, ClientConnected,
     ReadRetries, SelectRemote, GiveUp, RemoteConnected, RemoteError,
     RemoteDied, CopyDone, CopyFinished, ClientDisconnected, CheckStep,
     CheckTask, ProbeAnswered, ProbeFailed, Revive, CheckAgain, vars
<1>4. Init
  BY <1>3 DEF Fresh
<1>5. /\ \A k \in Keys : ~ IsOpen(k) /\ listener[k] = 0
      /\ \A c \in Conns : conns[c].pc = "idle"
      /\ \A id \in CheckIds : checks[id].pc = "free"
  BY <1>4 DEF Init, IsOpen, IdleConn, FreeCheck
<1>6. UNCHANGED vars
  BY <1>2, <1>5 DEF Next, AdminStep, CloseTunnel, AddRemote, RemoveRemote,
     ListenerStep, Accept, StopListening, ConnStep, ConnTask, ClientConnected,
     ReadRetries, SelectRemote, GiveUp, RemoteConnected, RemoteError,
     RemoteDied, CopyDone, CopyFinished, ClientDisconnected, CheckStep,
     CheckTask, ProbeAnswered, ProbeFailed, Revive, CheckAgain
<1>. QED
  BY <1>4, <1>6 DEF Init, vars

\* Only OPEN adds to the registry.
LEMMA OpensOnly ==
  ASSUME TypeInv, [Next]_vars, NEW k \in DOMAIN tunnels' \ DOMAIN tunnels
  PROVE  /\ k \in Keys
         /\ \E remotes \in RemoteSets, options \in Options :
              OpenTunnel(k, remotes, options)
<1>1. DOMAIN tunnels' \subseteq Keys
  BY TunnelsType DEF TunnelsOK, IsMap
<1>2. CASE CountingStep
  BY <1>2 DEF CountingStep
<1>3. ASSUME NEW j, NEW r, NEW live, NEW dead, MoveStep(j, r, live, dead)
      PROVE  FALSE
  BY <1>3 DEF MoveStep
<1>4. ASSUME NEW j \in Keys, CloseTunnel(j) PROVE FALSE
  BY <1>4, CloseTunnelStep DEF CloseStep
<1>5. ASSUME NEW j \in Keys, NEW r \in Remotes, AddRemote(j, r) PROVE FALSE
  BY <1>3, <1>5, AddRemoteMove
<1>6. ASSUME NEW j \in Keys, NEW r \in Removable, RemoveRemote(j, r) PROVE FALSE
  BY <1>3, <1>6, RemoveRemoteMove
<1>7. ASSUME NEW c \in Conns, RemoteDied(c) PROVE FALSE
  <2>1. \E j, r, live, dead : MoveStep(j, r, live, dead)
    BY <1>7, RemoteDiedMove, Zenon
  <2>. QED
    BY <1>3, <2>1
<1>8. ASSUME NEW id \in CheckIds, Revive(id) \/ CheckAgain(id), ~ CountingStep
      PROVE  FALSE
  <2>1. IsDead(checks[id].key, checks[id].remote)
    BY <1>8, LateCheck
  <2>2. \E j, r, live, dead : MoveStep(j, r, live, dead)
    <3>1. CASE Revive(id)
      BY <2>1, <3>1, ReviveMove, Zenon
    <3>2. CASE CheckAgain(id)
      <4>1. PICK j, r : j = checks[id].key /\ r = checks[id].remote
        OBVIOUS
      <4>2. MoveStep(j, r, DOMAIN tunnels[j].remotes,
                     DOMAIN tunnels[j].dead_remotes)
        BY <2>1, <3>2, <4>1, CheckAgainMove
      <4>. QED
        BY <4>2, Zenon
    <3>. QED
      BY <1>8, <3>1, <3>2
  <2>. QED
    BY <1>3, <2>2
<1>9. ASSUME NEW j \in Keys, NEW remotes \in RemoteSets, NEW options \in Options,
             OpenTunnel(j, remotes, options)
      PROVE  j = k
  BY <1>9 DEF OpenTunnel, Put
<1>. QED
  BY <1>1, <1>2, <1>4, <1>5, <1>6, <1>7, <1>8, <1>9, CountingSteps
     DEF Next, AdminStep, ConnStep, ConnTask, CheckStep, CheckTask

\* If tunnels are opened once, nothing of an earlier one is left.
LEMMA OneOpenIsFresh ==
  ASSUME MaxOpens = 1, TypeInv, Fresh, [Next]_vars
  PROVE  OpensAfresh
<1>. SUFFICES ASSUME NEW k \in DOMAIN tunnels' \ DOMAIN tunnels
              PROVE  /\ \A c \in Conns : conns[c].key # k
                     /\ \A id \in CheckIds : checks[id].key # k
  BY DEF OpensAfresh
<1>1. opened < MaxOpens /\ k \in Keys /\ opened \in 0 .. MaxOpens
  BY OpensOnly, TypeInvParts DEF OpenTunnel
<1>2. Init
  BY <1>1 DEF Fresh
<1>. QED
  BY <1>1, <1>2 DEF Init, IdleConn, FreeCheck

\* A check that sleeps or probes is of a remote that is dead, and is the one
\* check of it, as the comment on check_dead has it, as long as no dead remote
\* is removed and no tunnel is opened while a task of an earlier tunnel at its
\* key is left. (remove_remote does not abort the check, nor can stop_tunnel
\* abort one that has its answer.)
THEOREM ChecksTargetDead ==
  Spec /\ [][OpensAfresh /\ RemovesLive]_vars => []WaitingChecksTargetDead
<1>1. Init => ChecksOwned /\ LiveDeadDisjoint
  BY DEF Init, ChecksOwned, FreeCheck, LiveDeadDisjoint
<1>2. TypeInv /\ LiveDeadDisjoint /\ ChecksOwned /\ [Next]_vars
        /\ [OpensAfresh /\ RemovesLive]_vars
        => (TypeInv /\ LiveDeadDisjoint /\ ChecksOwned)'
  BY TypeInvStep, DisjointStep, OwnedStep
<1>3. ChecksOwned => WaitingChecksTargetDead
  BY DEF ChecksOwned, WaitingChecksTargetDead, HasHandle, IsDead, IsOpen
<1>. QED
  <2>. DEFINE H == OpensAfresh /\ RemovesLive
  <2>. HIDE DEF H
  <2>1. TypeInv /\ LiveDeadDisjoint /\ ChecksOwned /\ [Next]_vars /\ [H]_vars
        => (TypeInv /\ LiveDeadDisjoint /\ ChecksOwned)'
    BY <1>2 DEF H
  <2>2. Spec /\ [][H]_vars => []WaitingChecksTargetDead
    BY <1>1, <1>3, <2>1, InitType, PTL DEF Spec
  <2>. QED
    BY <2>2 DEF H

\* In particular with tunnels opened once and no removal.
THEOREM ChecksTargetDeadOnce ==
  ASSUME MaxOpens = 1, Removable = {}
  PROVE  Spec => []WaitingChecksTargetDead
<1>. DEFINE H == OpensAfresh /\ RemovesLive
<1>1. TypeInv /\ Fresh /\ [Next]_vars => [H]_vars
  BY OneOpenIsFresh DEF RemovesLive
<1>2. Init => Fresh
  BY DEF Fresh
<1>3. Spec => [][H]_vars
  <2>. HIDE DEF H
  <2>. QED BY <1>1, <1>2, InitType, TypeInvStep, FreshStep, PTL DEF Spec
<1>. QED
  BY <1>3, ChecksTargetDead
=============================================================================
