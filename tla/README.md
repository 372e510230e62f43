# plexy in TLA+

A specification of the TCP proxy in `src/src`, checked with TLC on small
instances and, where it matters most, proved with TLAPS for instances of any
size. Paths below are those of the repository's crate (`state.rs` is
`src/state.rs` there).

## The system

A *tunnel* is a listening socket, its key, with a list of *remotes*. A client
that connects to the socket is connected to one of the remotes, and bytes are
copied both ways until both sides end, one fails or the tunnel is closed.

| Component | State it keeps | Operations | Depends on |
|---|---|---|---|
| Registry `State` (state.rs) | `tunnels`: key → `TunnelInfo`, in a map with a lock per shard | add/remove tunnel, add/remove remote, select, client connected/disconnected, remote connected/error, queries | TunnelInfo, check_dead |
| `TunnelInfo`, `RemoteInfo` (state/info.rs) | streams open; per remote: streams open, streams pending, errors in a row; remotes in rotation and dead; last selected index; options | one method per event | strategy |
| Strategies (state/strategy.rs) | none | index of a remote | TunnelInfo |
| Accept loop (lib.rs `run_tunnel`) | listener, close channel | accept, stop | registry, connection task |
| Connection task (lib.rs `process_socket`) | retries left, last remote, options read when a remote was selected | the retry loop, then the copy | registry, copy |
| Check of a dead remote (state.rs `check_dead`) | tunnel key, remote | sleep, probe, then revive or spawn the next check | registry |
| Copy (aio.rs) | two buffers with positions, state of each direction, wakers | `poll` | two streams, the close channel |
| Opening and closing (lib.rs `create_tunnel`, `stop_tunnel`) | the listener bound so far | exists, bind, insert; remove, signal | registry, accept loop |
| Line protocol (controller*) | sessions, one command at a time | open, close, add, remove, status, detail, help, exit | registry, opening and closing |
| JSON-RPC (rpc.rs) | calls, many at a time | the same and the queries | registry, opening and closing |
| Statistics and instruments (state/stats.rs, state/info.rs, state.rs) | exported series per tunnel and remote, number of tunnels | add | every method of the records |
| Specifications (tunnel.rs, tunnel/parser.rs) | none | parse a socket, a tunnel, options | |
| Configuration, TLS, errors, main | default options | parse, start | opening |

The tasks share the registry and nothing else. They hold no lock across an
await, so a task that comes back from an await (a connection attempt, a sleep, a
copy that lasts for hours) finds under its key what others have left there: the
remote may be dead, removed, or removed and added again; the tunnel closed, or
closed and opened again with other options. Closing is announced over a watch
channel; aborting a check works only until its last await.

Requests come over several interfaces at once. Opening a tunnel tests the
registry, waits for an address, tests the registry again and inserts, each under
a lock of its own; closing removes the tunnel and then tells the accept loop,
which gives up the address when it gets round to it.

What is hard here, and what the properties are for: calls that arrive at a
record other than the one they are about; a remote in transit between rotation
and `dead_remotes`; checks that outlive their reason or are lost; counters that
underflow (a panic in the dev profile, a huge number in release); draining after
a close; requests that interleave, so that two callers open one key or the loop
of a tunnel gets lost; instruments kept by hand next to the records; an index
into a map whose order changes; and in the copy lost wakeups, bytes held back,
half-closed connections and the close signal at any point.
`PROJECT.json` lists each hazard with its line.

## Modules

| Module | What it models |
|---|---|
| `TunnelInfo` | The records and what each method does to them, as operators from the record before to the record after. Underflow is `Dec`/`Panics`, by profile. |
| `Proxy` | The running proxy: registry, accept loops, connection tasks, checks, commands. Extends `TunnelInfo`. |
| `MCProxy` | Constants of `Proxy` for TLC. |
| `TunnelInfoProof`, `ProxyProof` | Lemmas and theorems about the two. |
| `Metrics`, `MCMetrics` | The proxy with the instruments it exports. Extends `Proxy`. |
| `Balancer`, `MCBalancer` | One tunnel's rotation in IndexMap order with the three strategies. Extends `TunnelInfo`. |
| `Pipe` | What an established connection promises to its two ends. |
| `CopyBidirectional`, `MCCopy` | The copy future, shown to implement `Pipe`. |
| `TunnelSpec` | What texts are parsed to: normal forms of sockets, options. |
| `Registry` | What the control interfaces promise: a map whose requests take effect one at a time. |
| `Control`, `MCControl` | Line protocol, JSON-RPC and start at work on one registry, with accept loops and their addresses; shown to implement `Registry`. Extends `TunnelSpec`. |
| `ControlProof`, `ControlRefinement` | Lemmas and theorems about `Control`. |
| `CountsProof` | Lemmas and theorems about the counters of `Proxy` and the instruments of `Metrics`. Extends `Metrics`, `ProxyProof`. |
| `BalancerProof` | Lemmas and theorems about `Balancer`. |
| `CopyProof`, `CopyRefinement` | Lemmas and theorems about `CopyBidirectional`; that it implements `Pipe`. |

### Proxy

`tunnels[k]` is the registry's entry. `listener[k]` says whose accept loop
holds the socket. A connection `conns[c]` is the local state of a
`process_socket` task; its `pc` names the next State call or the await the task
is in:

    accepted -> counted -> select -> connecting -> copying -> closing
                   |          ^          |
                 (gone)       +- error --+

`channel` is the tunnel that accepted the client (its close channel), while
`key` is all the State calls get: that difference is where most of the hazards
live. A check `checks[id]` is `waiting` while it sleeps or probes, which is
where `abort()` can stop it, and then `live` or `unreachable`, where it cannot.
An action is one State call with the local computation around it, because each
call is atomic under the entry's lock; `RemoteDied` includes the spawn of the
check, `CheckAgain` the spawn of the next one and the exchange of the handle,
`CloseTunnel` the aborts. `CloseTunnel` also stands for the send on the close
channel just after: the send only lets others stop, so its delay is a delay of
their steps. The removal and the aborts are one step although the lock is
released in between (state.rs:136-146): a check whose
probe ends there is one whose probe ended just before the removal, which takes
the same State call after it.
Opening a tunnel is one step here; its steps are in `Control`.

`connect_timeout` is read after `select_remote` has counted the attempt. One
that is no duration (negative, NaN) panics: `AfterSelect` then ends the task,
and the counts stay.

`remote_error` compares with the threshold the connection cloned in
`select_remote`, kept as `conns[c].errors_till_dead`. `check_dead` and the calls
of a connection look for a remote where the code does: among those in rotation
or among the dead, never both.

The choice of a remote is "any in rotation", which is Random, the default.

### Metrics

Each action is one of `Proxy` together with what the same method adds to the
instruments. A series belongs to a key and a remote, not to a record, so it
goes on when the tunnel is opened again; an `i64` and a `usize` of one width are
compared modulo 2^w, so that a counter that wraps may be followed. What is added
is written down from the code, including the order in which a record and its
instrument change: `remote_connected` and `remote_recovered` subtract
`num_errors` before they reset it, the others add after the subtraction that
may panic. `GaugesFollowStats` holds; `ReceivedExported` does not.

### Balancer

The same events for one tunnel, with the map's order. `IndexMap::remove` (1.9)
is `swap_remove`: the last entry takes the removed one's place; insertion
appends. `last_selected_index` is left as it is by all of that. The counters
the minimum-open-connections strategy sees (`info`) are kept apart from the
connections there are in fact (`attempts`, `streams`), so that a property can
relate them. `SelectionInRange` is what entitles `Proxy` to its abstraction:
whatever the strategy, a rotation that is not empty yields one of its remotes.

### CopyBidirectional and Pipe

A step is one call of `poll_read`, `poll_write`, `poll_flush`, `poll_shutdown`
or of the finish future, with the code up to the next; the ends and the close
signal act between any two. A call that is Pending registers the waker
(`waits`); an event that happens removes it and wakes the task. Byte *i* of a
stream is the number *i*. The stream to an end may keep up to `Hold[end]` bytes
until it is flushed (a TLS session does; plain TCP holds 0) and has `Window` bytes
of room under way. In the proxy the client's stream is always plain TCP and the
remote's may be TLS. A poll that tokio's cooperative budget cuts short is a
Pending with the task woken at once; it is left out.
`Delivered` says that a receiver which keeps taking catches up with its sender
again and again: what an end sends in all is bounded by its load.
`Pipe` says, without buffers or wakers, what both ends may rely on: bytes arrive
whole and in order, the end of the stream after the last of them, and only a
reset or the closing of the tunnel cuts a stream short. `ImplementsPipe` is the
refinement: bytes that left the proxy have arrived, and the pipe is over when
the future has returned.

### Control, TunnelSpec and Registry

A caller is a session of the line protocol, a JSON-RPC call, or `main` with the
tunnels of the command line. `call[c].pc` says where its request is:

    closed <-> idle -> start --------------------------------> answer -> idle
                         |- open:   -> bind -> contains -> insert -^
                         |- close:  -> signal ---------------------^
                         |- status, detail: -> again --------------^

A step is one lock of the registry. `loops` says which addresses have an accept
loop and for which key; `told` are the loops whose close channel was used or
dropped. The channel itself has no variable: an address is held by one loop at
a time, so `tunnels[k].addr` says which loop the sender in `tunnels[k]` reaches.
`Insert` drops the tunnel it replaces, if any, and with it that sender; the
spawn of the loop follows without an await and is part of it. A session
executes one command at a time and ends on EXIT, at the end of the input and
after a line it cannot read; it does not notice a client that has gone while a
command runs, whereas jsonrpsee drops the future of a call (`CancelRpc`), which
can only be where the future waits: in `bind`.

A text (`TunnelSpec`) is what the parser tells apart: a host or none, a port,
and whether something is left over. A port alone and 127.0.0.1 with that port
are one key; a name is another key even where it is the same address.

`Registry` is the abstract specification. A request is pending, then done, and
has its effect in between at one moment; OPEN may fail for reasons of its own (an
address that cannot be bound) but succeeds only on a new key; the rest have the
one result that fits the registry at that moment. DETAIL is the exception: it
reads the remotes and then the options, and a tunnel that is closed and opened
again in between is shown with the remotes of the old one and the options of the
new. So it has two moments, `Glimpse` and `Show`. STATUS shows its second
reading only and has one. `ImplementsRegistry` maps a call that has its result to
done; that CLOSE is answered before the loop has ended is what the promise
allows.

## Runs

| Run | Checks | Instance |
|---|---|---|
| `core` | `TypeOK`, `LiveDeadDisjoint`, `DeadIsChecked`, `ErrorsMatchPlace`, `OnlyAdminChangesMembers` | 1 remote, 2 connections, 2 openings, threshold 2, 2 checks, timeouts good and bad, release profile |
| `clients` | `WaitingChecksTargetDead`, `TunnelCountExact`, `SteadyCountsExact`, `GaugesFollowStats` | 2 remotes that die of one error or never, 2 connections, 1 opening, no REMOVE |
| `live` | `ClosedTunnelDrains`, `ConnectingEnds`, `DeadRemoteReturns` | 2 remotes, one of them removed and added, 1 connection, 2 openings, timeouts good and bad, fair tasks, dev profile |
| `balancer` | `TypeOK`, `SelectionInRange`, `OncePerRound`, `PicksLeastBusy` | 3 remotes, all strategies, 4 connections until a remote leaves rotation, 2 from then on |
| `copy` | `TypeOK`, `NothingLost`, `NoLostWakeup`, `ImplementsPipe`, `Delivered`, `EofPassedOn`, `FinishEnds` | buffer of 2, 2 bytes each way or up to 4 of one end, a TLS remote (`Hold` 1) that takes what arrives, a client that need not, both may reset |
| `control` | `TypeOK`, `LoopsOwned`, `GaugeIsCount`, `ImplementsRegistry`, `AddressFreed` | a session, an RPC call, one tunnel of the command line; two keys of one address |

Runs that must fail, each a disagreement between the code and what the
repository says of it:

| Run | Violates | What it shows |
|---|---|---|
| `v_remote_counts` | `RemoteCountsExact` | A remote that died and came back keeps counting connections that are gone, or misses some that are there: its record is not updated while it is dead. |
| `v_tunnel_count` | `NoConnectionHidden` | After CLOSE and OPEN of one socket, a connection of the old tunnel counts down the new one, which shows 0 while it has a connection of its own. |
| `v_orphan_check` | `WaitingChecksTargetDead` | REMOVE of a dead remote leaves its check running. |
| `v_stale_threshold` | `ErrorsMatchPlace` | A connection of the old tunnel applies the old threshold to the new tunnel's remote. |
| `v_received` | `ReceivedExported` | Bytes a tunnel received are exported as bytes it sent. |
| `v_double_open` | `GaugeIsCount` | Two callers open one key whose name has two addresses. Both are answered OK, the second tunnel replaces the first, whose loop and connections end, and `number_of_tunnels` is one too high for ever. |

Passing runs say under which conditions the same promises do hold: `clients`
that the counters of remotes which never die are exact (`SteadyCountsExact`),
that the tunnel's own count is exact while its key is not opened again, and that
no waiting check is left over while no dead remote is removed; `core` that the
error counts agree with the place when all openings have one threshold;
`control` that the gauge is right when a key has one address.

### Bounds, and why they are enough

- *Two openings of one key*: what matters of earlier openings is that there was
  one; a task of it has the wrong channel. More keys share no state.
- *Two remotes* let one be in rotation while the other moves; *two connections*
  let one kill a remote under the other. `core` has one remote, removed and added
  under the connections and checks of its predecessor: its properties are about
  one remote at a time, and only `select_remote` and the aborts of CLOSE look at
  several, which `live` and `clients` have; for any number of them they are proved.
  Two checks are a stale and a current one; a
  check's successor takes the other id. `live` has one connection: what it waits
  for is the fate of one task at a time, and the second remote lets that task
  retry elsewhere and lets two checks compete. `MaxChecks` blocks a death when
  all ids are taken (a check may always hand on its own id).
- `WordSize` is 2^w of a usize. It is at least the number of connections plus
  one wherever an exact count is checked. A counter that leaks (see
  `v_remote_counts`) wraps early in the model; the properties checked
  there do not depend on its value.
- `ErrorCap` saturates `num_errors` at or above every threshold, which is all
  the code compares it with; a threshold above it is never reached.
- `MaxMoved`: bytes in all; one suffices to tell two counters apart, two let
  both directions move.
- *Balancer*: with up to two remotes to begin with, four connections are two for
  each; the least busy never gets ahead by more. Once a remote has left rotation
  counters are no longer exact and `PicksLeastBusy` claims nothing, so two
  connections are enough to move the indexes and orders the rest is about. Its
  `WordSize` is 3 because minimum open connections never gives one remote three
  of four; the other strategies do not look at the counters.
- `retries`: one or two attempts; the second is the retry.
- *Copy*: a buffer of two bytes is the smallest that can be half written and
  topped up. `Loads` lists how much the two ends send in a case. Two bytes each way
  let both directions be active, ended and failing in every order, and are one
  more than the window, so the direction to a client that takes nothing is stuck
  with a byte in the buffer. A top-up reads while a byte waits in the buffer
  behind whatever is under way: that is the third byte of the remote (one under
  way to the client, one unwritten) and the fourth of the client (one in the
  window, one held by the TLS session, one unwritten), hence the other two cases.
- *Control*: three callers of different kinds, of which two race for one key
  while the third closes it. With one address of two keys an OPEN fails until the
  loop of the other key's tunnel has ended. A port alone and the address in full
  are inputs for one key. Requests about several remotes would repeat
  `ChangeRemotes`, which `Proxy` has in detail.
- Symmetry is used for remotes and connections in safety runs, never with
  liveness. In the `Balancer` run the remotes of `First` are symmetric because
  the tunnel is opened with them in any order.
- Deadlock checking is off everywhere: a proxy nobody opens a tunnel in, or
  whose connections are all done, rests.

### Fairness

`TaskFairness` is weak fairness of what a task does by itself: tokio polls a
task that is ready, a connection attempt ends because it runs under a timeout,
a sleep ends. It says nothing of clients, of the administrator, or of when a
copy ends by itself (`CopyDone` is not fair; `CopyFinished`, the close signal,
is). `DeadRemoteReturns` states the one thing more it needs itself: that a
remote which is probed again and again answers in the end (`SF_vars(Answers)`);
strong, because the chance passes with each failed probe. For the copy,
`FairSpec` is weak fairness of the future's own steps (it is polled when woken)
and of the ends in `Takers` taking what has arrived. Nothing is ever assumed of
what an end sends, and `Delivered` and `EofPassedOn` claim nothing of a direction
whose receiver is not a taker. In `Control`, `Fairness` is that a task which is
about to signal a close channel does so (there is no await before it), and that
an accept loop polls its channel. Callers need not take answers, and the
resolution of a name need not come back.

## Proofs

Every invariant, every action property and both refinements that a run checks are
also proved, for instances of any size. Where a property holds only under a
condition, the theorem has it as a hypothesis, about the constants or about what
commands do.

`ProxyProof` proves, for any sets of keys, remotes and connections, any options
and bounds, and both profiles:

- `TypeCorrect`: `Spec => []TypeOK`. `TypeOK` is not inductive: a failed
  attempt decrements `retries`, a natural number only if there was one left.
  The inductive invariant is `TypeInv == TypeOK /\ ConnectingHasRetries`.
- `PlacesDisjoint`: `Spec => []LiveDeadDisjoint`, inductive with `TypeInv`. The
  cases that matter are `RemoteDied`, `Revive` and `AddRemote`.
- `DeadRemotesChecked`: `Spec => []DeadIsChecked`, inductive with `TypeInv`. The
  argument: a check is freed only by `CloseTunnel` (its tunnel goes with it, and
  the ids of other tunnels' checks differ because checks carry their key), by
  `Revive` (its remote is no longer dead, and any other dead remote has another
  check) and by `CheckAgain` (which puts the next one's id in the record).
- `MembersAreAdmins`: `Spec => OnlyAdminChangesMembers`, from `TypeInv`.
- `ErrorsDecidePlace`: `Spec => []ErrorsMatchPlace`, for the release profile and one
  threshold *t*. `ErrorsInv(t)` adds that every attempt under way carries *t*. In the
  dev profile the property is false: `remote_error` adds the error, then panics
  in the subtraction, and the remote that reached the threshold is not moved.
  With two thresholds it is false by `v_stale_threshold`.
- `ChecksTargetDead`: `WaitingChecksTargetDead`, if REMOVE takes no dead remote
  (`RemovesLive`) and OPEN no key at which a task of an earlier tunnel is left
  (`OpensAfresh`), both stated as action properties. The invariant is
  `ChecksOwned`: while its tunnel is open, each check that has not ended is the
  one that the join handle of its remote names. Hence a remote has one check, and
  `Revive` and `CheckAgain` cannot pull the remote from under another one. The
  code does not see to either condition (`v_orphan_check`).
  `ChecksTargetDeadOnce` is the case of one opening and no REMOVE.

`CountsProof` is about the counters, with sets of connections of any size below
2^w (`Countable`) and connect timeouts that are durations (`UsableTimeouts`; one
that is not ends the task with its counts left):

- `TunnelsCountConnections`: `TunnelCountExact`, in the release profile and under
  `OpensAfresh`. `CountedOn(k)` are the connections the open tunnel itself
  accepted. The methods know only the key, so the invariant is about keys:
  `CountedAtExact` (each step of a connection puts it into or takes it out of
  `CountedAt(k)` as it counts up or down), with `ChannelsMatch`: under
  `OpensAfresh` the connections at the key of an open tunnel are all its own.
  Without `OpensAfresh` even `NoConnectionHidden`, which asks only that the count
  shows no fewer connections than there are, is violated (`v_tunnel_count`). In
  the dev profile a task that panics in the counters of a remote that died and
  returned never counts down.
- `SteadyRemotesCount`: `SteadyCountsExact`, in both profiles, under `OpensAfresh`
  and `AddsAfresh` (no remote is added while a connection of an earlier one of its
  name is left). The inductive invariant `SteadyInv` says of a tunnel whose
  threshold is out of reach that its own count is exact, that it has no dead
  remotes, that each of its remotes counts its attempts and its streams
  (`CountsOf`), and that the attempts under way carry its threshold. That the
  counts are exact is also why no subtraction underflows, so it holds in
  the dev profile too.
- `InstrumentsShowRecords`: `GaugesFollowStats`, in the release profile, if what a
  command brings is shown as zero when it does (`StartsAtZero`: no series of the
  same key and remote goes on from before). Each addition to an instrument is
  shown to be what the method does to its counter, modulo 2^w, for a remote in
  rotation, a dead one and one that moves. Nothing is assumed of the counters:
  they may be wrong and wrap round, the instruments are wrong with them. In
  the dev profile a call that panics half way leaves the two apart.
- Each has a form `...Once` without hypotheses about commands, for one opening (and
  no REMOVE, for the last two), where the conditions are shown to hold: nothing
  has begun before the first OPEN (`Fresh`), connections and series belong to
  members of the tunnel (`Attached`, `Untouched`). These are the theorems that go
  with the instance of `clients`.

`BalancerProof` proves, for any finite set of remotes and any bounds:

- `TypeCorrect`, `RemoteIsFound`: `TypeOK` and `SelectionInRange`. What swap_remove
  leaves is again a rotation without repetitions, and the scan of the least
  busy, a fold over the records, returns an index of rotation.
- `EveryRemoteOnce`: `OncePerRound`. The invariant `RoundInv` says where the remotes
  of the current round are: at the *m* indexes up to the last one selected, going
  round rotation, for some *m* below its size.
- `LeastBusyPicked`: `PicksLeastBusy`, if a word can count the connections there may
  be (`MaxSteady < WordSize`). `SteadyInv` equates the records the strategy sees
  with the connections there are; the scan is shown to return a minimum by
  induction over the set it folds, written out with sets (`AllNumbers`,
  `AllSubsets`), because the library's induction takes a predicate as a parameter.

`CopyProof` and `CopyRefinement` prove, for any buffer, window, hold, numbers of
bytes and failures:

- `TypeCorrect`, `LosesNothing`: `TypeOK` and `NothingLost`. `CopyInv` ties the place
  of the future to the copies (`Placed`: a fill finds the buffer empty, a
  top-up finds it part written with room left) and says byte by byte what is in
  the buffer (`Carried`).
- `WakesUp`: `NoLostWakeup`. The property is about a future that waits; the
  invariant `Registered` says at each step before that what the poll so far has
  registered: the first direction stays `Settled` while the second is polled, or
  the task has been woken. `Settled` means ended, or blocked in one of the calls
  the direction can be Pending in (the read, the write, the flush of an idle
  direction, the last flush, the shutdown) with the waker of that call among
  `waits`.
- `PipeImplemented`: `BufSize # 0` implies `Spec => ImplementsPipe`. Each call is a
  step of `Pipe` or a stutter; `AllEnded` says why a direction may have ended.
  With a buffer of 0 bytes every read returns 0 bytes, which the code takes for the
  end of the stream: the command line accepts that size (config.rs:31).

`ControlProof` proves, for any callers, inputs, sockets, names and addresses:

- `TypeCorrect`: `Spec => []TypeOK`. The work is in the parser: whatever list of
  texts and options comes in, what the request holds is of its type, and an
  OPEN has a key and options (`ParsedIsValidRequest`).
- `LoopsAreOwned`: `Spec => []LoopsOwned`. Alone it is not inductive. A step of
  one request preserves it only because the address that request has bound, or
  that it is about to close, is nobody else's: `Ownership` adds that the holders
  of bound addresses are distinct and off the loops (`BoundAlone`), that a loop
  about to be told belongs to no open tunnel and to one CLOSE only
  (`ClosesAlone`), and that a loop runs on an address its key has
  (`OnOwnAddress`). `Insert` is the case that needs most of it, with the tunnel
  it may replace.
- `GaugeExact`: `OneAddressPerName` implies `Spec => []GaugeIsCount`. Where a key
  has one address the request that is about to insert holds it, an open tunnel
  of the key would hold it too (`LoopsOwned`, `OnOwnAddress`), hence the key is
  new (`InsertsNewKey`). `v_double_open` shows what happens otherwise.

`ControlRefinement` proves `RegistryImplemented`: under the same hypothesis,
`Spec => ImplementsRegistry`. Each action of `Control` is shown to be a step of
`Registry` or a stutter under the mapping; `InsertsNewKey` is what makes an
`Insert` an `Open` that succeeds. Two more invariants are needed: a caller that
waits for nothing has neither request nor result (`IdleIsBlank`), and DETAIL has
seen the remotes when it looks again (`DetailHasSeen`).

All rest on the named assumptions about the constants (`TunnelInfo`, `Proxy`,
`Metrics`, `Balancer`, `CopyBidirectional`, `TunnelSpec`, `Control`), which TLC
evaluates in the runs of the `MC` modules. `TunnelInfoProof` has what the others
share: every operator of `TunnelInfo` returns a record of the right type and moves
remotes between the two maps as it should.

Only model-checked: all liveness (`ClosedTunnelDrains`, `ConnectingEnds`,
`DeadRemoteReturns`, `Delivered`, `EofPassedOn`, `FinishEnds`, `AddressFreed`),
which the prover does not reach.

## Not modelled, and limits

- *Time*: sleeps and timeouts are steps that may happen at any moment. That
  `check_dead` ignores the `check-interval` option and always waits 10 s
  (state.rs:251) is therefore not visible.
- *Opening* is one step in `Proxy`; `Control` has its steps and no connections.
  What `Proxy` leaves out by that is a tunnel that replaces another one of its
  key (`v_double_open`): it is a CLOSE and an OPEN in one, for the connections.
- *Counting* the tunnels is one step, and the gauge changes with the map. The
  code adds up the shards of the map one by one; a number read while tunnels
  are opened and closed may mix two moments. The same goes for the lists that
  STATUS LONG and listTunnels print, which are left out.
- *Totals* (connections, errors), byte counters of remotes and the time of the
  last error are write-only and left out, as is the Prometheus endpoint.
- The default options are a constant: `main` sets them before anything else runs.
- A panic unwinds the task that executes it and changes nothing more; the map's
  lock is released by the unwinding.
- The finish signal does not interrupt a shutdown, and the shutdown of a TLS
  stream waits until the session is flushed. `FinishEnds` is therefore checked
  for a client on plain TCP that takes nothing and a TLS remote that takes what
  arrives; with a TLS remote that takes nothing the copy may outlive the tunnel.
  `CopyFinished` of `Proxy` is fair on the strength of `FinishEnds`, so
  `ClosedTunnelDrains` holds under the same condition.
- The error of a write of 0 bytes (aio.rs:138-142) is left out: TCP and rustls
  never report one for a slice that is not empty.
- The grammar of host names and addresses, the wording of answers, jsonrpsee,
  TLS, the command line and error texts are not modelled. Two options stand for
  all: they are parsed alike.

## Plan

Done: all modules, and the proofs of every safety property the runs check.
What is left:

1. How far counts may be off where they are not exact: after CLOSE and OPEN
   (`v_tunnel_count`) by at most the connections of earlier tunnels, for a remote
   that died (`v_remote_counts`) by those it had when it did. Stated over sets of
   connections, checked and then proved in `CountsProof` from the lemmas it has.
2. The environment of the conditional theorems, narrower: `OpensAfresh` speaks of all
   tasks of an earlier tunnel, `TunnelsCountConnections` needs only those that
   count down, `ChecksTargetDead` only the checks.
3. More of `TunnelSpec`: all six options and their ranges.
