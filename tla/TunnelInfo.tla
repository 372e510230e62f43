---------------------------- MODULE TunnelInfo ----------------------------
(***************************************************************************)
(* The record the registry keeps for one open tunnel, and what each of     *)
(* its methods does to it (src/state/info.rs, src/state/stats.rs and the   *)
(* part of src/state.rs that runs under the tunnel's map entry).           *)
(*                                                                         *)
(* Every operator maps the record before a call to the record after it.    *)
(* The caller holds the registry's lock on the entry during the call, so   *)
(* a call is one atomic step of the modules that use these operators.      *)
(*                                                                         *)
(* Left out: byte counts, total counts and the time of the last error      *)
(* (they only grow and nothing reads them back), and the exported metrics. *)
(***************************************************************************)
EXTENDS Integers, FiniteSets

CONSTANTS
  Remotes,        \* the socket specs that may be remote ends
  NoRemote,       \* Option::None where a remote is optional
  Options,        \* the TunnelOptions a tunnel may be opened with
  MaxOpens,       \* bound: how many times tunnels are opened in all
  MaxChecks,      \* bound: how many check_dead tasks exist at once
  WordSize,       \* 2^w: the number of values of a usize
  ErrorCap,       \* num_errors saturates here; see SaturatedInc
  OverflowChecks  \* TRUE: arithmetic underflow panics (dev profile);
                  \* FALSE: it wraps (release profile)

\* A connect_timeout is any f32 the user writes; Duration::from_secs_f32 panics
\* on one that is negative, too large or not a number.
Timeouts == {"usable", "unusable"}

ASSUME NoRemoteAssumption == NoRemote \notin Remotes
ASSUME OptionsAssumption ==
  Options \subseteq [remote_connect_retries : Nat, errors_till_dead : Nat,
                     connect_timeout : Timeouts]
ASSUME MaxOpensAssumption == MaxOpens \in Nat \ {0}
ASSUME MaxChecksAssumption == MaxChecks \in Nat
ASSUME WordSizeAssumption == WordSize \in Nat \ {0, 1}
ASSUME ErrorCapAssumption == ErrorCap \in Nat
ASSUME OverflowChecksAssumption == OverflowChecks \in BOOLEAN

-----------------------------------------------------------------------------
(* Maps: IndexMap and DashMap, as functions on the keys they hold.          *)

Put(map, key, val) ==
  [x \in DOMAIN map \cup {key} |-> IF x = key THEN val ELSE map[x]]

Drop(map, key) == [x \in DOMAIN map \ {key} |-> map[x]]

IsMap(map, keys) ==
  DOMAIN map \subseteq keys /\ map = [x \in DOMAIN map |-> map[x]]

-----------------------------------------------------------------------------
(* Counters.                                                                *)

Word == 0 .. WordSize - 1

ErrorCount == 0 .. ErrorCap

\* `x += 1` on a usize.
Inc(n) == (n + 1) % WordSize

\* `x -= 1` on a usize panics: the assignment does not happen and the task
\* that executes it unwinds.
Panics(n) == OverflowChecks /\ n = 0

\* `x -= 1` on a usize.
Dec(n) ==
  IF n > 0 THEN n - 1 ELSE IF OverflowChecks THEN 0 ELSE WordSize - 1

\* `num_errors += 1`. The code only compares num_errors with a threshold and
\* resets it, so beyond every threshold that can be reached its value is
\* immaterial; an errors_till_dead above ErrorCap is one never reached.
SaturatedInc(n) == IF n < ErrorCap THEN n + 1 ELSE n

-----------------------------------------------------------------------------
(* Types. close_channel is the identity of the watch channel made for this  *)
(* opening of the tunnel; join_handle is the id of a check_dead task.       *)

Channels == 1 .. MaxOpens

CheckIds == 1 .. MaxChecks

RemoteInfo ==
  [streams_open : Word, streams_pending : Word, num_errors : ErrorCount]

DeadRemote == [remote : RemoteInfo, join_handle : CheckIds]

\* A TunnelInfo whose remotes are these ones in rotation and these dead.
Info(live, dead) ==
  [close_channel : Channels,
   options       : Options,
   streams_open  : Word,
   remotes       : [live -> RemoteInfo],
   dead_remotes  : [dead -> DeadRemote]]

IsInfo(ti) ==
  /\ DOMAIN ti.remotes \subseteq Remotes
  /\ DOMAIN ti.dead_remotes \subseteq Remotes
  /\ ti \in Info(DOMAIN ti.remotes, DOMAIN ti.dead_remotes)

-----------------------------------------------------------------------------
(* RemoteInfo.                                                              *)

NewRemoteInfo ==
  [streams_open |-> 0, streams_pending |-> 0, num_errors |-> 0]

new_pending_stream(ri) == [ri EXCEPT !.streams_pending = Inc(@)]

\* A panic on streams_pending comes after streams_open has been incremented
\* and before num_errors is reset.
remote_connected(ri) ==
  [streams_open    |-> Inc(ri.streams_open),
   streams_pending |-> Dec(ri.streams_pending),
   num_errors      |->
     IF Panics(ri.streams_pending) THEN ri.num_errors ELSE 0]

\* Fault: a failed attempt is still counted as pending.
error_keeps_pending(ri) == [ri EXCEPT !.num_errors = SaturatedInc(@)]

\* RemoteInfo::error for a client's connection attempt.
error(ri) ==
  [ri EXCEPT !.num_errors = SaturatedInc(@), !.streams_pending = Dec(@)]

\* RemoteInfo::error for a failed check of a dead remote: no client address,
\* so streams_pending is left alone.
check_error(ri) == [ri EXCEPT !.num_errors = SaturatedInc(@)]

\* Fault: a remote comes back with the errors it died of.
recovered_keeps_errors(ri) == ri

remote_recovered(ri) == [ri EXCEPT !.num_errors = 0]

remote_disconnected(ri) == [ri EXCEPT !.streams_open = Dec(@)]

-----------------------------------------------------------------------------
(* TunnelInfo.                                                              *)

NewTunnelInfo(channel, remotes, options) ==
  [close_channel |-> channel,
   options       |-> options,
   streams_open  |-> 0,
   remotes       |-> [r \in remotes |-> NewRemoteInfo],
   dead_remotes  |-> [r \in {} |-> NewRemoteInfo]]

\* Every remote the tunnel was given, in rotation or not.
Members(ti) == DOMAIN ti.remotes \cup DOMAIN ti.dead_remotes

client_connected(ti) == [ti EXCEPT !.streams_open = Inc(@)]

\* State::select_remote once a strategy has chosen remote r.
select(ti, r) == [ti EXCEPT !.remotes[r] = new_pending_stream(@)]

\* State::remote_connected: nothing happens if r is not in rotation.
connected(ti, r) ==
  IF r \in DOMAIN ti.remotes
  THEN [ti EXCEPT !.remotes[r] = remote_connected(@)]
  ELSE ti

\* The attempt just failed is the one that makes r dead.
is_dead(ti, r, threshold) ==
  /\ r \in DOMAIN ti.remotes
  /\ ~ Panics(ti.remotes[r].streams_pending)
  /\ error(ti.remotes[r]).num_errors >= threshold

\* State::remote_error when r stays in rotation.
count_error(ti, r) ==
  IF r \in DOMAIN ti.remotes
  THEN [ti EXCEPT !.remotes[r] = error(@)]
  ELSE ti

\* State::remote_error when r moves to dead_remotes; handle is the check_dead
\* task just spawned.
bury(ti, r, handle) ==
  [ti EXCEPT
     !.remotes = Drop(@, r),
     !.dead_remotes =
       Put(@, r, [remote |-> error(ti.remotes[r]), join_handle |-> handle])]

\* check_dead, the remote answered: r returns to rotation.
recover(ti, r) ==
  [ti EXCEPT
     !.remotes = Put(@, r, remote_recovered(ti.dead_remotes[r].remote)),
     !.dead_remotes = Drop(@, r)]

\* Fault: the handle of the next check is not kept.
recheck_old_handle(ti, r, handle) ==
  [ti EXCEPT !.dead_remotes[r].remote = check_error(@)]

\* check_dead, the remote did not answer: handle is the next check_dead task.
recheck(ti, r, handle) ==
  [ti EXCEPT !.dead_remotes[r] =
     [remote |-> check_error(@.remote), join_handle |-> handle]]

\* State::client_disconnected. A panic on the tunnel's counter leaves the
\* remote's one alone.
client_disconnected(ti, r) ==
  IF r \in DOMAIN ti.remotes /\ ~ Panics(ti.streams_open)
  THEN [ti EXCEPT !.streams_open = Dec(@),
                  !.remotes[r] = remote_disconnected(@)]
  ELSE [ti EXCEPT !.streams_open = Dec(@)]

\* Fault: only remotes in rotation are looked up for a duplicate.
may_add_live_only(ti, r) == r \notin DOMAIN ti.remotes

may_add(ti, r) == r \notin DOMAIN ti.remotes /\ r \notin DOMAIN ti.dead_remotes

add_remote(ti, r) == [ti EXCEPT !.remotes = Put(@, r, NewRemoteInfo)]

\* The DeadRemote goes with its handle; the check_dead task is not aborted.
remove_remote(ti, r) ==
  IF r \in DOMAIN ti.remotes
  THEN [ti EXCEPT !.remotes = Drop(@, r)]
  ELSE [ti EXCEPT !.dead_remotes = Drop(@, r)]
=============================================================================
