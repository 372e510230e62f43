------------------------------ MODULE MCProxy ------------------------------
(***************************************************************************)
(* Values for the constants of Proxy that a configuration cannot write.    *)
(***************************************************************************)
EXTENDS Proxy, TLC

TunnelOptions(retries, errors) ==
  [remote_connect_retries |-> retries, errors_till_dead |-> errors,
   connect_timeout |-> "usable"]

\* A timeout that no attempt survives.
BadTimeout == {[TunnelOptions(1, 2) EXCEPT !.connect_timeout = "unusable"]}

\* Dead after the first error, one more attempt (the code's default threshold).
OneError == {TunnelOptions(2, 1)}

\* Dead after two errors in a row.
TwoErrors == {TunnelOptions(2, 2)}

\* The same, or attempts that panic.
TwoErrorsOrPanic == TwoErrors \cup BadTimeout

\* Dead after the first error, or attempts that panic.
OneErrorOrPanic == OneError \cup BadTimeout

\* A threshold above ErrorCap: remotes never die.
NeverDead == {TunnelOptions(2, 3)}

\* Tunnels whose remotes die and tunnels whose remotes do not.
OneErrorOrNever == OneError \cup NeverDead

\* Tunnels may be opened with either threshold.
OneOrTwoErrors == {TunnelOptions(1, 1), TunnelOptions(1, 2)}

AllRemotes == {Remotes}

Symmetry == Permutations(Conns) \cup Permutations(Remotes)
=============================================================================
