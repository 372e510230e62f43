------------------------------- MODULE MCCopy -------------------------------
(***************************************************************************)
(* Values for the constants of CopyBidirectional.                          *)
(***************************************************************************)
EXTENDS CopyBidirectional

\* The window takes a byte and the stream to the remote holds another, so that
\* three bytes of the remote, or four of the client, are enough for one to be
\* read while another waits behind a full stream.
Cases == {[a |-> 2, b |-> 2], [a |-> 1, b |-> 3], [a |-> 4, b |-> 0]}

\* The remote is reached over TLS.
TlsRemote == [a |-> 0, b |-> 1]
=============================================================================
