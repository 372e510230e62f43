----------------------------- MODULE MCMetrics -----------------------------
(***************************************************************************)
(* The metered proxy with the constants of MCProxy.                        *)
(***************************************************************************)
EXTENDS MCProxy, Metrics
=============================================================================
