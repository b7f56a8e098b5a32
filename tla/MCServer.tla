------------------------------ MODULE MCServer ------------------------------
(***************************************************************************)
(* Small instances of Server for TLC.                                      *)
(***************************************************************************)
EXTENDS Server

CONSTANTS u1, k1

\* A session that was handed out before the first start.
MCOutstanding == {[user |-> u1, key |-> k1, exp |-> 0]}
=============================================================================
