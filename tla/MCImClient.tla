---------------------------- MODULE MCImClient ----------------------------
(* The client library with two callers, two messages and two connections.  *)
EXTENDS ImClient
=============================================================================
