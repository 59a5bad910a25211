---------------------------- MODULE MCMuxClient ----------------------------
(* An instance of MuxClient small enough for TLC: three flows, of which    *)
(* two can share a client that a third then replaces.                      *)
EXTENDS MuxClient
=============================================================================
