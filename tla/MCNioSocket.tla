---------------------------- MODULE MCNioSocket ----------------------------
(* The instance TLC checks of NioSocket. *)
EXTENDS NioSocket
=============================================================================
