-------------------------- MODULE MCTcpConnection --------------------------
(* Instances of TcpConnection; each configuration picks its own bounds.    *)
EXTENDS TcpConnection
=============================================================================
