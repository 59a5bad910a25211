----------------------------- MODULE MCUdpFlows -----------------------------
(* An instance of UdpFlows small enough for TLC: the keys are model values *)
(* and the limits small enough to be reached.                              *)
EXTENDS UdpFlows
=============================================================================
