----------------------------- MODULE MCLwipTcp -----------------------------
(* Instances of LwipTcp for TLC; the configurations give the constants. *)
EXTENDS LwipTcp
=============================================================================
