---------------------------- MODULE MCLeafReload ----------------------------
(* LeafReload for TLC; its component is the leaf in some behaviours and an   *)
(* ingress in the others.  A liveness run: no symmetry.                      *)
EXTENDS LeafReload
=============================================================================
