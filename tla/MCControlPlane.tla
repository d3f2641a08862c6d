--------------------------- MODULE MCControlPlane ---------------------------
(* ControlPlane for TLC: no action and no invariant tells channels apart. *)
EXTENDS ControlPlane, TLC

ChannelSymmetry == Permutations(Channels)
=============================================================================
