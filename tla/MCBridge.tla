------------------------------ MODULE MCBridge ------------------------------
(***************************************************************************)
(* Bridge with its symmetries: clients are alike, and so are admins.       *)
(***************************************************************************)
EXTENDS Bridge, TLC

BridgeSymmetry == Permutations(Clients) \cup Permutations(Admins)

=============================================================================
