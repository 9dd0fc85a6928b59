---------------------------- MODULE MCBundleStage ----------------------------
(* Exports that sweep each other beside publishers that race.               *)
EXTENDS BundleStage, TLC

StageSymmetry == Permutations(Exports) \union Permutations(Publishers)
=============================================================================
