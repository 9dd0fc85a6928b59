---------------------------- MODULE MCMirrorWork ----------------------------
(***************************************************************************)
(* Two Pushes of one repository whose commits carry the same note edge, a  *)
(* second repository that only readers, rename and collection touch.       *)
(***************************************************************************)
EXTENDS MirrorWork, TLC

MCJobRepo == [j \in Jobs |-> 1]
MCJobEdges == [j \in Jobs |-> Edges]

\* The two jobs have the same repository and the same edges.
JobSymmetry == Permutations(Jobs)
=============================================================================
