---------------------------- MODULE MCGeneration ----------------------------
(***************************************************************************)
(* Two tasks that may share a preview, a confirmation and a series; their  *)
(* document has two versions, and their provider two sets of capabilities. *)
(***************************************************************************)
EXTENDS Generation, TLC

MCSymmetry == Permutations(Previews) \cup Permutations(Confirmations) \cup Permutations(Tasks)
              \cup Permutations(Series) \cup Permutations(Capabilities)
=============================================================================
