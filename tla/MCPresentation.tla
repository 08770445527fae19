--------------------------- MODULE MCPresentation ---------------------------
(* Presentation for TLC.  Its constants are used for comparison alone. *)
EXTENDS PresentationProperties, TLC

Symmetry == Permutations(Credentials) \cup Permutations(Sessions) \cup Permutations(HolderKeys)
=============================================================================
