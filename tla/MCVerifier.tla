----------------------------- MODULE MCVerifier -----------------------------
(***************************************************************************)
(* Instances of Verifier for TLC.                                          *)
(***************************************************************************)
EXTENDS VerifierProperties, TLC

\* Session ids and activations are interchangeable.  Only for runs without a
\* liveness property.
Symmetry == Permutations(Sessions) \cup Permutations(Handlers)
=============================================================================
