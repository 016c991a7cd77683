--------------------------- MODULE MCWhisperModel ---------------------------
(* WhisperModel for TLC: calls and services are interchangeable. *)
EXTENDS WhisperModel, TLC

Symmetry == Permutations(Services) \cup Permutations(Calls)
=============================================================================
