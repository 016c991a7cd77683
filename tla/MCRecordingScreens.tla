------------------------- MODULE MCRecordingScreens -------------------------
(* RecordingScreens for TLC: symmetry. *)
EXTENDS RecordingScreens, TLC

\* Conversations and views are interchangeable: used by the safety runs only.
Symmetry == Permutations(Conversations) \cup Permutations(Views)
=============================================================================
