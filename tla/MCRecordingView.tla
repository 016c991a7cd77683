-------------------------- MODULE MCRecordingView --------------------------
(* RecordingView for TLC: instances and symmetry. *)
EXTENDS RecordingView, TLC

\* Conversations and views are interchangeable: used by the safety runs only.
Symmetry == Permutations(Conversations) \cup Permutations(Views)
=============================================================================
