----------------------------- MODULE VoiceNotes -----------------------------
(***************************************************************************)
(* What the application promises about a voice recording, whatever screen  *)
(* it is made on: it is recorded once, transcribed once, and what was      *)
(* transcribed ends either as a note of a conversation or as nothing at    *)
(* all.  A note stays until its conversation is deleted.  A transcription  *)
(* may wait for ever: for the model, or for the user to get it.            *)
(*                                                                         *)
(* The module models no code of its own.  RecordingView implements it, see *)
(* the instance VN there.                                                  *)
(***************************************************************************)
EXTENDS Naturals

CONSTANT Recordings     \* the recordings a user makes

VARIABLE fate           \* how far each recording has come

Fates == {"unused", "recording", "transcribing", "processing", "saved", "gone"}

TypeOK == fate \in [Recordings -> Fates]

Init == fate = [r \in Recordings |-> "unused"]

----------------------------------------------------------------------------
(* The recordings a step takes from one fate to another. *)
Moves(R, from, to) ==
    /\ \A r \in R : fate[r] = from
    /\ fate' = [r \in Recordings |-> IF r \in R THEN to ELSE fate[r]]

\* There is one microphone: a recording begins when no other is being made.
Begin(r) ==
    /\ \A s \in Recordings : fate[s] # "recording"
    /\ Moves({r}, "unused", "recording")

\* The user leaves the screen before stopping the recorder.
Abandon(r) == Moves({r}, "recording", "gone")

Stop(r) == Moves({r}, "recording", "transcribing")

\* The transcription gives a text to process, or an error.
Transcribe(r) == \E to \in {"processing", "gone"} : Moves({r}, "transcribing", to)

\* Processing ends, with a note or with an error.
Settle(r) == \E to \in {"saved", "gone"} : Moves({r}, "processing", to)

\* A conversation is deleted with all the notes it holds.
Discard == \E R \in SUBSET Recordings : Moves(R, "saved", "gone")

Next ==
    \/ \E r \in Recordings :
           Begin(r) \/ Abandon(r) \/ Stop(r) \/ Transcribe(r) \/ Settle(r)
    \/ Discard

\* What is transcribed settles at last; nothing is said of the transcription.
Fairness == \A r \in Recordings : WF_fate(Settle(r))

SafeSpec == Init /\ [][Next]_fate

Spec == SafeSpec /\ Fairness
=============================================================================
