---------------------------- MODULE MCWhisperFull ----------------------------
(* WhisperFull for TLC: short windows, two temperatures. *)
EXTENDS WhisperFull

Recording(n, multi, distil) ==
    [frames |-> n, multilingual |-> multi, distilled |-> distil]

\* Too short, one window, two windows or more; without timestamps, four windows.
Recordings ==
    {Recording(n, TRUE, FALSE) : n \in {1, 4, 8}}
        \cup {Recording(4, FALSE, FALSE), Recording(26, TRUE, TRUE)}

LowAndHigh == <<0, 6>>
=============================================================================
