----------------------------- MODULE WhisperFull -----------------------------
(***************************************************************************)
(* whisper_full (whisper.cpp), the call WhisperService.swift makes for a   *)
(* recording: window after window of the audio is encoded and decoded to   *)
(* text, at rising temperatures until a decoding is accepted, and the      *)
(* window moves on to the last timestamp that was decoded.                 *)
(*                                                                         *)
(* The parameters are those of the app: greedy sampling with the defaults  *)
(* of whisper_full_default_params, language detection, no callbacks.  What *)
(* the network answers is any token the filters leave; the scores made of  *)
(* its probabilities are any verdict.  Of the text and of the prompts only *)
(* the lengths are kept.                                                   *)
(*                                                                         *)
(* One thread runs all of it; the threads that sample for the decoders and *)
(* filter their logits are joined within a round and share nothing, so a   *)
(* round is a step.                                                        *)
(***************************************************************************)
EXTENDS Integers, Sequences, FiniteSets

CONSTANTS
    Calls,          \* the recordings, of a length in frames of 10 ms, and the
                    \* models, multilingual or not, distilled or not
    Second,         \* 100 frames
    ShortTail,      \* 500 frames
    Chunk,          \* 100*WHISPER_CHUNK_SIZE, 3000 frames
    TextCtx,        \* whisper_n_text_ctx, 448
    Temperatures,   \* in tenths: 0, 2, ..., 10
    BestOf,         \* 5
    MaxInitialTs,   \* max_initial_ts in timestamps of two frames, 50
    LongResult      \* 32 tokens

ASSUME WhisperFullAssumption ==
    /\ Calls \subseteq [frames : Nat, multilingual : BOOLEAN, distilled : BOOLEAN]
    /\ Second \in Nat /\ ShortTail \in Nat
    /\ Chunk \in Nat \ {0, 1}
    /\ TextCtx \in Nat /\ TextCtx >= 12
    /\ Temperatures \in Seq(Nat) /\ Temperatures # <<>>
    /\ Temperatures[1] = 0
    /\ \A m, n \in DOMAIN Temperatures : m < n => Temperatures[m] <= Temperatures[n]
    /\ BestOf \in Nat \ {0}
    /\ MaxInitialTs \in Nat
    /\ LongResult \in Nat

\* Token ids: text tokens come first, then the end of the text, then the
\* timestamps, one for two frames.  The other special tokens are never sampled.
Text == 0
Eot == 1
Beg == 2
Tokens == {Text, Eot} \cup Beg .. Beg + Chunk \div 2

Decoders == 0 .. BestOf - 1

VARIABLES
    pc,                 \* where whisper_full is
    returned,           \* what it returned
    freed,              \* how often the state has been freed
    call,               \* the parameters that differ between calls
    seek,               \* where the window begins
    best,               \* best_decoder_id
    it,                 \* the temperature, counted from 1
    prompt_past,        \* how many tokens condition the next window
    prompt, conditioned,    \* the length of the prompt; whether it has past text
    i,                  \* the round of the token loop
    n_decoders_cur,
    decoders,
    kv_self_n_dec,      \* the decoders the cache is made for
    position,           \* the last position given to the decoder
    no_speech,          \* no_speech_prob is over its threshold
    weak,               \* avg_logprobs of the best decoder is under its own
    \* history
    gaveUp,             \* a window was output though all its decoders had failed
    again,              \* text was output that the next window begins before
    unheard             \* frames that ended the audio and had no text or end

window == <<seek, best, prompt_past>>
attempt == <<it, prompt, conditioned, n_decoders_cur, kv_self_n_dec, no_speech>>
history == <<gaveUp, again, unheard>>

vars == <<pc, returned, freed, call, window, attempt, i, decoders, position,
          weak, history>>

Decoder ==
    [tokens : Seq(Tokens), result_len : Nat, seek_delta : 0 .. 2 * Chunk,
     has_ts : BOOLEAN, failed : BOOLEAN, completed : BOOLEAN]

NewDecoder ==
    [tokens |-> <<>>, result_len |-> 0, seek_delta |-> Chunk,
     has_ts |-> FALSE, failed |-> FALSE, completed |-> FALSE]

TypeOK ==
    /\ pc \in {"start", "window", "attempt", "round", "rank", "output",
               "returned", "freed"}
    /\ returned \in {0, -2, -3, -6, -7, -8, -9}
    /\ freed \in 0 .. 2
    /\ call \in Calls
    /\ seek \in Nat
    /\ best \in Decoders
    /\ it \in 1 .. Len(Temperatures)
    /\ prompt_past \in Nat /\ prompt \in Nat /\ conditioned \in BOOLEAN
    /\ i \in Nat
    /\ n_decoders_cur \in 1 .. BestOf /\ kv_self_n_dec \in 1 .. BestOf
    /\ decoders \in [Decoders -> Decoder]
    /\ position \in Nat
    /\ no_speech \in BOOLEAN /\ weak \in BOOLEAN
    /\ gaveUp \in BOOLEAN /\ again \in BOOLEAN /\ unheard \in Nat

\* A context made for this call: whisper_init_from_file.
Init ==
    /\ pc = "start"
    /\ returned = 0 /\ freed = 0
    /\ call \in Calls
    /\ seek = 0 /\ best = 0 /\ prompt_past = 0
    /\ it = 1 /\ prompt = 0 /\ conditioned = FALSE
    /\ n_decoders_cur = 1 /\ kv_self_n_dec = 1 /\ no_speech = FALSE
    /\ i = 0
    /\ decoders = [j \in Decoders |-> NewDecoder]
    /\ position = 0
    /\ weak = FALSE
    /\ gaveUp = FALSE /\ again = FALSE /\ unheard = 0

\* The end of the recording.
seek_end == call.frames

Return(code) ==
    /\ pc' = "returned"
    /\ returned' = code

\* First releases of distilled models: timestamps are off.
NoTimestamps == call.distilled

\* The start token, the language and the task, and no_timestamps.
PromptInit == 1 + (IF call.multilingual THEN 2 ELSE 0)
                + (IF NoTimestamps THEN 1 ELSE 0)

Least(a, b) == IF a < b THEN a ELSE b

----------------------------------------------------------------------------
(* Before the loop, and the head of the loop. *)

\* The spectrogram, the language (a decoding of its own), and no less than a
\* second of audio.
Start ==
    /\ pc = "start"
    /\ \/ Return(-2)
       \/ Return(-3)
       \/ seek_end < Second /\ Return(0)
       \/ seek_end >= Second /\ pc' = "window" /\ UNCHANGED returned
    /\ UNCHANGED <<freed, call, window, attempt, i, decoders, position, weak,
           history>>

AtEnd == seek + Second >= seek_end

Finish ==
    /\ pc = "window" /\ AtEnd
    /\ Return(0)
    /\ UNCHANGED <<freed, call, window, attempt, i, decoders, position, weak,
           history>>

\* Encode; a short rest of the audio is decoded without the text before it.
Encode ==
    /\ pc = "window" /\ ~AtEnd
    /\ \/ Return(-6) /\ UNCHANGED <<window, it>>
       \/ /\ pc' = "attempt"
          /\ prompt_past' = IF seek > 0 /\ seek + ShortTail >= seek_end
                            THEN 0 ELSE prompt_past
          /\ best' = 0
          /\ it' = 1
          /\ UNCHANGED <<returned, seek>>
    /\ UNCHANGED <<freed, call, prompt, conditioned, n_decoders_cur,
           kv_self_n_dec, no_speech, i, decoders, position, weak, history>>

----------------------------------------------------------------------------
(* One temperature: the prompt, the cache, the first decoding. *)

DecodersAt(t) == IF t > 0 THEN BestOf ELSE 1

\* The cache has cells for the tokens of one text, or of two more texts than
\* there are decoders.  (The context is padded to a multiple of 256: more room.)
KvSize(n) == TextCtx * (IF n > 1 THEN n + 2 ELSE 1)

\* Past text conditions the attempt below a temperature of 0.5.
Condition(t) ==
    IF prompt_past > 0 /\ t < 5
    THEN /\ conditioned' = TRUE
         /\ prompt' = 1 + Least(TextCtx \div 2, prompt_past) + PromptInit
    ELSE /\ conditioned' = FALSE
         /\ prompt' = PromptInit

\* Mutant: the cache is made anew at the first temperature already.
NeedsCacheAlways(n) == kv_self_n_dec <= n

NeedsCache(n) == kv_self_n_dec < n

\* whisper_kv_cache_init fails, and whisper_full frees the caller's state.
CacheFails(n) ==
    /\ NeedsCache(n)
    /\ Return(-7)
    /\ freed' = freed + 1
    /\ UNCHANGED <<kv_self_n_dec, position, no_speech>>

Prompted(n) ==
    /\ kv_self_n_dec' = IF NeedsCache(n) THEN n ELSE kv_self_n_dec
    /\ \/ Return(-8) /\ UNCHANGED <<position, no_speech>>
       \/ /\ pc' = "round"
          /\ position' = prompt' - 1
          /\ no_speech' \in BOOLEAN
          /\ UNCHANGED returned
    /\ UNCHANGED freed

Attempt ==
    /\ pc = "attempt"
    /\ LET n == DecodersAt(Temperatures[it]) IN
        /\ n_decoders_cur' = n
        /\ decoders' = [j \in Decoders |->
               IF j < n THEN NewDecoder ELSE decoders[j]]
        /\ Condition(Temperatures[it])
        /\ CacheFails(n) \/ Prompted(n)
    /\ i' = 0
    /\ UNCHANGED <<call, window, it, weak, history>>

----------------------------------------------------------------------------
(* A round of the token loop. *)

Current == 0 .. n_decoders_cur - 1

Active(j) == ~decoders[j].failed /\ ~decoders[j].completed

\* Whether the nth token from the end is a timestamp, or d if there is none.
TimestampAt(tokens, n, d) ==
    IF Len(tokens) < n THEN d ELSE tokens[Len(tokens) - n + 1] >= Beg

\* Mutants: timestamps may go back; the first may be anywhere in the window.
GrowsAnyway(d, x) == TRUE
InitialAnywhere(d, x) == d.tokens = <<>> => x # Eot

\* Timestamps increase.
Grows(d, x) == d.has_ts /\ x >= Beg => x >= Beg + d.seek_delta \div 2

\* The first token is no end, and no timestamp beyond max_initial_ts.
InitialOK(d, x) == d.tokens = <<>> => x # Eot /\ x <= Beg + MaxInitialTs

\* Timestamps come in pairs, except before the end.
Pairs(d, x) ==
    TimestampAt(d.tokens, 1, FALSE) =>
        IF TimestampAt(d.tokens, 2, TRUE) THEN x < Beg ELSE x >= Eot

\* The tokens that whisper_process_logits leaves to be sampled.
Allowed(d) ==
    {x \in Tokens : /\ NoTimestamps => x < Beg
                    /\ InitialOK(d, x) /\ Pairs(d, x) /\ Grows(d, x)}

BackInTime(d, x) ==
    /\ x > Beg
    /\ d.has_ts /\ d.seek_delta > 2 * (x - Beg) /\ d.result_len < i

\* Mutant: the timestamp of the window's own beginning moves it as well.
MoveFromBeg(d, x) ==
    IF x >= Beg
    THEN [d EXCEPT !.seek_delta = 2 * (x - Beg), !.result_len = i + 1, !.has_ts = TRUE]
    ELSE d

\* A timestamp moves the window.
Move(d, x) ==
    IF x > Beg
    THEN [d EXCEPT !.seek_delta = 2 * (x - Beg), !.result_len = i + 1, !.has_ts = TRUE]
    ELSE d

ReachesEnd(d) == seek + d.seek_delta + Second >= seek_end

\* The sequence ends with its token, or with the audio.
Ends(d, x) == x = Eot \/ (d.has_ts /\ ReachesEnd(d))

\* An end without a timestamp is good at the end of the audio only.
Ended(d) ==
    CASE NoTimestamps ->
            [d EXCEPT !.completed = TRUE, !.result_len = i + 1, !.seek_delta = Chunk]
      [] ~NoTimestamps /\ d.result_len > 0 -> [d EXCEPT !.completed = TRUE]
      [] ~NoTimestamps /\ d.result_len = 0 /\ ReachesEnd(d) ->
            [d EXCEPT !.completed = TRUE, !.result_len = i + 1]
      [] OTHER -> [d EXCEPT !.failed = TRUE]

NMax == TextCtx \div 2 - 4

\* Mutant: the last round does not look for a repetition.
RepeatsNever(d) == FALSE

\* Stuck: no timestamp, or an early one, though no more tokens fit.
Repeats(d) ==
    i = NMax - 1 /\ (d.result_len = 0 \/ d.seek_delta < Chunk \div 2)

\* The decoder after it has sampled x.
Accept(d, x) ==
    LET sampled == [d EXCEPT !.tokens = Append(@, x)]
        moved == Move(sampled, x)
    IN  CASE BackInTime(d, x) -> [sampled EXCEPT !.failed = TRUE]
          [] ~BackInTime(d, x) /\ Ends(moved, x) -> Ended(moved)
          [] OTHER -> [moved EXCEPT !.failed = Repeats(moved)]

Choices == {j \in Current : Active(j)}

\* Every active decoder samples a token.
SampleAndUpdate ==
    \E choice \in [Choices -> Tokens] :
        /\ \A j \in Choices : choice[j] \in Allowed(decoders[j])
        /\ decoders' = [j \in Decoders |-> IF j \in Choices
                                           THEN Accept(decoders[j], choice[j])
                                           ELSE decoders[j]]

\* Then the tokens are decoded, if a decoder goes on.
Round ==
    /\ pc = "round" /\ i < NMax
    /\ SampleAndUpdate
    /\ IF \A j \in Current : ~Active(j)'
       THEN pc' = "rank" /\ UNCHANGED <<returned, position, i>>
       ELSE /\ position' = prompt + i
            /\ i' = i + 1
            /\ Return(-9) \/ (UNCHANGED <<pc, returned>>)
    /\ UNCHANGED <<freed, call, window, attempt, weak, history>>

\* The rounds are used up.
RoundsDone ==
    /\ pc = "round" /\ i >= NMax
    /\ pc' = "rank"
    /\ UNCHANGED <<returned, freed, call, window, attempt, i, decoders,
           position, weak, history>>

----------------------------------------------------------------------------
(* The ranking, and the output of a window. *)

\* Mutant: the tokens after the last timestamp are kept.
TrimNothing(d) == d

Trim(d) == [d EXCEPT !.tokens = SubSeq(@, 1, d.result_len)]

\* Mutant: there is a fallback from the last temperature.
MoreTemperaturesAlways == it <= Len(Temperatures)

MoreTemperatures == it < Len(Temperatures)

\* Of long results, those with a low entropy fail.
Rank ==
    /\ pc = "rank"
    /\ \E low \in SUBSET {j \in Current : ~decoders[j].failed
                                          /\ decoders[j].result_len > LongResult} :
        decoders' = [j \in Decoders |->
            IF j \notin Current \/ decoders[j].failed THEN decoders[j]
            ELSE [Trim(decoders[j]) EXCEPT !.failed = j \in low]]
    /\ LET ranked == {j \in Current : ~decoders'[j].failed}
       IN  best' \in IF ranked = {} THEN {best} ELSE ranked
    \* A decoder that failed before the ranking keeps the worst score.
    /\ weak' \in IF decoders[best'].failed THEN {TRUE} ELSE BOOLEAN
    /\ IF MoreTemperatures /\ (decoders'[best'].failed \/ (weak' /\ ~no_speech))
       THEN pc' = "attempt" /\ it' = it + 1
       ELSE pc' = "output" /\ UNCHANGED it
    /\ UNCHANGED <<returned, freed, call, seek, prompt_past, prompt, conditioned,
           n_decoders_cur, kv_self_n_dec, no_speech, i, position, history>>

IsNoSpeech == no_speech /\ weak

\* One timestamp after text: nothing more is in the window.
SingleTimestampEnding(tokens) ==
    /\ Len(tokens) > 1
    /\ tokens[Len(tokens) - 1] < Beg
    /\ tokens[Len(tokens)] > Beg

HasText(tokens) == \E n \in DOMAIN tokens : tokens[n] = Text

\* Text that stands after the timestamp that moves the window.
TextBeyond(tokens) ==
    \E m, n \in DOMAIN tokens :
        /\ m < n /\ tokens[m] > Beg /\ tokens[n] = Text
        /\ \A k \in m + 1 .. Len(tokens) : tokens[k] <= Beg

\* The segments, the text that conditions the next window, and the move.  What
\* the window leaves in the decoders is not read again, and is dropped here.
Output ==
    /\ pc = "output"
    /\ pc' = "window"
    /\ LET d == decoders[best]
           kept == IF conditioned THEN prompt - 1 - PromptInit ELSE 0
       IN  /\ prompt_past' = kept + (IF IsNoSpeech THEN 0 ELSE d.result_len)
           /\ seek' = seek + IF SingleTimestampEnding(d.tokens)
                             THEN Least(seek_end - seek, Chunk) ELSE d.seek_delta
           /\ gaveUp' = (gaveUp \/ \A j \in Current : decoders[j].failed)
           /\ again' = (again \/ (~IsNoSpeech /\ TextBeyond(d.tokens)))
           /\ unheard' = IF /\ ~IsNoSpeech /\ ~HasText(d.tokens)
                            /\ Eot \notin {d.tokens[n] : n \in DOMAIN d.tokens}
                            /\ seek' + Second >= seek_end
                         THEN seek_end - seek ELSE 0
    /\ decoders' = [j \in Decoders |-> NewDecoder]
    /\ i' = 0 /\ position' = 0 /\ weak' = FALSE
    /\ UNCHANGED <<returned, freed, call, best, attempt>>

----------------------------------------------------------------------------

\* WhisperService.swift frees the context, and with it the state and its
\* decoders, however the call returned.
FreeContext ==
    /\ pc = "returned"
    /\ pc' = "freed"
    /\ freed' = freed + 1
    /\ decoders' = [j \in Decoders |-> NewDecoder]
    /\ i' = 0 /\ position' = 0 /\ weak' = FALSE
    /\ UNCHANGED <<returned, call, window, attempt, history>>

Freed == pc = "freed" /\ UNCHANGED vars

Step ==
    \/ Start \/ Finish \/ Encode \/ Attempt \/ Round \/ RoundsDone
    \/ Rank \/ Output \/ FreeContext

Next == Step \/ Freed

\* The thread of the transcription runs.
Spec == Init /\ [][Next]_vars /\ WF_vars(Step)

----------------------------------------------------------------------------
(* Properties. *)

\* No position beyond the text context is decoded, and the cache has a cell for
\* every token.  Half of the context is for past text, NMax rounds for new: with
\* the start tokens of a multilingual model that fills the context to the last
\* position, and with no_timestamps it would be one too many, were it not for
\* the check for repetitions (whisper.cpp:5787, :6004, :6038).
PositionsFit ==
    pc = "round" =>
        /\ position < TextCtx
        /\ prompt + n_decoders_cur * i <= KvSize(kv_self_n_dec)

\* No decoder fails for going back in time: the filter has made that impossible,
\* and what a decoder has said is in the order of the audio
\* (whisper.cpp:5108, :5948).
TimestampsIncrease ==
    \A j \in Current : LET tokens == decoders[j].tokens IN
        \A m, n \in DOMAIN tokens :
            m < n /\ tokens[m] > Beg /\ tokens[n] >= Beg => tokens[m] <= tokens[n]

\* Text that the next window decodes again is output only after every decoder
\* of the last temperature had failed: its tokens are not cut at the timestamp
\* to which the window moves (whisper.cpp:6120, :6203).
AgainOnlyIfGivenUp == again => gaveUp

\* The end of a recording is left without text, and without the model having
\* said that there is none, for less than max_initial_ts and a second: a
\* timestamp at which the text begins is taken for the end of the audio
\* (whisper.cpp:5972).
LossIsShort == unheard <= 2 * MaxInitialTs + Second

\* The state is freed twice, here and by the caller, only if the cache for the
\* decoders of a second temperature could not be made (whisper.cpp:5738).
FreedTwiceAfterFallback ==
    freed = 2 => returned = -7 /\ it > 1 /\ n_decoders_cur > kv_self_n_dec

\* A window moves, and never past audio it did not hold (whisper.cpp:6334).
WindowMoves == [][pc = "output" => seek' > seek /\ seek' <= seek + Chunk]_vars

\* What is still to be done, in the order in which it can grow again: the parts
\* of the call, the audio, the temperatures of the window, the rounds of the
\* attempt.
PartsLeft ==
    CASE pc = "start" -> 3
      [] pc \in {"window", "attempt", "round", "rank", "output"} -> 2
      [] pc = "returned" -> 1
      [] pc = "freed" -> 0

\* The last window may reach beyond the end.
AudioLeft == seek_end + Chunk - seek

TemperaturesLeft ==
    CASE pc = "window" -> Len(Temperatures) + 1
      [] pc \in {"attempt", "round", "rank"} -> Len(Temperatures) - it + 1
      [] OTHER -> 0

RoundsLeft ==
    CASE pc = "attempt" -> NMax + 2
      [] pc = "round" -> NMax - i + 1
      [] OTHER -> 0

Left == <<PartsLeft, AudioLeft, TemperaturesLeft, RoundsLeft>>

\* The first difference counts.
Less(a, b) ==
    \E n \in 1 .. 4 : a[n] < b[n] /\ \A m \in 1 .. n - 1 : a[m] = b[m]

\* Every step leaves less to do, of numbers that cannot sink for ever: a fallback
\* goes to a later temperature, a window to later audio, whatever the model says
\* and whatever fails (whisper.cpp:5616, :5650, :5787, :6334).
LessIsLeft == [][Less(Left', Left) /\ Left \in [1 .. 4 -> Nat]]_vars

\* The call returns, whatever the model says.
Returns == <>(pc = "freed")
=============================================================================
