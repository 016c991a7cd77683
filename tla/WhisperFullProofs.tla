------------------------- MODULE WhisperFullProofs -------------------------
(***************************************************************************)
(* The safety properties of WhisperFull, for recordings of any length,     *)
(* any window, text context, temperatures and number of decoders.          *)
(***************************************************************************)
EXTENDS WhisperFull, TLAPS

\* The tokens of a decoder and what it remembers of them: before a timestamp
\* the window has its full length; afterwards the last timestamp is where the
\* result ends and where the window moves.
DecoderOK(d) ==
    /\ d \in Decoder
    /\ d.seek_delta \in 1 .. Chunk
    /\ d.result_len <= Len(d.tokens)
    /\ d.has_ts =>
          /\ d.result_len > 0
          /\ d.tokens[d.result_len] > Beg
          /\ d.seek_delta = 2 * (d.tokens[d.result_len] - Beg)
          /\ \A n \in 1 .. Len(d.tokens) : n > d.result_len => d.tokens[n] <= Beg
    /\ ~d.has_ts =>
          /\ \A n \in 1 .. Len(d.tokens) : d.tokens[n] <= Beg
          /\ d.result_len > 0 => d.tokens[d.result_len] = Eot

\* What the filters leave of the orders of tokens.
Ordered(tokens) ==
    \A m, n \in 1 .. Len(tokens) :
        m < n /\ tokens[m] > Beg /\ tokens[n] >= Beg => tokens[m] <= tokens[n]

\* The first token is no end and no late timestamp; two timestamps do not begin.
BeginsWell(tokens) ==
    /\ Len(tokens) > 0 => tokens[1] # Eot /\ tokens[1] <= Beg + MaxInitialTs
    /\ Len(tokens) > 1 /\ tokens[1] >= Beg => tokens[2] < Beg

\* Without timestamps the result ends with the sequence.
Untimed(d) == ~d.has_ts /\ (~d.completed => d.result_len = 0)

\* A decoder that has stopped has said more than that the window begins.
Spoken(d) == Len(d.tokens) > 0 /\ (Len(d.tokens) < 2 => d.tokens[1] # Beg)

DecodersOK ==
    \A j \in Decoders :
        /\ DecoderOK(decoders[j])
        /\ Ordered(decoders[j].tokens)
        /\ BeginsWell(decoders[j].tokens)

RoundOK ==
    pc = "round" =>
        /\ position = prompt + i - 1
        /\ i <= NMax
        /\ NoTimestamps => i < NMax
        /\ \A j \in Current :
              /\ NoTimestamps => Untimed(decoders[j])
              /\ Active(j) => /\ Len(decoders[j].tokens) = i
                              /\ i = NMax => decoders[j].result_len > 0
              /\ ~Active(j) => Spoken(decoders[j])
              /\ decoders[j].completed => decoders[j].result_len > 0

RankOK ==
    pc = "rank" =>
        \A j \in Current :
            /\ Spoken(decoders[j])
            /\ ~decoders[j].failed => decoders[j].result_len > 0

OutputOK ==
    pc = "output" =>
        /\ Spoken(decoders[best])
        /\ \/ \A j \in Current : decoders[j].failed
           \/ decoders[best].result_len = Len(decoders[best].tokens)

InWindow == pc \in {"attempt", "round", "rank", "output"}

WindowOK ==
    /\ InWindow => seek + Second < seek_end
    /\ pc = "attempt" => best < DecodersAt(Temperatures[it])
    /\ pc \in {"round", "rank", "output"} =>
          /\ n_decoders_cur = DecodersAt(Temperatures[it])
          /\ n_decoders_cur <= kv_self_n_dec
          /\ best \in Current
          /\ prompt <= 1 + TextCtx \div 2 + PromptInit
          /\ prompt >= PromptInit
          /\ conditioned => prompt >= 1 + PromptInit

FreedOK ==
    /\ pc \notin {"returned", "freed"} => freed = 0
    /\ pc = "returned" => freed <= 1
    /\ pc = "returned" /\ freed = 1 =>
          returned = -7 /\ it > 1 /\ n_decoders_cur > kv_self_n_dec

Inv ==
    /\ TypeOK
    /\ DecodersOK /\ RoundOK /\ RankOK /\ OutputOK /\ WindowOK
    /\ FreedOK /\ FreedTwiceAfterFallback
    /\ AgainOnlyIfGivenUp /\ LossIsShort

----------------------------------------------------------------------------
(* A decoder that accepts a token. *)

LEMMA Predecessor == \A a, b \in Nat : b >= 1 /\ a >= b => a - 1 \in Nat
  OBVIOUS

LEMMA OnlyOne == \A n \in Nat : n > 0 /\ n < 2 => n = 1
  OBVIOUS

LEMMA NMaxAtLeastTwo == NMax \in Nat /\ NMax >= 2 /\ NMax = TextCtx \div 2 - 4
  BY WhisperFullAssumption DEF NMax

LEMMA TokensAreIntegers ==
    ASSUME NEW x \in Tokens
    PROVE  /\ x \in Nat
           /\ x < Beg => x \in {Text, Eot}
           /\ x > Beg => 2 * (x - Beg) \in 2 .. Chunk
  BY WhisperFullAssumption DEF Tokens, Text, Eot, Beg

\* The tokens with the new one: the filters have kept their order.
LEMMA AppendKeepsOrder ==
    ASSUME NEW d, NEW x \in Allowed(d),
           DecoderOK(d), Ordered(d.tokens), BeginsWell(d.tokens)
    PROVE  /\ x \in Tokens
           /\ Append(d.tokens, x) \in Seq(Tokens)
           /\ Len(Append(d.tokens, x)) = Len(d.tokens) + 1
           /\ Append(d.tokens, x)[Len(d.tokens) + 1] = x
           /\ \A n \in 1 .. Len(d.tokens) : Append(d.tokens, x)[n] = d.tokens[n]
           /\ Ordered(Append(d.tokens, x))
           /\ BeginsWell(Append(d.tokens, x))
  <1>0. PICK t : t = Append(d.tokens, x)
    OBVIOUS
  <1>1. d.tokens \in Seq(Tokens) /\ Len(d.tokens) \in Nat /\ d.result_len \in Nat
    BY DEF DecoderOK, Decoder
  <1>2. x \in Tokens /\ InitialOK(d, x) /\ Pairs(d, x) /\ Grows(d, x)
    BY DEF Allowed
  <1>3. /\ t \in Seq(Tokens)
        /\ Len(t) = Len(d.tokens) + 1
        /\ t[Len(d.tokens) + 1] = x
        /\ \A n \in 1 .. Len(d.tokens) : t[n] = d.tokens[n]
    BY <1>0, <1>1, <1>2
  <1>4. \A n \in 1 .. Len(d.tokens) : d.tokens[n] \in Nat
    BY <1>1, TokensAreIntegers
  <1>5. Ordered(t)
    <2> SUFFICES ASSUME NEW m \in 1 .. Len(t), NEW n \in 1 .. Len(t),
                        m < n, t[m] > Beg, t[n] >= Beg
                 PROVE  t[m] <= t[n]
      BY DEF Ordered
    <2>1. CASE n <= Len(d.tokens)
      <3>1. m \in 1 .. Len(d.tokens) /\ n \in 1 .. Len(d.tokens)
        BY <1>1, <1>3, <2>1
      <3>2. t[m] = d.tokens[m] /\ t[n] = d.tokens[n]
        BY <1>3, <3>1
      <3>3. QED
        BY <3>1, <3>2 DEF Ordered
    <2>2. CASE n = Len(d.tokens) + 1
      <3>1. m \in 1 .. Len(d.tokens) /\ d.tokens[m] > Beg /\ x >= Beg
        BY <1>1, <1>3, <2>2
      <3>2. d.has_ts /\ ~(m > d.result_len)
        BY <1>4, <3>1 DEF DecoderOK, Beg
      <3>3. /\ d.tokens[d.result_len] > Beg
            /\ d.seek_delta = 2 * (d.tokens[d.result_len] - Beg)
            /\ d.result_len \in 1 .. Len(d.tokens)
        BY <1>1, <3>2 DEF DecoderOK
      <3>4. d.tokens[m] <= d.tokens[d.result_len]
        <4>1. m <= d.result_len /\ d.result_len <= Len(d.tokens)
          BY <1>1, <3>1, <3>2, <3>3
        <4>2. CASE m = d.result_len
          BY <1>4, <3>1, <4>2
        <4>3. CASE m < d.result_len
          <5>1. d.tokens[d.result_len] >= Beg
            BY <1>4, <3>3 DEF Beg
          <5>2. QED
            BY <3>1, <3>3, <4>3, <5>1 DEF Ordered
        <4>4. QED
          BY <1>1, <3>1, <4>1, <4>2, <4>3
      <3>5. x >= Beg + d.seek_delta \div 2
        BY <1>2, <3>1, <3>2 DEF Grows
      <3>6. x >= d.tokens[d.result_len]
        <4>1. PICK y : y = d.tokens[d.result_len]
          OBVIOUS
        <4>2. y \in Nat /\ x \in Nat /\ d.seek_delta = 2 * (y - Beg)
          BY <1>2, <1>4, <3>3, <4>1, TokensAreIntegers
        <4>3. x >= y
          BY <3>5, <4>2 DEF Beg
        <4>4. QED
          BY <4>1, <4>3
      <3>7. QED
        <4>1. t[m] = d.tokens[m] /\ t[n] = x
          BY <1>3, <2>2, <3>1
        <4>2. d.tokens[m] \in Nat /\ d.tokens[d.result_len] \in Nat /\ x \in Nat
          BY <1>2, <1>4, <3>1, <3>3, TokensAreIntegers
        <4>3. QED
          BY <3>4, <3>6, <4>1, <4>2
    <2>3. QED
      BY <1>1, <1>3, <2>1, <2>2
  <1>6. BeginsWell(t)
    <2>1. CASE Len(d.tokens) = 0
      <3>1. d.tokens = <<>>
        BY <1>1, <2>1
      <3>2. QED
        BY <1>2, <1>3, <2>1, <3>1 DEF BeginsWell, InitialOK
    <2>2. CASE Len(d.tokens) > 0
      <3>1. t[1] = d.tokens[1] /\ t[1] # Eot /\ t[1] <= Beg + MaxInitialTs
        BY <1>1, <1>3, <2>2 DEF BeginsWell
      <3>2. ASSUME t[1] >= Beg PROVE t[2] < Beg
        <4>1. CASE Len(d.tokens) < 2
          <5>0. Len(d.tokens) = 1
            BY <1>1, <2>2, <4>1, OnlyOne, Zenon
          <5>1. TimestampAt(d.tokens, 1, FALSE) /\ TimestampAt(d.tokens, 2, TRUE)
            BY <1>1, <3>1, <3>2, <5>0 DEF TimestampAt
          <5>2. QED
            BY <1>2, <1>3, <5>0, <5>1 DEF Pairs
        <4>2. CASE Len(d.tokens) > 1
          BY <1>1, <1>3, <3>1, <3>2, <4>2 DEF BeginsWell
        <4>3. Len(d.tokens) < 2 \/ Len(d.tokens) > 1
          BY <1>1
        <4>4. QED
          BY <4>1, <4>2, <4>3
      <3>3. QED
        BY <3>1, <3>2 DEF BeginsWell
    <2>3. QED
      BY <1>1, <2>1, <2>2
  <1>7. QED
    BY <1>0, <1>2, <1>3, <1>5, <1>6

Sampled(d, x) == [d EXCEPT !.tokens = Append(@, x)]

\* The token moves the window, or leaves the decoder as it was.
LEMMA MoveKeeps ==
    ASSUME NEW d, NEW x \in Allowed(d), i \in Nat, Len(d.tokens) = i,
           DecoderOK(d), Ordered(d.tokens), BeginsWell(d.tokens),
           NEW e, e = Move(Sampled(d, x), x)
    PROVE  /\ e.tokens = Append(d.tokens, x)
           /\ e.failed = d.failed /\ e.completed = d.completed
           /\ x > Beg => e.has_ts
           /\ x <= Beg => e.has_ts = d.has_ts /\ e.result_len = d.result_len
           /\ DecoderOK(e)
  <1>1. d \in Decoder /\ d.tokens \in Seq(Tokens) /\ d.result_len \in Nat
        /\ d.result_len <= i
    BY DEF DecoderOK, Decoder
  <1>2. PICK t : t = Append(d.tokens, x)
    OBVIOUS
  <1>3. /\ x \in Tokens /\ t \in Seq(Tokens)
        /\ Len(t) = i + 1 /\ t[i + 1] = x
        /\ \A n \in 1 .. i : t[n] = d.tokens[n]
    BY <1>2, AppendKeepsOrder
  <1>4. PICK b : b = Sampled(d, x)
    OBVIOUS
  <1>5. /\ b \in Decoder /\ b.tokens = t
        /\ b.result_len = d.result_len /\ b.seek_delta = d.seek_delta
        /\ b.has_ts = d.has_ts /\ b.failed = d.failed /\ b.completed = d.completed
    BY <1>1, <1>2, <1>3, <1>4 DEF Sampled, Decoder
  <1>6. x \in Nat
    BY <1>3, TokensAreIntegers
  <1>7. CASE x > Beg
    <2>1. 2 * (x - Beg) \in 2 .. Chunk
      BY <1>3, <1>7, TokensAreIntegers
    <2>2. e = [b EXCEPT !.seek_delta = 2 * (x - Beg), !.result_len = i + 1, !.has_ts = TRUE]
      BY <1>4, <1>7 DEF Move
    <2>3. 2 * (x - Beg) \in 0 .. 2 * Chunk /\ 2 * (x - Beg) \in 1 .. Chunk
      BY <2>1, WhisperFullAssumption
    <2>4. PICK u : u = 2 * (x - Beg)
      OBVIOUS
    <2>5. PICK r : r = i + 1
      OBVIOUS
    <2>6. e = [b EXCEPT !.seek_delta = u, !.result_len = r, !.has_ts = TRUE]
      BY <2>2, <2>4, <2>5
    <2>7. r \in Nat /\ u \in 0 .. 2 * Chunk
      BY <2>3, <2>4, <2>5
    <2>8. /\ e.tokens = t /\ e.result_len = r
          /\ e.seek_delta = u /\ e.has_ts
          /\ e.failed = d.failed /\ e.completed = d.completed
      BY <1>5, <2>6 DEF Decoder
    <2>9. e \in Decoder
      BY <1>5, <2>6, <2>7 DEF Decoder
    <2>10. \A n \in 1 .. Len(t) : ~(n > r)
      BY <1>3, <2>5
    <2>11. DecoderOK(e)
      <3>1. u \in 1 .. Chunk /\ r > 0 /\ r <= Len(t) /\ t[r] > Beg
        BY <1>3, <1>7, <2>3, <2>4, <2>5
      <3>2. u = 2 * (t[r] - Beg)
        BY <1>3, <2>4, <2>5
      <3>3. QED
        BY <2>8, <2>9, <2>10, <3>1, <3>2 DEF DecoderOK
    <2>12. ~(x <= Beg)
      BY <1>6, <1>7 DEF Beg
    <2>13. QED
      BY <1>2, <2>8, <2>11, <2>12
  <1>8. CASE ~(x > Beg)
    <2>1. e = b
      BY <1>4, <1>8 DEF Move
    <2>2. \A n \in 1 .. Len(t) : n \in 1 .. i \/ n = i + 1
      BY <1>3
    <2>3. x <= Beg
      BY <1>6, <1>8 DEF Beg
    <2>4. \A n \in 1 .. Len(t) : n > d.result_len /\ d.has_ts => t[n] <= Beg
      BY <1>1, <1>3, <2>2, <2>3 DEF DecoderOK
    <2>5. \A n \in 1 .. Len(t) : ~d.has_ts => t[n] <= Beg
      BY <1>1, <1>3, <2>2, <2>3 DEF DecoderOK
    <2>6. d.result_len > 0 => t[d.result_len] = d.tokens[d.result_len]
      BY <1>1, <1>3
    <2>7. DecoderOK(e)
      <3>1. /\ e \in Decoder /\ e.tokens = t /\ e.result_len = d.result_len
            /\ e.seek_delta = d.seek_delta /\ e.has_ts = d.has_ts
        BY <1>5, <2>1
      <3>2. e.seek_delta \in 1 .. Chunk /\ e.result_len <= Len(t)
        BY <1>1, <1>3, <3>1 DEF DecoderOK
      <3>3. ASSUME d.has_ts
            PROVE  /\ d.result_len > 0 /\ t[d.result_len] > Beg
                   /\ d.seek_delta = 2 * (t[d.result_len] - Beg)
        BY <2>6, <3>3 DEF DecoderOK
      <3>4. ASSUME ~d.has_ts, d.result_len > 0 PROVE t[d.result_len] = Eot
        BY <2>6, <3>4 DEF DecoderOK
      <3>5. QED
        BY <2>4, <2>5, <3>1, <3>2, <3>3, <3>4 DEF DecoderOK
    <2>8. QED
      BY <1>2, <1>5, <1>8, <2>1, <2>7
  <1>9. QED
    BY <1>7, <1>8

\* What DecoderOK says does not depend on whether the decoder goes on.
LEMMA StatusIsFree ==
    ASSUME NEW m, DecoderOK(m), NEW b \in BOOLEAN, NEW e,
           e = [m EXCEPT !.failed = b] \/ e = [m EXCEPT !.completed = b]
    PROVE  /\ DecoderOK(e)
           /\ e.tokens = m.tokens /\ e.result_len = m.result_len
           /\ e.has_ts = m.has_ts
  <1>1. /\ e \in Decoder
        /\ e.tokens = m.tokens /\ e.result_len = m.result_len
        /\ e.has_ts = m.has_ts /\ e.seek_delta = m.seek_delta
    BY DEF DecoderOK, Decoder
  <1>2. QED
    BY <1>1 DEF DecoderOK

\* The filter leaves no timestamp before the last one.
LEMMA NeverBackInTime ==
    ASSUME NEW d, NEW x \in Allowed(d), DecoderOK(d)
    PROVE  ~BackInTime(d, x)
  <1> SUFFICES ASSUME x > Beg, d.has_ts, d.seek_delta > 2 * (x - Beg)
               PROVE  FALSE
    BY DEF BackInTime
  <1>1. x \in Nat /\ Grows(d, x)
    BY TokensAreIntegers DEF Allowed
  <1>2. d \in Decoder /\ d.tokens \in Seq(Tokens) /\ d.result_len \in 1 .. Len(d.tokens)
    BY DEF DecoderOK, Decoder
  <1>3. PICK y : y = d.tokens[d.result_len]
    OBVIOUS
  <1>4. y \in Nat /\ d.seek_delta = 2 * (y - Beg)
    BY <1>2, <1>3, TokensAreIntegers DEF DecoderOK
  <1>5. x >= Beg + d.seek_delta \div 2
    BY <1>1 DEF Grows, Beg
  <1>6. QED
    BY <1>1, <1>4, <1>5 DEF Beg

\* An end of the sequence.
LEMMA EndedKeeps ==
    ASSUME NEW m, NEW x, DecoderOK(m), i \in Nat, Len(m.tokens) = i + 1,
           m.tokens[i + 1] = x, Ends(m, x), NoTimestamps => ~m.has_ts,
           BeginsWell(m.tokens), ~m.completed, NEW e, e = Ended(m)
    PROVE  /\ DecoderOK(e) /\ e.tokens = m.tokens
           /\ NoTimestamps => ~e.has_ts /\ e.completed
           /\ e.completed => e.result_len > 0
           /\ e.failed \/ e.completed
           /\ Spoken(e)
  <1>1. m \in Decoder /\ m.tokens \in Seq(Tokens) /\ m.result_len \in Nat
    BY DEF DecoderOK, Decoder
  <1>2. m.has_ts => m.result_len > 0 /\ m.tokens[m.result_len] > Beg
    BY DEF DecoderOK
  <1>3. ~m.has_ts => x = Eot
    BY DEF Ends
  <1>4. Spoken(m)
    <2> SUFFICES ASSUME i + 1 < 2 PROVE m.tokens[1] # Beg
      BY DEF Spoken
    <2>1. i = 0
      OBVIOUS
    <2>2. CASE m.has_ts
      <3>1. m.result_len <= 1 /\ m.result_len > 0
        BY <1>2, <2>1, <2>2 DEF DecoderOK
      <3>2. m.result_len = 1
        BY <1>1, <3>1
      <3>3. QED
        BY <1>2, <2>2, <3>2 DEF Beg
    <2>3. CASE ~m.has_ts
      BY <1>3, <2>1, <2>3 DEF Beg, Eot
    <2>4. QED
      BY <2>2, <2>3
  <1>5. CASE NoTimestamps
    <2>1. PICK r : r = i + 1
      OBVIOUS
    <2>2. e = [m EXCEPT !.completed = TRUE, !.result_len = r, !.seek_delta = Chunk]
      BY <1>5, <2>1 DEF Ended
    <2>3. r \in Nat /\ r > 0 /\ r = Len(m.tokens) /\ m.tokens[r] = Eot
      BY <1>3, <1>5, <2>1
    <2>4. Chunk \in 1 .. Chunk /\ Chunk \in 0 .. 2 * Chunk
      BY WhisperFullAssumption
    <2>5. /\ e.tokens = m.tokens /\ e.result_len = r /\ e.seek_delta = Chunk
          /\ e.completed = TRUE /\ e.has_ts = m.has_ts
      BY <1>1, <2>2 DEF Decoder
    <2>6. e \in Decoder
      BY <1>1, <2>2, <2>3, <2>4 DEF Decoder
    <2>7. DecoderOK(e)
      BY <1>1, <1>5, <2>3, <2>4, <2>5, <2>6 DEF DecoderOK
    <2>8. QED
      BY <1>4, <1>5, <2>3, <2>5, <2>7 DEF Spoken
  <1>6. CASE ~NoTimestamps /\ m.result_len > 0
    <2>1. e = [m EXCEPT !.completed = TRUE]
      BY <1>6 DEF Ended
    <2>2. DecoderOK(e) /\ e.tokens = m.tokens /\ e.result_len = m.result_len
      BY <2>1, StatusIsFree
    <2>3. e.completed
      BY <1>1, <2>1 DEF Decoder
    <2>4. QED
      BY <1>4, <1>6, <2>2, <2>3 DEF Spoken
  <1>7. CASE ~NoTimestamps /\ m.result_len = 0 /\ ReachesEnd(m)
    <2>1. PICK r : r = i + 1
      OBVIOUS
    <2>2. e = [m EXCEPT !.completed = TRUE, !.result_len = r]
      BY <1>7, <2>1 DEF Ended
    <2>3. ~m.has_ts
      BY <1>2, <1>7
    <2>4. r \in Nat /\ r > 0 /\ r = Len(m.tokens) /\ m.tokens[r] = Eot
      BY <1>3, <2>1, <2>3
    <2>5. /\ e.tokens = m.tokens /\ e.result_len = r /\ e.seek_delta = m.seek_delta
          /\ e.completed = TRUE /\ e.has_ts = m.has_ts
      BY <1>1, <2>2 DEF Decoder
    <2>6. e \in Decoder
      BY <1>1, <2>2, <2>4 DEF Decoder
    <2>7. DecoderOK(e)
      BY <1>1, <2>3, <2>4, <2>5, <2>6 DEF DecoderOK
    <2>8. QED
      BY <1>4, <1>7, <2>4, <2>5, <2>7 DEF Spoken
  <1>8. CASE ~NoTimestamps /\ m.result_len = 0 /\ ~ReachesEnd(m)
    <2>1. e = [m EXCEPT !.failed = TRUE]
      BY <1>8 DEF Ended
    <2>2. DecoderOK(e) /\ e.tokens = m.tokens
      BY <2>1, StatusIsFree
    <2>3. e.failed /\ e.completed = m.completed
      BY <1>1, <2>1 DEF Decoder
    <2>4. QED
      BY <1>4, <1>8, <2>2, <2>3 DEF Spoken
  <1>9. QED
    BY <1>1, <1>5, <1>6, <1>7, <1>8

LEMMA AcceptKeeps ==
    ASSUME NEW d, NEW x \in Allowed(d), i \in Nat, Len(d.tokens) = i, i < NMax,
           DecoderOK(d), Ordered(d.tokens), BeginsWell(d.tokens),
           ~d.failed, ~d.completed, NoTimestamps => Untimed(d),
           NEW e, e = Accept(d, x)
    PROVE  /\ DecoderOK(e) /\ Ordered(e.tokens) /\ BeginsWell(e.tokens)
           /\ Len(e.tokens) = i + 1
           /\ NoTimestamps => Untimed(e)
           /\ e.failed \/ e.completed => Spoken(e)
           /\ e.completed => e.result_len > 0
           /\ ~e.failed /\ ~e.completed /\ i + 1 = NMax => e.result_len > 0
  <1>1. PICK m : m = Move(Sampled(d, x), x)
    OBVIOUS
  <1>2. PICK t : t = Append(d.tokens, x)
    OBVIOUS
  <1>3. /\ t \in Seq(Tokens) /\ Len(t) = i + 1 /\ t[i + 1] = x
        /\ Ordered(t) /\ BeginsWell(t) /\ x \in Nat
    BY <1>2, AppendKeepsOrder, TokensAreIntegers
  <1>4. /\ m.tokens = t /\ ~m.failed /\ ~m.completed /\ DecoderOK(m)
        /\ x <= Beg => m.has_ts = d.has_ts /\ m.result_len = d.result_len
    BY <1>1, <1>2, MoveKeeps
  <1>5. m \in Decoder
    BY <1>4 DEF DecoderOK
  <1>6. ASSUME NoTimestamps PROVE ~m.has_ts /\ m.result_len = 0
    <2>1. x <= Beg
      BY <1>3, <1>6 DEF Allowed, Beg
    <2>2. QED
      BY <1>4, <1>6, <2>1 DEF Untimed
  <1>7. e = IF Ends(m, x) THEN Ended(m) ELSE [m EXCEPT !.failed = Repeats(m)]
    BY <1>1, NeverBackInTime DEF Accept, Sampled
  <1>8. CASE Ends(m, x)
    <2>1. e = Ended(m)
      BY <1>7, <1>8
    <2>2. /\ DecoderOK(e) /\ e.tokens = m.tokens
          /\ NoTimestamps => ~e.has_ts /\ e.completed
          /\ e.completed => e.result_len > 0
          /\ e.failed \/ e.completed
          /\ Spoken(e)
      BY <1>3, <1>4, <1>6, <1>8, <2>1, EndedKeeps
    <2>3. QED
      BY <1>3, <1>4, <2>2 DEF Untimed
  <1>9. CASE ~Ends(m, x) /\ Repeats(m)
    <2>1. e = [m EXCEPT !.failed = TRUE]
      BY <1>7, <1>9
    <2>2. /\ DecoderOK(e) /\ e.tokens = m.tokens /\ e.has_ts = m.has_ts
          /\ e.result_len = m.result_len
      BY <1>4, <2>1, StatusIsFree
    <2>3. e.failed /\ ~e.completed
      BY <1>4, <1>5, <2>1 DEF Decoder
    <2>4. i = NMax - 1
      BY <1>9 DEF Repeats
    <2>5. Spoken(e)
      BY <1>3, <1>4, <2>2, <2>4, NMaxAtLeastTwo DEF Spoken
    <2>6. QED
      BY <1>3, <1>4, <1>6, <2>2, <2>3, <2>5 DEF Untimed
  <1>10. CASE ~Ends(m, x) /\ ~Repeats(m)
    <2>0. Repeats(m) = FALSE
      BY <1>10 DEF Repeats
    <2>1. e = [m EXCEPT !.failed = FALSE]
      BY <1>7, <1>10, <2>0
    <2>2. /\ DecoderOK(e) /\ e.tokens = m.tokens /\ e.has_ts = m.has_ts
          /\ e.result_len = m.result_len
      BY <1>4, <2>1, StatusIsFree
    <2>3. ~e.failed /\ ~e.completed
      BY <1>4, <1>5, <2>1 DEF Decoder
    <2>4. m.result_len \in Nat
      BY <1>5 DEF Decoder
    <2>5. ASSUME i + 1 = NMax PROVE m.result_len > 0
      <3>1. i = NMax - 1
        BY <2>5, NMaxAtLeastTwo
      <3>2. m.result_len # 0
        BY <1>10, <3>1 DEF Repeats
      <3>3. QED
        BY <2>4, <3>2
    <2>6. QED
      BY <1>3, <1>4, <1>6, <2>2, <2>3, <2>5 DEF Untimed
  <1>11. QED
    BY <1>8, <1>9, <1>10

Ranked(d, b) == [Trim(d) EXCEPT !.failed = b]

\* The tokens up to the result are in the same order, and end with it.
LEMMA TrimKeeps ==
    ASSUME NEW d, DecoderOK(d), Ordered(d.tokens), BeginsWell(d.tokens),
           d.result_len > 0, NEW b \in BOOLEAN,
           NEW e, e = Ranked(d, b)
    PROVE  /\ DecoderOK(e) /\ Ordered(e.tokens) /\ BeginsWell(e.tokens)
           /\ Spoken(e) /\ e.result_len = Len(e.tokens)
           /\ e.failed = b /\ e.result_len = d.result_len
  <1>1. PICK t : t = SubSeq(d.tokens, 1, d.result_len)
    OBVIOUS
  <1>2. PICK r : r = d.result_len
    OBVIOUS
  <1>3. /\ d \in Decoder /\ d.tokens \in Seq(Tokens) /\ r \in Nat
        /\ r > 0 /\ r <= Len(d.tokens)
    BY <1>2 DEF DecoderOK, Decoder
  <1>4. /\ t \in Seq(Tokens) /\ Len(t) = r
        /\ \A n \in 1 .. r : t[n] = d.tokens[n]
    BY <1>1, <1>2, <1>3
  <1>5. /\ e.tokens = t /\ e.result_len = r /\ e.has_ts = d.has_ts
        /\ e.seek_delta = d.seek_delta /\ e.failed = b /\ e \in Decoder
    BY <1>1, <1>2, <1>3, <1>4 DEF Ranked, Trim, Decoder
  <1>6. \A n \in 1 .. r : n \in 1 .. Len(d.tokens)
    BY <1>3
  <1>7. DecoderOK(e)
    <2>1. /\ e.seek_delta \in 1 .. Chunk
          /\ d.has_ts => t[r] > Beg /\ e.seek_delta = 2 * (t[r] - Beg)
          /\ ~d.has_ts => t[r] = Eot
      <3>1. r \in 1 .. r /\ t[r] = d.tokens[r]
        BY <1>3, <1>4
      <3>2. QED
        BY <1>2, <1>3, <1>5, <3>1 DEF DecoderOK
    <2>4. ASSUME ~d.has_ts, NEW n \in 1 .. r PROVE t[n] <= Beg
      BY <1>4, <1>6, <2>4 DEF DecoderOK
    <2>2. \A n \in 1 .. r : ~(n > r)
      BY <1>3
    <2>3. QED
      BY <1>3, <1>4, <1>5, <2>1, <2>2, <2>4 DEF DecoderOK
  <1>8. Ordered(t)
    BY <1>3, <1>4, <1>6 DEF Ordered
  <1>9. BeginsWell(t)
    BY <1>3, <1>4 DEF BeginsWell
  <1>10. Spoken(e)
    <2> SUFFICES ASSUME r < 2 PROVE t[1] # Beg
      BY <1>3, <1>4, <1>5 DEF Spoken
    <2>1. r = 1
      BY <1>3, OnlyOne, Zenon
    <2>2. d.tokens[r] > Beg \/ d.tokens[r] = Eot
      BY <1>2, <1>3 DEF DecoderOK
    <2>3. QED
      BY <1>3, <1>4, <2>1, <2>2 DEF Beg, Eot
  <1>11. QED
    BY <1>2, <1>4, <1>5, <1>7, <1>8, <1>9, <1>10

LEMMA NewDecoderOK ==
    /\ DecoderOK(NewDecoder)
    /\ Ordered(NewDecoder.tokens) /\ BeginsWell(NewDecoder.tokens)
    /\ Len(NewDecoder.tokens) = 0 /\ Untimed(NewDecoder)
    /\ ~NewDecoder.failed /\ ~NewDecoder.completed
  <1>1. NewDecoder \in Decoder
    BY WhisperFullAssumption DEF NewDecoder, Decoder
  <1>2. /\ NewDecoder.tokens = <<>> /\ NewDecoder.result_len = 0
        /\ NewDecoder.seek_delta = Chunk /\ ~NewDecoder.has_ts
        /\ ~NewDecoder.failed /\ ~NewDecoder.completed
    BY DEF NewDecoder
  <1>3. Chunk \in 1 .. Chunk
    BY WhisperFullAssumption
  <1>4. Len(NewDecoder.tokens) = 0
    BY <1>2
  <1>5. \A n \in 1 .. 0 : FALSE
    OBVIOUS
  <1>6. QED
    BY <1>1, <1>2, <1>3, <1>4, <1>5 DEF DecoderOK, Ordered, BeginsWell, Untimed

----------------------------------------------------------------------------
(* The start, and the steps that leave the decoders alone. *)

LEMMA InitInv == Init => Inv
  <1> SUFFICES ASSUME Init PROVE Inv
    OBVIOUS
  <1> USE DEF Init
  <1>1. TypeOK
    <2>1. BestOf \in Nat /\ BestOf > 0 /\ 0 \in Decoders /\ 1 \in 1 .. BestOf
      BY WhisperFullAssumption DEF Decoders
    <2>2. 1 \in 1 .. Len(Temperatures)
      BY WhisperFullAssumption
    <2>3. NewDecoder \in Decoder
      BY NewDecoderOK DEF DecoderOK
    <2>4. QED
      BY <2>1, <2>2, <2>3 DEF TypeOK
  <1>2. DecodersOK
    BY NewDecoderOK DEF DecodersOK
  <1>3. QED
    BY <1>1, <1>2, WhisperFullAssumption
       DEF Inv, RoundOK, RankOK, OutputOK, WindowOK, InWindow, FreedOK,
           FreedTwiceAfterFallback, AgainOnlyIfGivenUp, LossIsShort

LEMMA SameDecoders ==
    ASSUME DecodersOK, decoders' = decoders PROVE DecodersOK'
  BY DEF DecodersOK

\* A step out of the window, or from its beginning, that frees nothing.
LEMMA BetweenWindows ==
    ASSUME Inv, TypeOK', decoders' = decoders, pc' \in {"window", "returned"},
           freed' = freed, freed = 0,
           UNCHANGED history
    PROVE  Inv'
  <1>1. DecodersOK'
    BY SameDecoders DEF Inv
  <1>2. QED
    BY <1>1
       DEF Inv, RoundOK, RankOK, OutputOK, WindowOK, InWindow, FreedOK,
           FreedTwiceAfterFallback, AgainOnlyIfGivenUp, LossIsShort, history

LEMMA StartInv == Inv /\ Start => Inv'
  <1> SUFFICES ASSUME Inv, Start PROVE Inv'
    OBVIOUS
  <1> USE DEF Start, Return
  <1>1. TypeOK'
    BY DEF Inv, TypeOK, window, attempt, history
  <1>2. freed = 0
    BY DEF Inv, FreedOK
  <1>3. QED
    BY <1>1, <1>2, BetweenWindows DEF history

LEMMA FinishInv == Inv /\ Finish => Inv'
  <1> SUFFICES ASSUME Inv, Finish PROVE Inv'
    OBVIOUS
  <1> USE DEF Finish, Return
  <1>1. TypeOK'
    BY DEF Inv, TypeOK, window, attempt, history
  <1>2. freed = 0
    BY DEF Inv, FreedOK
  <1>3. QED
    BY <1>1, <1>2, BetweenWindows DEF history

LEMMA EncodeInv == Inv /\ Encode => Inv'
  <1> SUFFICES ASSUME Inv, Encode PROVE Inv'
    OBVIOUS
  <1> USE DEF Encode, Return
  <1>1. 0 \in Decoders /\ 1 \in 1 .. Len(Temperatures)
    BY WhisperFullAssumption DEF Decoders
  <1>2. TypeOK'
    <2>1. /\ pc' \in {"attempt", "returned"} /\ returned' \in {returned, -6}
          /\ prompt_past' \in {prompt_past, 0} /\ best' \in {best, 0} /\ it' \in {it, 1}
          /\ UNCHANGED <<seek, freed, call, prompt, conditioned, n_decoders_cur,
                         kv_self_n_dec, no_speech, i, decoders, position, weak,
                         gaveUp, again, unheard>>
      BY DEF window, history
    <2>2. /\ returned' \in {0, -2, -3, -6, -7, -8, -9} /\ prompt_past' \in Nat
          /\ best' \in Decoders /\ it' \in 1 .. Len(Temperatures)
      BY <1>1, <2>1 DEF Inv, TypeOK
    <2>3. QED
      BY <2>1, <2>2 DEF Inv, TypeOK
  <1>3. freed = 0
    BY DEF Inv, FreedOK
  <1>4. CASE pc' = "returned"
    BY <1>2, <1>3, <1>4, BetweenWindows DEF history
  <1>5. CASE pc' = "attempt"
    <2>1. seek' = seek /\ best' = 0 /\ call' = call /\ decoders' = decoders /\ it' = 1
      BY <1>5
    <2>2. seek + Second < seek_end
      BY WhisperFullAssumption DEF AtEnd, Inv, TypeOK, seek_end
    <2>3. WindowOK'
      BY <1>5, <2>1, <2>2, WhisperFullAssumption
         DEF WindowOK, InWindow, DecodersAt, seek_end
    <2>4. DecodersOK'
      BY <2>1, SameDecoders DEF Inv
    <2>5. QED
      BY <1>2, <1>3, <1>5, <2>3, <2>4
         DEF Inv, RoundOK, RankOK, OutputOK, FreedOK,
             FreedTwiceAfterFallback, AgainOnlyIfGivenUp, LossIsShort, history
  <1>6. QED
    BY <1>4, <1>5

LEMMA FreeContextInv == Inv /\ FreeContext => Inv'
  <1> SUFFICES ASSUME Inv, FreeContext PROVE Inv'
    OBVIOUS
  <1> USE DEF FreeContext
  <1>1. freed \in {0, 1} /\ freed' = freed + 1 /\ pc = "returned" /\ pc' = "freed"
    BY DEF Inv, TypeOK, FreedOK
  <1>2. NewDecoder \in Decoder
    BY NewDecoderOK DEF DecoderOK
  <1>3. TypeOK'
    <2>1. freed' \in 0 .. 2 /\ decoders' \in [Decoders -> Decoder]
      BY <1>1, <1>2
    <2>2. QED
      BY <1>1, <2>1 DEF Inv, TypeOK, window, attempt, history
  <1>4. DecodersOK'
    BY NewDecoderOK DEF DecodersOK
  <1>5. FreedTwiceAfterFallback' /\ FreedOK'
    BY <1>1 DEF Inv, FreedOK, FreedTwiceAfterFallback, attempt
  <1>6. QED
    BY <1>1, <1>3, <1>4, <1>5
       DEF Inv, RoundOK, RankOK, OutputOK, WindowOK, InWindow,
           AgainOnlyIfGivenUp, LossIsShort, history

LEMMA StutterInv == Inv /\ UNCHANGED vars => Inv'
  <1> SUFFICES ASSUME Inv, UNCHANGED vars PROVE Inv'
    OBVIOUS
  <1> USE DEF vars, window, attempt, history
  <1>1. TypeOK' /\ DecodersOK'
    BY SameDecoders DEF Inv, TypeOK
  <1>2. RoundOK' /\ RankOK' /\ OutputOK'
    BY DEF Inv, RoundOK, RankOK, OutputOK, Current, Active, NoTimestamps
  <1>3. WindowOK'
    BY DEF Inv, WindowOK, InWindow, seek_end, Current, PromptInit, NoTimestamps
  <1>4. QED
    BY <1>1, <1>2, <1>3
       DEF Inv, FreedOK, FreedTwiceAfterFallback, AgainOnlyIfGivenUp, LossIsShort

----------------------------------------------------------------------------
(* The steps of a window. *)

LEMMA PromptInitBounds ==
    ASSUME TypeOK
    PROVE  PromptInit \in 1 .. 4 /\ (~NoTimestamps => PromptInit <= 3)
  <1>1. call.multilingual \in BOOLEAN /\ call.distilled \in BOOLEAN
    BY WhisperFullAssumption DEF TypeOK
  <1>2. QED
    BY <1>1 DEF PromptInit, NoTimestamps

LEMMA DecodersAtBounds ==
    /\ \A t : DecodersAt(t) \in 1 .. BestOf
    /\ DecodersAt(Temperatures[1]) = 1
    /\ \A m, n \in 1 .. Len(Temperatures) :
          m <= n => DecodersAt(Temperatures[m]) <= DecodersAt(Temperatures[n])
  <1>1. BestOf \in Nat /\ BestOf >= 1
    BY WhisperFullAssumption
  <1>2. \A t : DecodersAt(t) = 1 \/ DecodersAt(t) = BestOf
    BY DEF DecodersAt
  <1>3. ASSUME NEW m \in 1 .. Len(Temperatures), NEW n \in 1 .. Len(Temperatures),
               m <= n
        PROVE  DecodersAt(Temperatures[m]) <= DecodersAt(Temperatures[n])
    <2>1. Temperatures[m] \in Nat /\ Temperatures[n] \in Nat
      BY WhisperFullAssumption
    <2>2. Temperatures[m] <= Temperatures[n]
      <3>1. CASE m = n
        BY <2>1, <3>1
      <3>2. CASE m < n
        BY <3>2, WhisperFullAssumption
      <3>3. QED
        BY <1>3, <3>1, <3>2
    <2>3. QED
      BY <1>1, <2>1, <2>2 DEF DecodersAt
  <1>4. DecodersAt(Temperatures[1]) = 1
    BY WhisperFullAssumption DEF DecodersAt
  <1>5. QED
    BY <1>1, <1>2, <1>3, <1>4

LEMMA AttemptInv == Inv /\ Attempt => Inv'
  <1> SUFFICES ASSUME Inv, Attempt PROVE Inv'
    OBVIOUS
  <1>1. PICK n : n = DecodersAt(Temperatures[it])
    OBVIOUS
  <1>2. /\ pc = "attempt" /\ n_decoders_cur' = n /\ i' = 0
        /\ decoders' = [j \in Decoders |-> IF j < n THEN NewDecoder ELSE decoders[j]]
        /\ Condition(Temperatures[it])
        /\ CacheFails(n) \/ Prompted(n)
        /\ UNCHANGED <<call, seek, best, prompt_past, it, weak, gaveUp, again, unheard>>
    BY <1>1 DEF Attempt, window, history
  <1>3. n \in 1 .. BestOf /\ (it = 1 => n = 1)
    BY <1>1, DecodersAtBounds
  <1>4. TypeOK /\ best < n /\ seek + Second < seek_end /\ freed = 0
    BY <1>1, <1>2 DEF Inv, WindowOK, InWindow, FreedOK
  <1>5. PromptInit \in 1 .. 4 /\ PromptInit' = PromptInit /\ NMax \in Nat /\ NMax >= 2
    BY <1>2, <1>4, PromptInitBounds, NMaxAtLeastTwo DEF PromptInit, NoTimestamps
  <1>6. /\ prompt' \in Nat /\ conditioned' \in BOOLEAN
        /\ prompt' >= PromptInit /\ (conditioned' => prompt' >= 1 + PromptInit)
        /\ prompt' <= 1 + TextCtx \div 2 + PromptInit
    <2>1. PICK l : l = Least(TextCtx \div 2, prompt_past)
      OBVIOUS
    <2>2. l \in Nat /\ l <= TextCtx \div 2
      BY <1>4, <2>1, WhisperFullAssumption DEF Least, TypeOK
    <2>3. \/ conditioned' = TRUE /\ prompt' = 1 + l + PromptInit
          \/ conditioned' = FALSE /\ prompt' = PromptInit
      BY <1>2, <2>1 DEF Condition
    <2>4. TextCtx \div 2 \in Nat
      BY WhisperFullAssumption
    <2>5. /\ 1 + l + PromptInit \in Nat
          /\ 1 + l + PromptInit >= PromptInit
          /\ 1 + l + PromptInit >= 1 + PromptInit
          /\ 1 + l + PromptInit <= 1 + TextCtx \div 2 + PromptInit
          /\ PromptInit \in Nat /\ PromptInit >= PromptInit
          /\ PromptInit <= 1 + TextCtx \div 2 + PromptInit
      BY <1>5, <2>2, <2>4
    <2>6. CASE conditioned' = TRUE /\ prompt' = 1 + l + PromptInit
      BY <2>5, <2>6
    <2>7. CASE conditioned' = FALSE /\ prompt' = PromptInit
      BY <2>5, <2>7
    <2>8. QED
      BY <2>3, <2>6, <2>7
  <1>7. decoders' \in [Decoders -> Decoder] /\ DecodersOK'
    <2>1. ASSUME NEW j \in Decoders
          PROVE  decoders'[j] = NewDecoder \/ decoders'[j] = decoders[j]
      BY <1>2
    <2>2. DecodersOK'
      BY <2>1, NewDecoderOK DEF Inv, DecodersOK
    <2>3. NewDecoder \in Decoder
      BY NewDecoderOK DEF DecoderOK
    <2>4. QED
      BY <1>2, <1>4, <2>2, <2>3 DEF TypeOK
  <1>8. CASE CacheFails(n)
    <2>1. /\ kv_self_n_dec < n /\ pc' = "returned" /\ returned' = -7 /\ freed' = 1
          /\ kv_self_n_dec' = kv_self_n_dec /\ position' = position
          /\ no_speech' = no_speech
      BY <1>4, <1>8 DEF CacheFails, Return, NeedsCache
    <2>2. TypeOK'
      BY <1>2, <1>3, <1>4, <1>6, <1>7, <2>1 DEF TypeOK
    <2>3. it' > 1 /\ n_decoders_cur' > kv_self_n_dec'
      BY <1>2, <1>3, <1>4, <2>1 DEF TypeOK
    <2>4. QED
      BY <1>2, <1>7, <2>1, <2>2, <2>3
         DEF Inv, RoundOK, RankOK, OutputOK, WindowOK, InWindow, FreedOK,
             FreedTwiceAfterFallback, AgainOnlyIfGivenUp, LossIsShort
  <1>9. CASE Prompted(n)
    <2>1. /\ pc' \in {"returned", "round"} /\ freed' = freed
          /\ kv_self_n_dec' \in 1 .. BestOf /\ n <= kv_self_n_dec'
      BY <1>3, <1>4, <1>9 DEF Prompted, NeedsCache, Return, TypeOK
    <2>2. pc' = "round" => position' = prompt' - 1
      BY <1>9 DEF Prompted, Return
    <2>3. TypeOK'
      <3>1. prompt' - 1 \in Nat
        <4>1. prompt' \in Nat /\ prompt' >= PromptInit
          BY <1>6
        <4>2. PromptInit \in Nat /\ PromptInit >= 1
          BY <1>5
        <4>3. QED
          BY <4>1, <4>2, Predecessor, Zenon
      <3>2. \/ returned' = -8 /\ UNCHANGED <<position, no_speech>>
            \/ position' = prompt' - 1 /\ no_speech' \in BOOLEAN /\ returned' = returned
        BY <1>9 DEF Prompted, Return
      <3>3. /\ returned' \in {0, -2, -3, -6, -7, -8, -9}
            /\ position' \in Nat /\ no_speech' \in BOOLEAN
        BY <1>4, <3>1, <3>2 DEF TypeOK
      <3>4. QED
        BY <1>2, <1>3, <1>4, <1>6, <1>7, <2>1, <3>3 DEF TypeOK
    <2>4. WindowOK'
      <3>1. n_decoders_cur' = DecodersAt(Temperatures[it'])
        BY <1>1, <1>2
      <3>2. best' \in 0 .. n_decoders_cur' - 1
        BY <1>2, <1>3, <1>4 DEF TypeOK, Decoders
      <3>3. seek' + Second < seek_end'
        BY <1>2, <1>4 DEF seek_end
      <3>4. QED
        BY <1>2, <1>5, <1>6, <2>1, <3>1, <3>2, <3>3
           DEF WindowOK, InWindow, Current
    <2>5. RoundOK'
      <3>1. ASSUME NEW j \in Current' PROVE decoders'[j] = NewDecoder
        BY <1>2, <1>3, WhisperFullAssumption DEF Current, Decoders
      <3>2. QED
        BY <1>2, <1>5, <1>6, <2>2, <3>1, NewDecoderOK DEF RoundOK, Active
    <2>6. QED
      BY <1>2, <1>4, <1>7, <2>1, <2>3, <2>4, <2>5
         DEF Inv, RankOK, OutputOK, FreedOK,
             FreedTwiceAfterFallback, AgainOnlyIfGivenUp, LossIsShort
  <1>10. QED
    BY <1>2, <1>8, <1>9

LEMMA RoundsDoneInv == Inv /\ RoundsDone => Inv'
  <1> SUFFICES ASSUME Inv, RoundsDone PROVE Inv'
    OBVIOUS
  <1>1. /\ pc = "round" /\ i >= NMax /\ pc' = "rank"
        /\ UNCHANGED <<returned, freed, call, seek, best, prompt_past, it, prompt,
                       conditioned, n_decoders_cur, kv_self_n_dec, no_speech, i,
                       decoders, position, weak, gaveUp, again, unheard>>
    BY DEF RoundsDone, window, attempt, history
  <1>2. TypeOK' /\ DecodersOK'
    BY <1>1, SameDecoders DEF Inv, TypeOK
  <1>3. i = NMax /\ NMax >= 2
    BY <1>1, NMaxAtLeastTwo DEF Inv, RoundOK, TypeOK
  <1>4. ASSUME NEW j \in Current
        PROVE  /\ Spoken(decoders[j])
               /\ ~decoders[j].failed => decoders[j].result_len > 0
    <2>1. CASE Active(j)
      <3>1. Len(decoders[j].tokens) >= 2 /\ decoders[j].result_len > 0
        BY <1>1, <1>3, <2>1, NMaxAtLeastTwo DEF Inv, RoundOK
      <3>2. QED
        BY <3>1 DEF Spoken
    <2>2. CASE ~Active(j)
      BY <1>1, <2>2 DEF Inv, RoundOK, Active
    <2>3. QED
      BY <2>1, <2>2
  <1>5. RankOK'
    BY <1>1, <1>4 DEF RankOK, Current
  <1>6. WindowOK'
    BY <1>1 DEF Inv, WindowOK, InWindow, Current, seek_end, PromptInit, NoTimestamps
  <1>7. QED
    BY <1>1, <1>2, <1>5, <1>6
       DEF Inv, RoundOK, OutputOK, FreedOK,
           FreedTwiceAfterFallback, AgainOnlyIfGivenUp, LossIsShort

\* What a round does to one decoder.
LEMMA RoundDecoder ==
    ASSUME Inv, Round, NEW j \in Decoders
    PROVE  /\ DecoderOK(decoders'[j])
           /\ Ordered(decoders'[j].tokens) /\ BeginsWell(decoders'[j].tokens)
           /\ j \in Current =>
                 /\ NoTimestamps => Untimed(decoders'[j])
                 /\ Active(j)' => /\ Len(decoders'[j].tokens) = i + 1
                                  /\ i + 1 = NMax => decoders'[j].result_len > 0
                 /\ ~Active(j)' => Spoken(decoders'[j])
                 /\ decoders'[j].completed => decoders'[j].result_len > 0
  <1>1. PICK choice \in [Choices -> Tokens] :
            /\ \A k \in Choices : choice[k] \in Allowed(decoders[k])
            /\ decoders' = [k \in Decoders |-> IF k \in Choices
                                               THEN Accept(decoders[k], choice[k])
                                               ELSE decoders[k]]
    BY DEF Round, SampleAndUpdate
  <1>2. pc = "round" /\ i < NMax /\ i \in Nat
    BY DEF Round, Inv, TypeOK
  <1>3. /\ DecoderOK(decoders[j])
        /\ Ordered(decoders[j].tokens) /\ BeginsWell(decoders[j].tokens)
    BY DEF Inv, DecodersOK
  <1>4. j \in Current =>
            /\ NoTimestamps => Untimed(decoders[j])
            /\ Active(j) => Len(decoders[j].tokens) = i
            /\ ~Active(j) => Spoken(decoders[j])
            /\ decoders[j].completed => decoders[j].result_len > 0
    BY <1>2 DEF Inv, RoundOK
  <1>5. CASE j \in Choices
    <2>1. /\ choice[j] \in Allowed(decoders[j])
          /\ decoders'[j] = Accept(decoders[j], choice[j])
          /\ j \in Current /\ ~decoders[j].failed /\ ~decoders[j].completed
      BY <1>1, <1>5 DEF Choices, Active
    <2>2. Len(decoders[j].tokens) = i /\ (NoTimestamps => Untimed(decoders[j]))
      BY <1>4, <2>1 DEF Active
    <2>3. PICK e : e = decoders'[j]
      OBVIOUS
    <2>4. /\ DecoderOK(e) /\ Ordered(e.tokens) /\ BeginsWell(e.tokens)
          /\ Len(e.tokens) = i + 1
          /\ NoTimestamps => Untimed(e)
          /\ e.failed \/ e.completed => Spoken(e)
          /\ e.completed => e.result_len > 0
          /\ ~e.failed /\ ~e.completed /\ i + 1 = NMax => e.result_len > 0
      BY <1>2, <1>3, <2>1, <2>2, <2>3, AcceptKeeps
    <2>5. QED
      BY <2>3, <2>4 DEF Active
  <1>6. CASE j \notin Choices
    <2>1. decoders'[j] = decoders[j]
      BY <1>1, <1>6
    <2>2. j \in Current => ~Active(j)
      BY <1>6 DEF Choices
    <2>3. QED
      BY <1>3, <1>4, <2>1, <2>2 DEF Active
  <1>7. QED
    BY <1>5, <1>6

LEMMA RoundInv == Inv /\ Round => Inv'
  <1> SUFFICES ASSUME Inv, Round PROVE Inv'
    OBVIOUS
  <1>1. /\ pc = "round" /\ i < NMax
        /\ \/ /\ \A j \in Current : ~Active(j)'
              /\ pc' = "rank" /\ UNCHANGED <<returned, position, i>>
           \/ /\ \E j \in Current : Active(j)'
              /\ position' = prompt + i /\ i' = i + 1
              /\ \/ pc' = "returned" /\ returned' = -9
                 \/ pc' = "round" /\ returned' = returned
        /\ UNCHANGED <<freed, call, seek, best, prompt_past, it, prompt,
                       conditioned, n_decoders_cur, kv_self_n_dec, no_speech,
                       weak, gaveUp, again, unheard>>
    BY DEF Round, Return, window, attempt, history
  <1>2. TypeOK /\ freed = 0 /\ i \in Nat /\ prompt \in Nat
    BY <1>1 DEF Inv, FreedOK, TypeOK
  <1>3. \A j \in Current : j \in Decoders
    BY <1>2, WhisperFullAssumption DEF TypeOK, Current, Decoders
  <1>4. DecodersOK'
    BY RoundDecoder DEF DecodersOK
  <1>5. TypeOK'
    <2>1. decoders' \in [Decoders -> Decoder]
      <3>1. \A j \in Decoders : decoders'[j] \in Decoder
        BY RoundDecoder DEF DecoderOK
      <3>2. decoders' = [j \in Decoders |-> decoders'[j]]
        BY DEF Round, SampleAndUpdate
      <3>3. QED
        BY <3>1, <3>2
    <2>2. /\ pc' \in {"rank", "round", "returned"} /\ i' \in Nat /\ position' \in Nat
          /\ returned' \in {0, -2, -3, -6, -7, -8, -9}
      <3>1. i + 1 \in Nat /\ prompt + i \in Nat
        BY <1>2
      <3>2. position \in Nat /\ returned \in {0, -2, -3, -6, -7, -8, -9}
        BY <1>2 DEF TypeOK
      <3>3. \/ pc' = "rank" /\ UNCHANGED <<returned, position, i>>
            \/ /\ position' = prompt + i /\ i' = i + 1
               /\ \/ pc' = "returned" /\ returned' = -9
                  \/ pc' = "round" /\ returned' = returned
        BY <1>1
      <3>4. QED
        BY <1>2, <3>1, <3>2, <3>3
    <2>3. QED
      BY <1>1, <1>2, <2>1, <2>2 DEF TypeOK
  <1>6. WindowOK'
    BY <1>1 DEF Inv, WindowOK, InWindow, Current, seek_end, PromptInit, NoTimestamps
  <1>7. Current' = Current /\ (NoTimestamps' <=> NoTimestamps) /\ NMax' = NMax
    BY <1>1 DEF Current, NoTimestamps, NMax
  <1>8. CASE pc' = "rank"
    <2>1. ASSUME NEW j \in Current
          PROVE  /\ Spoken(decoders'[j])
                 /\ ~decoders'[j].failed => decoders'[j].result_len > 0
      BY <1>1, <1>3, <1>8, RoundDecoder DEF Active
    <2>2. RankOK'
      BY <1>7, <2>1 DEF RankOK
    <2>3. QED
      BY <1>1, <1>2, <1>4, <1>5, <1>6, <1>8, <2>2
         DEF Inv, RoundOK, OutputOK, FreedOK,
             FreedTwiceAfterFallback, AgainOnlyIfGivenUp, LossIsShort
  <1>9. CASE pc' = "round"
    <2>1. position' = prompt + i /\ i' = i + 1 /\ \E j \in Current : Active(j)'
      BY <1>1, <1>9
    <2>2. position' = prompt' + i' - 1 /\ i' <= NMax
      BY <1>1, <1>2, <2>1, NMaxAtLeastTwo
    <2>3. ASSUME NoTimestamps PROVE i' < NMax
      <3>1. PICK j \in Current : Active(j)'
        BY <2>1
      <3>2. Untimed(decoders'[j]) /\ (i + 1 = NMax => decoders'[j].result_len > 0)
        BY <1>3, <2>3, <3>1, RoundDecoder
      <3>3. decoders'[j].result_len = 0
        BY <3>1, <3>2 DEF Untimed, Active
      <3>4. i' # NMax
        BY <2>1, <3>2, <3>3
      <3>5. QED
        BY <1>2, <2>1, <2>2, <3>4, NMaxAtLeastTwo
    <2>4. ASSUME NEW j \in Current
          PROVE  /\ NoTimestamps => Untimed(decoders'[j])
                 /\ Active(j)' => /\ Len(decoders'[j].tokens) = i'
                                  /\ i' = NMax => decoders'[j].result_len > 0
                 /\ ~Active(j)' => Spoken(decoders'[j])
                 /\ decoders'[j].completed => decoders'[j].result_len > 0
      BY <1>3, <2>1, RoundDecoder
    <2>5. RoundOK'
      BY <1>7, <2>2, <2>3, <2>4 DEF RoundOK, Active
    <2>6. QED
      BY <1>1, <1>2, <1>4, <1>5, <1>6, <1>9, <2>5
         DEF Inv, RankOK, OutputOK, FreedOK,
             FreedTwiceAfterFallback, AgainOnlyIfGivenUp, LossIsShort
  <1>10. CASE pc' = "returned"
    BY <1>1, <1>2, <1>4, <1>5, <1>6, <1>10
       DEF Inv, RoundOK, RankOK, OutputOK, FreedOK,
           FreedTwiceAfterFallback, AgainOnlyIfGivenUp, LossIsShort
  <1>11. QED
    BY <1>1, <1>8, <1>9, <1>10

LEMMA RankInv == Inv /\ Rank => Inv'
  <1> SUFFICES ASSUME Inv, Rank PROVE Inv'
    OBVIOUS
  <1>1. /\ pc = "rank"
        /\ \/ /\ MoreTemperatures /\ pc' = "attempt" /\ it' = it + 1
           \/ pc' = "output" /\ it' = it
        /\ UNCHANGED <<returned, freed, call, seek, prompt_past, prompt, conditioned,
                       n_decoders_cur, kv_self_n_dec, no_speech, i, position,
                       gaveUp, again, unheard>>
    BY DEF Rank, history
  <1>2. best' \in LET ranked == {j \in Current : ~decoders'[j].failed}
                  IN  IF ranked = {} THEN {best} ELSE ranked
    BY DEF Rank
  <1>3. PICK low : decoders' = [j \in Decoders |->
            IF j \notin Current \/ decoders[j].failed THEN decoders[j]
            ELSE [Trim(decoders[j]) EXCEPT !.failed = j \in low]]
    BY DEF Rank
  <1>4. TypeOK /\ freed = 0 /\ best \in Current
    BY <1>1 DEF Inv, FreedOK, WindowOK
  <1>5. \A j \in Current : j \in Decoders
    BY <1>4, WhisperFullAssumption DEF TypeOK, Current, Decoders
  <1>6. Current' = Current
    BY <1>1 DEF Current
  <1>7. ASSUME NEW j \in Decoders
        PROVE  /\ DecoderOK(decoders'[j])
               /\ Ordered(decoders'[j].tokens) /\ BeginsWell(decoders'[j].tokens)
               /\ j \in Current =>
                     /\ Spoken(decoders'[j])
                     /\ \/ decoders'[j].failed
                        \/ decoders'[j].result_len = Len(decoders'[j].tokens)
    <2>1. /\ DecoderOK(decoders[j])
          /\ Ordered(decoders[j].tokens) /\ BeginsWell(decoders[j].tokens)
      BY DEF Inv, DecodersOK
    <2>2. j \in Current =>
              /\ Spoken(decoders[j])
              /\ ~decoders[j].failed => decoders[j].result_len > 0
      BY <1>1 DEF Inv, RankOK
    <2>3. CASE j \notin Current \/ decoders[j].failed
      <3>1. decoders'[j] = decoders[j]
        BY <1>3, <2>3
      <3>2. QED
        BY <2>1, <2>2, <2>3, <3>1
    <2>4. CASE j \in Current /\ ~decoders[j].failed
      <3>1. PICK e : e = decoders'[j]
        OBVIOUS
      <3>2. e = [Trim(decoders[j]) EXCEPT !.failed = j \in low]
        BY <1>3, <2>4, <3>1
      <3>3. \E b \in BOOLEAN : e = [Trim(decoders[j]) EXCEPT !.failed = b]
        <4>1. CASE j \in low
          <5>1. e = [Trim(decoders[j]) EXCEPT !.failed = TRUE]
            BY <3>2, <4>1
          <5>2. QED
            BY <5>1
        <4>2. CASE j \notin low
          <5>1. (j \in low) = FALSE
            BY <4>2
          <5>2. e = [Trim(decoders[j]) EXCEPT !.failed = FALSE]
            BY <3>2, <5>1
          <5>3. QED
            BY <5>2
        <4>3. QED
          BY <4>1, <4>2
      <3>4. /\ DecoderOK(e) /\ Ordered(e.tokens) /\ BeginsWell(e.tokens)
            /\ Spoken(e) /\ e.result_len = Len(e.tokens)
        <4>1. PICK b \in BOOLEAN : e = [Trim(decoders[j]) EXCEPT !.failed = b]
          BY <3>3
        <4>2. PICK d : d = decoders[j]
          OBVIOUS
        <4>3. /\ DecoderOK(d) /\ Ordered(d.tokens) /\ BeginsWell(d.tokens)
              /\ d.result_len > 0 /\ e = Ranked(d, b)
          BY <2>1, <2>2, <2>4, <4>1, <4>2 DEF Ranked
        <4>4. QED
          BY <4>3, TrimKeeps
      <3>5. QED
        BY <3>1, <3>4
    <2>5. QED
      BY <2>3, <2>4
  <1>8. DecodersOK'
    BY <1>7 DEF DecodersOK
  <1>9. best' \in Current
    BY <1>2, <1>4
  <1>10. TypeOK'
    <2>1. decoders' \in [Decoders -> Decoder]
      <3>1. \A j \in Decoders : decoders'[j] \in Decoder
        BY <1>7 DEF DecoderOK
      <3>2. decoders' = [j \in Decoders |-> decoders'[j]]
        BY <1>3
      <3>3. QED
        BY <3>1, <3>2
    <2>2. it' \in 1 .. Len(Temperatures)
      BY <1>1, <1>4, WhisperFullAssumption DEF TypeOK, MoreTemperatures
    <2>3. weak' \in BOOLEAN
      BY DEF Rank
    <2>4. QED
      BY <1>1, <1>4, <1>5, <1>9, <2>1, <2>2, <2>3 DEF TypeOK
  <1>11. CASE pc' = "attempt"
    <2>1. it' = it + 1 /\ MoreTemperatures
      BY <1>1, <1>11
    <2>2. it \in 1 .. Len(Temperatures) /\ it' \in 1 .. Len(Temperatures)
      BY <1>4, <1>10 DEF TypeOK
    <2>3. n_decoders_cur <= DecodersAt(Temperatures[it'])
      BY <1>1, <2>1, <2>2, DecodersAtBounds DEF Inv, WindowOK
    <2>4. DecodersAt(Temperatures[it']) \in Nat
      BY DecodersAtBounds
    <2>5. best' < DecodersAt(Temperatures[it'])
      BY <1>4, <1>9, <2>3, <2>4 DEF Current, TypeOK
    <2>6. WindowOK'
      BY <1>1, <1>11, <2>5 DEF Inv, WindowOK, InWindow, seek_end
    <2>7. QED
      BY <1>1, <1>4, <1>8, <1>10, <1>11, <2>6
         DEF Inv, RoundOK, RankOK, OutputOK, FreedOK,
             FreedTwiceAfterFallback, AgainOnlyIfGivenUp, LossIsShort
  <1>12. CASE pc' = "output"
    <2>1. it' = it
      BY <1>1, <1>12
    <2>2. WindowOK'
      BY <1>1, <1>6, <1>9, <1>12, <2>1
         DEF Inv, WindowOK, InWindow, seek_end, PromptInit, NoTimestamps
    <2>3. OutputOK'
      <3>1. Spoken(decoders'[best'])
        BY <1>5, <1>7, <1>9
      <3>2. ASSUME NEW j \in Current, ~decoders'[j].failed
            PROVE  decoders'[best'].result_len = Len(decoders'[best'].tokens)
        <4>1. ~decoders'[best'].failed
          BY <1>2, <3>2
        <4>2. QED
          BY <1>5, <1>7, <1>9, <4>1
      <3>3. QED
        BY <1>6, <3>1, <3>2 DEF OutputOK
    <2>4. QED
      BY <1>1, <1>4, <1>8, <1>10, <1>12, <2>2, <2>3
         DEF Inv, RoundOK, RankOK, FreedOK,
             FreedTwiceAfterFallback, AgainOnlyIfGivenUp, LossIsShort
  <1>13. QED
    BY <1>1, <1>11, <1>12

----------------------------------------------------------------------------
(* The output of a window. *)

\* A result that ends with the timestamp has no text beyond it.
LEMMA NothingBeyond ==
    ASSUME NEW d, DecoderOK(d), d.result_len = Len(d.tokens)
    PROVE  ~TextBeyond(d.tokens)
  <1> SUFFICES ASSUME NEW m \in DOMAIN d.tokens, NEW n \in DOMAIN d.tokens,
                      m < n, d.tokens[m] > Beg,
                      \A k \in m + 1 .. Len(d.tokens) : d.tokens[k] <= Beg
               PROVE  FALSE
    BY DEF TextBeyond
  <1>1. d.tokens \in Seq(Tokens) /\ m \in 1 .. Len(d.tokens) /\ n \in 1 .. Len(d.tokens)
    BY DEF DecoderOK, Decoder
  <1>2. Len(d.tokens) \in m + 1 .. Len(d.tokens) /\ d.tokens[m] \in Nat
    BY <1>1, TokensAreIntegers
  <1>3. d.tokens[Len(d.tokens)] <= Beg /\ d.tokens[Len(d.tokens)] \in Nat
    <2>1. Len(d.tokens) \in 1 .. Len(d.tokens)
      BY <1>1
    <2>2. d.tokens[Len(d.tokens)] \in Tokens
      BY <1>1, <2>1
    <2>3. d.tokens[Len(d.tokens)] <= Beg
      BY <1>2
    <2>4. QED
      BY <2>2, <2>3, TokensAreIntegers
  <1>4. ~d.has_ts
    BY <1>3 DEF DecoderOK, Beg
  <1>5. d.tokens[m] <= Beg
    BY <1>1, <1>4 DEF DecoderOK
  <1>6. QED
    BY <1>2, <1>5 DEF Beg

\* A sequence of timestamps alone is one timestamp, an early one.
LEMMA TimestampAlone ==
    ASSUME NEW d, DecoderOK(d), BeginsWell(d.tokens), Spoken(d),
           ~HasText(d.tokens),
           Eot \notin {d.tokens[n] : n \in DOMAIN d.tokens}
    PROVE  /\ ~SingleTimestampEnding(d.tokens)
           /\ d.seek_delta <= 2 * MaxInitialTs
  <1>1. d.tokens \in Seq(Tokens) /\ d.result_len \in Nat /\ Len(d.tokens) \in Nat
    BY DEF DecoderOK, Decoder
  <1>2. \A n \in 1 .. Len(d.tokens) : d.tokens[n] \in Nat /\ d.tokens[n] >= Beg
    BY <1>1, TokensAreIntegers DEF HasText, Beg
  <1>3. Len(d.tokens) > 0
    BY DEF Spoken
  <1>4. ~(Len(d.tokens) > 1)
    <2> SUFFICES ASSUME Len(d.tokens) > 1 PROVE FALSE
      OBVIOUS
    <2>1. d.tokens[1] >= Beg /\ d.tokens[2] \in Nat /\ d.tokens[2] >= Beg
      BY <1>1, <1>2
    <2>2. d.tokens[2] < Beg
      BY <2>1 DEF BeginsWell
    <2>3. QED
      BY <2>1, <2>2 DEF Beg
  <1>5. d.tokens[1] \in Nat /\ d.tokens[1] > Beg /\ d.tokens[1] <= Beg + MaxInitialTs
    <2>1. 1 \in 1 .. Len(d.tokens) /\ Len(d.tokens) < 2
      BY <1>1, <1>3, <1>4
    <2>2. d.tokens[1] # Beg /\ d.tokens[1] <= Beg + MaxInitialTs
      BY <1>3, <2>1 DEF Spoken, BeginsWell
    <2>3. QED
      BY <1>2, <2>1, <2>2 DEF Beg
  <1>6. d.has_ts
    <2> SUFFICES ASSUME ~d.has_ts PROVE FALSE
      OBVIOUS
    <2>1. 1 \in 1 .. Len(d.tokens)
      BY <1>1, <1>3
    <2>2. d.tokens[1] <= Beg
      BY <2>1 DEF DecoderOK
    <2>3. QED
      BY <1>5, <2>2 DEF Beg
  <1>7. d.result_len > 0 /\ d.result_len < 2
    BY <1>1, <1>4, <1>6 DEF DecoderOK
  <1>8. d.result_len = 1
    BY <1>1, <1>7, OnlyOne, Zenon
  <1>9. d.seek_delta = 2 * (d.tokens[1] - Beg)
    BY <1>6, <1>8 DEF DecoderOK
  <1>10. QED
    BY <1>4, <1>5, <1>9, WhisperFullAssumption DEF SingleTimestampEnding, Beg

\* The window moves, by its decoder's seek_delta or to its end.
LEMMA WindowStep ==
    ASSUME Inv, Output
    PROVE  /\ seek' > seek /\ seek' <= seek + Chunk
           /\ ~SingleTimestampEnding(decoders[best].tokens) =>
                 seek' = seek + decoders[best].seek_delta
  <1>1. pc = "output" /\ TypeOK /\ best \in Current /\ seek + Second < seek_end
    BY DEF Output, Inv, WindowOK, InWindow
  <1>2. best \in Decoders
    BY <1>1 DEF TypeOK
  <1>3. PICK d : d = decoders[best]
    OBVIOUS
  <1>4. seek' = seek + IF SingleTimestampEnding(d.tokens)
                       THEN Least(seek_end - seek, Chunk) ELSE d.seek_delta
    BY <1>3 DEF Output
  <1>5. d.seek_delta \in 1 .. Chunk
    BY <1>2, <1>3 DEF Inv, DecodersOK, DecoderOK
  <1>6. PICK rest : rest = seek_end - seek
    OBVIOUS
  <1>7. seek \in Nat /\ rest \in Nat /\ rest > 0 /\ Chunk \in Nat /\ Chunk > 0
    BY <1>1, <1>6, WhisperFullAssumption DEF TypeOK, seek_end
  <1>8. Least(rest, Chunk) \in 1 .. Chunk
    BY <1>7 DEF Least
  <1>9. QED
    BY <1>3, <1>4, <1>5, <1>6, <1>7, <1>8

LEMMA OutputInv == Inv /\ Output => Inv'
  <1> SUFFICES ASSUME Inv, Output PROVE Inv'
    OBVIOUS
  <1>1. PICK d : d = decoders[best]
    OBVIOUS
  <1>2. /\ pc = "output" /\ pc' = "window"
        /\ decoders' = [j \in Decoders |-> NewDecoder]
        /\ i' = 0 /\ position' = 0 /\ weak' = FALSE
        /\ UNCHANGED <<returned, freed, call, best, it, prompt, conditioned,
                       n_decoders_cur, kv_self_n_dec, no_speech>>
    BY DEF Output, attempt
  <1>3. /\ prompt_past' = (IF conditioned THEN prompt - 1 - PromptInit ELSE 0)
                          + (IF IsNoSpeech THEN 0 ELSE d.result_len)
        /\ gaveUp' = (gaveUp \/ \A j \in Current : decoders[j].failed)
        /\ again' = (again \/ (~IsNoSpeech /\ TextBeyond(d.tokens)))
        /\ unheard' = IF /\ ~IsNoSpeech /\ ~HasText(d.tokens)
                         /\ Eot \notin {d.tokens[n] : n \in DOMAIN d.tokens}
                         /\ seek' + Second >= seek_end
                      THEN seek_end - seek ELSE 0
    BY <1>1 DEF Output
  <1>4. /\ TypeOK /\ best \in Current /\ seek + Second < seek_end /\ freed = 0
        /\ conditioned => prompt >= 1 + PromptInit
    BY <1>2 DEF Inv, WindowOK, InWindow, FreedOK
  <1>5. best \in Decoders
    BY <1>4 DEF TypeOK
  <1>6. DecoderOK(d) /\ BeginsWell(d.tokens)
    BY <1>1, <1>5 DEF Inv, DecodersOK
  <1>7. d \in Decoder /\ d.result_len \in Nat /\ d.seek_delta \in 1 .. Chunk
    BY <1>6 DEF DecoderOK, Decoder
  <1>8. /\ Spoken(d)
        /\ (\A j \in Current : decoders[j].failed) \/ d.result_len = Len(d.tokens)
    BY <1>1, <1>2 DEF Inv, OutputOK
  <1>9. /\ seek \in Nat /\ seek_end \in Nat /\ Chunk \in Nat
        /\ Second \in Nat /\ MaxInitialTs \in Nat
    BY <1>4, WhisperFullAssumption DEF TypeOK, seek_end
  <1>10. /\ seek' \in Nat
         /\ ~SingleTimestampEnding(d.tokens) => seek' = seek + d.seek_delta
    <2>1. PICK step : seek' = seek + step /\ step \in 1 .. Chunk
      <3>1. Least(seek_end - seek, Chunk) \in 1 .. Chunk
        BY <1>4, <1>9, WhisperFullAssumption DEF Least
      <3>2. CASE SingleTimestampEnding(d.tokens)
        BY <1>1, <3>1, <3>2 DEF Output
      <3>3. CASE ~SingleTimestampEnding(d.tokens)
        BY <1>1, <1>7, <3>3 DEF Output
      <3>4. QED
        BY <3>2, <3>3
    <2>2. seek' \in Nat
      BY <1>9, <2>1
    <2>3. QED
      BY <1>1, <2>2, WindowStep
  <1>11. unheard' \in Nat /\ unheard' <= 2 * MaxInitialTs + Second
    <2>1. CASE unheard' = 0
      BY <1>9, <2>1
    <2>2. CASE unheard' # 0
      <3>1. /\ ~HasText(d.tokens) /\ Eot \notin {d.tokens[n] : n \in DOMAIN d.tokens}
            /\ seek' + Second >= seek_end /\ unheard' = seek_end - seek
        BY <1>3, <2>2
      <3>2. ~SingleTimestampEnding(d.tokens) /\ d.seek_delta <= 2 * MaxInitialTs
        BY <1>6, <1>8, <3>1, TimestampAlone
      <3>3. seek' = seek + d.seek_delta
        BY <1>10, <3>2
      <3>4. QED
        BY <1>4, <1>7, <1>9, <3>1, <3>2, <3>3
    <2>3. QED
      BY <2>1, <2>2
  <1>12. again' => gaveUp'
    <2>1. CASE again
      BY <1>3, <2>1 DEF Inv, AgainOnlyIfGivenUp
    <2>2. CASE TextBeyond(d.tokens)
      BY <1>3, <1>6, <1>8, <2>2, NothingBeyond
    <2>3. QED
      BY <1>3, <2>1, <2>2
  <1>13. prompt_past' \in Nat
    <2>1. PICK kept : kept = IF conditioned THEN prompt - 1 - PromptInit ELSE 0
      OBVIOUS
    <2>2. PICK more : more = IF IsNoSpeech THEN 0 ELSE d.result_len
      OBVIOUS
    <2>3. kept \in Nat
      <3>1. PromptInit \in Nat /\ prompt \in Nat
        BY <1>4, PromptInitBounds DEF TypeOK
      <3>2. conditioned => prompt - 1 - PromptInit \in Nat
        BY <1>4, <3>1
      <3>3. QED
        BY <2>1, <3>2
    <2>4. more \in Nat
      BY <1>7, <2>2
    <2>5. QED
      BY <1>3, <2>1, <2>2, <2>3, <2>4
  <1>14. NewDecoder \in Decoder
    BY NewDecoderOK DEF DecoderOK
  <1>15. TypeOK'
    <2>1. gaveUp' \in BOOLEAN /\ again' \in BOOLEAN
      BY <1>3
    <2>2. decoders' \in [Decoders -> Decoder]
      BY <1>2, <1>14
    <2>3. QED
      BY <1>2, <1>4, <1>10, <1>11, <1>13, <2>1, <2>2 DEF TypeOK
  <1>16. DecodersOK'
    BY <1>2, NewDecoderOK DEF DecodersOK
  <1>17. LossIsShort' /\ AgainOnlyIfGivenUp'
    BY <1>11, <1>12 DEF LossIsShort, AgainOnlyIfGivenUp
  <1>18. QED
    BY <1>2, <1>4, <1>15, <1>16, <1>17
       DEF Inv, RoundOK, RankOK, OutputOK, WindowOK, InWindow, FreedOK,
           FreedTwiceAfterFallback

----------------------------------------------------------------------------
(* The theorems. *)

LEMMA NextInv == Inv /\ [Next]_vars => Inv'
  <1> SUFFICES ASSUME Inv, [Next]_vars PROVE Inv'
    OBVIOUS
  <1> QED
    BY StartInv, FinishInv, EncodeInv, AttemptInv, RoundInv, RoundsDoneInv,
       RankInv, OutputInv, FreeContextInv, StutterInv
       DEF Next, Step, Freed

LEMMA TimesGrows == \A a, b, c \in Nat : a <= b => c * a <= c * b /\ a * c <= b * c
  OBVIOUS

\* The largest prompt and the rounds after it fill the text context: with
\* no_timestamps a round less, as the last round goes on with a timestamp only.
LEMMA InvPositionsFit == Inv => PositionsFit
  <1> SUFFICES ASSUME Inv, pc = "round"
               PROVE  /\ position < TextCtx
                      /\ prompt + n_decoders_cur * i <= KvSize(kv_self_n_dec)
    BY DEF PositionsFit
  <1>1. PICK h : h = TextCtx \div 2
    OBVIOUS
  <1>2. h \in Nat /\ 2 * h <= TextCtx /\ TextCtx \in Nat /\ NMax = h - 4 /\ NMax >= 2
    BY <1>1, NMaxAtLeastTwo, WhisperFullAssumption
  <1>3. /\ i \in Nat /\ prompt \in Nat /\ position \in Nat
        /\ n_decoders_cur \in Nat /\ kv_self_n_dec \in Nat
        /\ n_decoders_cur >= 1 /\ n_decoders_cur <= kv_self_n_dec
        /\ position = prompt + i - 1 /\ i <= NMax
        /\ prompt <= 1 + h + PromptInit
    BY <1>1, WhisperFullAssumption DEF Inv, TypeOK, RoundOK, WindowOK
  <1>4. PromptInit \in Nat /\ PromptInit + i <= h - 1
    <2>1. CASE NoTimestamps
      <3>1. i < NMax /\ PromptInit \in 1 .. 4
        BY <2>1, PromptInitBounds DEF Inv, RoundOK
      <3>2. QED
        BY <1>2, <1>3, <3>1
    <2>2. CASE ~NoTimestamps
      <3>1. PromptInit \in 1 .. 4 /\ PromptInit <= 3
        BY <2>2, PromptInitBounds DEF Inv
      <3>2. QED
        BY <1>2, <1>3, <3>1
    <2>3. QED
      BY <2>1, <2>2
  <1>5. prompt + i <= TextCtx
    BY <1>2, <1>3, <1>4
  <1>6. position < TextCtx
    BY <1>2, <1>3, <1>5
  <1>7. prompt + n_decoders_cur * i <= KvSize(kv_self_n_dec)
    <2>1. CASE kv_self_n_dec > 1
      <3>1. KvSize(kv_self_n_dec) = TextCtx * (kv_self_n_dec + 2)
        BY <2>1 DEF KvSize
      <3>2. PICK p : p = n_decoders_cur * i
        OBVIOUS
      <3>3. PICK q : q = kv_self_n_dec * TextCtx
        OBVIOUS
      <3>4. i <= TextCtx /\ prompt <= TextCtx
        BY <1>2, <1>3, <1>5
      <3>5. n_decoders_cur * i <= n_decoders_cur * TextCtx
        BY <1>2, <1>3, <3>4, TimesGrows
      <3>6. n_decoders_cur * TextCtx <= kv_self_n_dec * TextCtx
        BY <1>2, <1>3, TimesGrows
      <3>7. p \in Nat /\ q \in Nat /\ p <= q
        BY <1>2, <1>3, <3>2, <3>3, <3>5, <3>6
      <3>8. TextCtx * (kv_self_n_dec + 2) = q + 2 * TextCtx
        BY <1>2, <1>3, <3>3
      <3>9. prompt + p <= q + 2 * TextCtx
        BY <1>2, <1>3, <3>4, <3>7
      <3>10. QED
        BY <3>1, <3>2, <3>8, <3>9
    <2>2. CASE ~(kv_self_n_dec > 1)
      <3>1. KvSize(kv_self_n_dec) = TextCtx /\ n_decoders_cur = 1
        BY <1>2, <1>3, <2>2 DEF KvSize
      <3>2. QED
        BY <1>3, <1>5, <3>1
    <2>3. QED
      BY <2>1, <2>2
  <1>8. QED
    BY <1>6, <1>7

LEMMA InvTimestampsIncrease == Inv => TimestampsIncrease
  <1> SUFFICES ASSUME Inv, NEW j \in Current
               PROVE  \A m, n \in DOMAIN decoders[j].tokens :
                         m < n /\ decoders[j].tokens[m] > Beg /\ decoders[j].tokens[n] >= Beg
                         => decoders[j].tokens[m] <= decoders[j].tokens[n]
    BY DEF TimestampsIncrease
  <1>1. j \in Decoders
    BY WhisperFullAssumption DEF Inv, TypeOK, Current, Decoders
  <1>2. decoders[j].tokens \in Seq(Tokens) /\ Ordered(decoders[j].tokens)
    BY <1>1 DEF Inv, DecodersOK, DecoderOK, Decoder
  <1>3. QED
    BY <1>2 DEF Ordered

\* The types of the call's variables.
THEOREM FullTypeOK == Spec => []TypeOK
  <1>1. Inv => TypeOK
    BY DEF Inv
  <1>2. QED
    BY <1>1, InitInv, NextInv, PTL DEF Spec

\* For every text context of 12 positions or more, every model and every
\* number of decoders no token is decoded beyond the context or without a
\* cell in the cache.
THEOREM FullPositionsFit == Spec => []PositionsFit
  BY InvPositionsFit, InitInv, NextInv, PTL DEF Spec

\* The timestamps of a decoder increase, for windows of any length.
THEOREM FullTimestampsIncrease == Spec => []TimestampsIncrease
  BY InvTimestampsIncrease, InitInv, NextInv, PTL DEF Spec

\* Text is output a second time only behind a window that was given up.
THEOREM FullAgainOnlyIfGivenUp == Spec => []AgainOnlyIfGivenUp
  <1>1. Inv => AgainOnlyIfGivenUp
    BY DEF Inv
  <1>2. QED
    BY <1>1, InitInv, NextInv, PTL DEF Spec

\* At the end of a recording less than max_initial_ts and a second is unheard.
THEOREM FullLossIsShort == Spec => []LossIsShort
  <1>1. Inv => LossIsShort
    BY DEF Inv
  <1>2. QED
    BY <1>1, InitInv, NextInv, PTL DEF Spec

\* The state is freed twice only after a fallback whose cache was refused, and
\* in no other way.
THEOREM FullFreed == Spec => []FreedTwiceAfterFallback
  <1>1. Inv => FreedTwiceAfterFallback
    BY DEF Inv
  <1>2. QED
    BY <1>1, InitInv, NextInv, PTL DEF Spec

\* Every window that is output moves the next one forward, by no more than the
\* audio it held.
THEOREM FullWindowMoves == Spec => WindowMoves
  <1>1. Inv /\ [Next]_vars => [pc = "output" => seek' > seek /\ seek' <= seek + Chunk]_vars
    <2> SUFFICES ASSUME Inv, Next, pc = "output"
                 PROVE  seek' > seek /\ seek' <= seek + Chunk
      BY DEF vars
    <2>1. Output
      BY DEF Next, Step, Freed, Start, Finish, Encode, Attempt, Round,
             RoundsDone, Rank, FreeContext
    <2>2. QED
      BY <2>1, WindowStep
  <1>2. QED
    BY <1>1, InitInv, NextInv, PTL DEF Spec, WindowMoves

----------------------------------------------------------------------------
(* The call comes to its end: every step leaves less to do. *)

SeekBound == seek <= seek_end + Chunk

LEMMA NextSeekBound == Inv /\ SeekBound /\ [Next]_vars => SeekBound'
  <1> SUFFICES ASSUME Inv, SeekBound, [Next]_vars PROVE SeekBound'
    OBVIOUS
  <1>1. /\ seek \in Nat /\ seek_end \in Nat /\ Chunk \in Nat /\ Second \in Nat
        /\ seek_end' = seek_end
    BY WhisperFullAssumption
       DEF Inv, TypeOK, seek_end, vars, Next, Step, Start, Finish, Encode, Attempt,
           Round, RoundsDone, Rank, Output, FreeContext, Freed
  <1>2. CASE Output
    <2>1. seek + Second < seek_end
      BY <1>2 DEF Inv, WindowOK, InWindow, Output
    <2>2. seek' > seek /\ seek' <= seek + Chunk
      BY <1>2, WindowStep
    <2>3. seek' \in Nat
      BY <1>2, OutputInv DEF Inv, TypeOK
    <2>4. QED
      BY <1>1, <2>1, <2>2, <2>3 DEF SeekBound
  <1>3. CASE ~Output
    <2>1. seek' = seek
      BY <1>3 DEF vars, window, Next, Step, Start, Finish, Encode, Attempt, Round,
                  RoundsDone, Rank, FreeContext, Freed
    <2>2. QED
      BY <1>1, <2>1 DEF SeekBound
  <1>4. QED
    BY <1>2, <1>3

\* The four ways in which one tuple is less than another.
LEMMA LessCases ==
    ASSUME NEW a, NEW b, NEW c, NEW d, NEW p, NEW q, NEW r, NEW s,
           \/ a < p
           \/ a = p /\ b < q
           \/ a = p /\ b = q /\ c < r
           \/ a = p /\ b = q /\ c = r /\ d < s
    PROVE  Less(<<a, b, c, d>>, <<p, q, r, s>>)
  <1>1. PICK x : x = <<a, b, c, d>>
    OBVIOUS
  <1>2. PICK y : y = <<p, q, r, s>>
    OBVIOUS
  <1>3. x[1] = a /\ x[2] = b /\ x[3] = c /\ x[4] = d
    BY <1>1
  <1>4. y[1] = p /\ y[2] = q /\ y[3] = r /\ y[4] = s
    BY <1>2
  <1>5. \E n \in 1 .. 4 : x[n] < y[n] /\ \A m \in 1 .. n - 1 : x[m] = y[m]
    <2>1. CASE a < p
      <3>1. 1 \in 1 .. 4 /\ \A m \in 1 .. 1 - 1 : x[m] = y[m]
        OBVIOUS
      <3>2. QED
        BY <1>3, <1>4, <2>1, <3>1
    <2>2. CASE a = p /\ b < q
      <3>1. 2 \in 1 .. 4 /\ \A m \in 1 .. 2 - 1 : m = 1
        OBVIOUS
      <3>2. QED
        BY <1>3, <1>4, <2>2, <3>1
    <2>3. CASE a = p /\ b = q /\ c < r
      <3>1. 3 \in 1 .. 4 /\ \A m \in 1 .. 3 - 1 : m = 1 \/ m = 2
        OBVIOUS
      <3>2. QED
        BY <1>3, <1>4, <2>3, <3>1
    <2>4. CASE a = p /\ b = q /\ c = r /\ d < s
      <3>1. 4 \in 1 .. 4 /\ \A m \in 1 .. 4 - 1 : m = 1 \/ m = 2 \/ m = 3
        OBVIOUS
      <3>2. QED
        BY <1>3, <1>4, <2>4, <3>1
    <2>5. QED
      BY <2>1, <2>2, <2>3, <2>4
  <1>6. QED
    BY <1>1, <1>2, <1>5 DEF Less

\* What is left at each place of the call.
LeftIs ==
    /\ pc = "start" => PartsLeft = 3
    /\ pc \in {"window", "attempt", "round", "rank", "output"} => PartsLeft = 2
    /\ pc = "returned" => PartsLeft = 1
    /\ pc = "freed" => PartsLeft = 0
    /\ pc = "window" => TemperaturesLeft = Len(Temperatures) + 1
    /\ pc \in {"attempt", "round", "rank"} =>
          TemperaturesLeft = Len(Temperatures) - it + 1
    /\ pc = "output" => TemperaturesLeft = 0
    /\ pc = "attempt" => RoundsLeft = NMax + 2
    /\ pc = "round" => RoundsLeft = NMax - i + 1 /\ i <= NMax
    /\ pc = "rank" => RoundsLeft = 0

LEMMA InvLeft ==
    Inv => LeftIs /\ PartsLeft \in Nat /\ TemperaturesLeft \in Nat /\ RoundsLeft \in Nat
  <1> SUFFICES ASSUME Inv
               PROVE  /\ LeftIs
                      /\ PartsLeft \in Nat /\ TemperaturesLeft \in Nat /\ RoundsLeft \in Nat
    OBVIOUS
  <1>1. /\ pc = "start" => PartsLeft = 3
        /\ pc \in {"window", "attempt", "round", "rank", "output"} => PartsLeft = 2
        /\ pc = "returned" => PartsLeft = 1
        /\ pc = "freed" => PartsLeft = 0
        /\ PartsLeft \in Nat
    BY DEF Inv, TypeOK, PartsLeft
  <1>2. /\ pc = "window" => TemperaturesLeft = Len(Temperatures) + 1
        /\ pc \in {"attempt", "round", "rank"} =>
              TemperaturesLeft = Len(Temperatures) - it + 1
        /\ pc = "output" => TemperaturesLeft = 0
        /\ TemperaturesLeft \in Nat
    <2>1. Len(Temperatures) \in Nat /\ it \in 1 .. Len(Temperatures)
      BY WhisperFullAssumption DEF Inv, TypeOK
    <2>2. QED
      BY <2>1 DEF TemperaturesLeft
  <1>3. /\ pc = "attempt" => RoundsLeft = NMax + 2
        /\ pc = "round" => RoundsLeft = NMax - i + 1 /\ i <= NMax
        /\ pc = "rank" => RoundsLeft = 0
        /\ RoundsLeft \in Nat
    <2>1. i \in Nat /\ (pc = "round" => i <= NMax) /\ NMax \in Nat
      BY NMaxAtLeastTwo DEF Inv, TypeOK, RoundOK
    <2>2. QED
      BY <2>1 DEF RoundsLeft
  <1>4. QED
    BY <1>1, <1>2, <1>3 DEF LeftIs

LEMMA LeftNumbers == Inv /\ SeekBound => Left \in [1 .. 4 -> Nat]
  <1> SUFFICES ASSUME Inv, SeekBound PROVE Left \in [1 .. 4 -> Nat]
    OBVIOUS
  <1>1. seek \in Nat /\ seek_end \in Nat /\ Chunk \in Nat
    BY WhisperFullAssumption DEF Inv, TypeOK, seek_end
  <1>2. AudioLeft \in Nat
    BY <1>1 DEF SeekBound, AudioLeft
  <1>3. QED
    BY <1>2, InvLeft DEF Left

LEMMA FurtherIsLess ==
    \A e, c, a, b \in Int : b > a => e + c - b < e + c - a
  OBVIOUS

LEMMA StepLess ==
    ASSUME Inv, Inv', LeftIs, LeftIs', Step
    PROVE  Less(Left', Left)
  <1>1. /\ seek \in Nat /\ seek_end \in Nat /\ Chunk \in Nat
        /\ seek_end' = seek_end /\ seek' \in Nat
        /\ it \in Nat /\ it' \in Nat /\ i \in Nat /\ i' \in Nat
        /\ it <= Len(Temperatures) /\ it >= 1
        /\ Len(Temperatures) \in Nat /\ NMax \in Nat
    <2>1. seek_end' = seek_end
      BY DEF seek_end, Step, Start, Finish, Encode, Attempt, Round, RoundsDone, Rank,
             Output, FreeContext
    <2>2. TypeOK
      BY DEF Inv
    <2>3. TypeOK'
      BY DEF Inv
    <2>4. seek_end \in Nat /\ Len(Temperatures) \in Nat
      BY <2>2, WhisperFullAssumption DEF TypeOK, seek_end
    <2>5. seek' \in Nat /\ it' \in 1 .. Len(Temperatures) /\ i' \in Nat
      BY <2>3 DEF TypeOK
    <2>6. QED
      BY <2>1, <2>2, <2>4, <2>5, WhisperFullAssumption, NMaxAtLeastTwo DEF TypeOK
  <1>2. \/ PartsLeft' < PartsLeft
        \/ PartsLeft' = PartsLeft /\ AudioLeft' < AudioLeft
        \/ /\ PartsLeft' = PartsLeft /\ AudioLeft' = AudioLeft
           /\ TemperaturesLeft' < TemperaturesLeft
        \/ /\ PartsLeft' = PartsLeft /\ AudioLeft' = AudioLeft
           /\ TemperaturesLeft' = TemperaturesLeft /\ RoundsLeft' < RoundsLeft
    <2> DEFINE same == PartsLeft' = PartsLeft /\ AudioLeft' = AudioLeft
    <2>1. seek' = seek => AudioLeft' = AudioLeft
      BY <1>1 DEF AudioLeft
    <2>2. CASE Start
      <3>1. pc = "start" /\ pc' \in {"window", "returned"}
        BY <2>2 DEF Start, Return
      <3>2. QED
        BY <3>1 DEF LeftIs
    <2>3. CASE Finish
      <3>1. pc = "window" /\ pc' = "returned"
        BY <2>3 DEF Finish, Return
      <3>2. QED
        BY <3>1 DEF LeftIs
    <2>4. CASE Encode
      <3>1. pc = "window" /\ (pc' = "returned" \/ (pc' = "attempt" /\ it' = 1 /\ seek' = seek))
        BY <2>4 DEF Encode, Return
      <3>2. QED
        BY <1>1, <2>1, <3>1 DEF LeftIs
    <2>5. CASE Attempt
      <3>1. /\ pc = "attempt" /\ it' = it /\ seek' = seek /\ i' = 0
            /\ pc' = "returned" \/ pc' = "round"
        BY <2>5 DEF Attempt, CacheFails, Prompted, Return, window
      <3>2. QED
        BY <1>1, <2>1, <3>1 DEF LeftIs
    <2>6. CASE Round
      <3>1. /\ pc = "round" /\ it' = it /\ seek' = seek /\ i < NMax
            /\ \/ pc' = "rank"
               \/ pc' = "returned"
               \/ pc' = "round" /\ i' = i + 1
        BY <2>6 DEF Round, Return, window, attempt
      <3>2. QED
        BY <1>1, <2>1, <3>1 DEF LeftIs
    <2>7. CASE RoundsDone
      <3>1. pc = "round" /\ it' = it /\ seek' = seek /\ pc' = "rank"
        BY <2>7 DEF RoundsDone, window, attempt
      <3>2. QED
        BY <1>1, <2>1, <3>1 DEF LeftIs
    <2>8. CASE Rank
      <3>1. /\ pc = "rank" /\ seek' = seek
            /\ (pc' = "attempt" /\ it' = it + 1) \/ pc' = "output"
        BY <2>8 DEF Rank
      <3>2. QED
        BY <1>1, <2>1, <3>1 DEF LeftIs
    <2>9. CASE Output
      <3>1. pc = "output" /\ pc' = "window" /\ seek' > seek
        BY <2>9, WindowStep DEF Output
      <3>2. PICK e, c : e = seek_end /\ c = Chunk
        OBVIOUS
      <3>3. AudioLeft = e + c - seek /\ AudioLeft' = e + c - seek'
        BY <1>1, <3>2 DEF AudioLeft
      <3>4. e + c - seek' < e + c - seek
        <4>1. e \in Int /\ c \in Int /\ seek \in Int /\ seek' \in Int /\ seek' > seek
          BY <1>1, <3>1, <3>2
        <4>2. QED
          BY <4>1, FurtherIsLess
      <3>5. QED
        BY <3>1, <3>3, <3>4 DEF LeftIs
    <2>10. CASE FreeContext
      <3>1. pc = "returned" /\ pc' = "freed"
        BY <2>10 DEF FreeContext
      <3>2. QED
        BY <3>1 DEF LeftIs
    <2>11. QED
      BY <2>2, <2>3, <2>4, <2>5, <2>6, <2>7, <2>8, <2>9, <2>10 DEF Step
  <1>3. Less(<<PartsLeft', AudioLeft', TemperaturesLeft', RoundsLeft'>>,
             <<PartsLeft, AudioLeft, TemperaturesLeft, RoundsLeft>>)
    BY <1>2, LessCases
  <1>4. QED
    BY <1>3 DEF Left

\* Every step of the call leaves less to do, in an order without endless descent:
\* for recordings of any length, any temperatures and any text context no model
\* can keep the call from its end.
THEOREM FullLessIsLeft == Spec => LessIsLeft
  <1> DEFINE I == Inv /\ SeekBound
  <1>1. Init => I
    <2>1. Init => SeekBound
      BY WhisperFullAssumption DEF Init, SeekBound, seek_end
    <2>2. QED
      BY <2>1, InitInv
  <1>2. I /\ [Next]_vars => I'
    BY NextInv, NextSeekBound
  <1>3. I /\ I' /\ [Next]_vars => [Less(Left', Left) /\ Left \in [1 .. 4 -> Nat]]_vars
    <2>1. LeftIs' \/ ~Inv'
      BY InvLeft, PTL
    <2>2. SUFFICES ASSUME I, I', Next, ~UNCHANGED vars
                   PROVE  Less(Left', Left) /\ Left \in [1 .. 4 -> Nat]
      OBVIOUS
    <2>3. Step
      BY <2>2 DEF Next, Freed
    <2>4. LeftIs /\ LeftIs'
      BY <2>1, <2>2, InvLeft
    <2>5. QED
      BY <2>2, <2>3, <2>4, StepLess, LeftNumbers
  <1>4. QED
    BY <1>1, <1>2, <1>3, PTL DEF Spec, LessIsLeft
=============================================================================
