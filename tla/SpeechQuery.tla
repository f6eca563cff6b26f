------------------------------ MODULE SpeechQuery ------------------------------
(***************************************************************************)
(* The two halves of speech synthesis in tts_engine.cc.  POST /audio_query: *)
(* the accent phrases of a text get lengths (update_length) and pitches     *)
(* (update_pitch) from a core that sees only flat arrays with an edge value *)
(* at both ends.  POST /synthesis: the query comes back from the client and *)
(* query_to_decoder_feature scales it into the arrays of the decoder.       *)
(* Everything is matched by position only.  Lengths are whole hundredths of *)
(* a second and pitches whole numbers chosen so that every scaling is exact *)
(* (rounding of floats is not modelled).                                    *)
(***************************************************************************)
EXTENDS Integers, Sequences, FiniteSets, SequencesExt

CONSTANTS
  Texts,          \* what text_to_accent_phrases may return
  LengthAnswers,  \* what yukarin_s_forward may write, longer than any input
  PitchAnswers,   \* the same for yukarin_sa_forward
  Scales          \* what a client may ask for, see ScaleType

Vowels == {"a", "N", "A", "cl", "pau"}
Consonants == {"", "k"}           \* "": none
Unvoiced == {"A", "cl", "pau"}    \* UnvoicedMoraTailPhonemes

\* consonant_length is -1 for null.
Mora == [consonant : Consonants, vowel : Vowels,
         consonantLength : Int, vowelLength : Int, pitch : Int]

\* A phrase without a pause has no_pause for its nullptr.
no_pause == [consonant |-> "", vowel |-> "pau",
             consonantLength |-> -1, vowelLength |-> -1, pitch |-> -1]

AccentPhrase == [moras : Seq(Mora), accent : Int, pause : Mora,
                 isInterrogative : BOOLEAN]

\* speed divides and the others multiply; pitch is 2^pitchScale; pauseLength is
\* -1 for null, and a client asks for no negative one.
ScaleType == [speed : Nat \ {0}, pitch : Nat \ {0}, intonation : Nat,
              pauseLength : Nat \cup {-1}, pauseScale : Nat, upspeak : BOOLEAN]

ASSUME QueryAssumption ==
  /\ Texts \subseteq Seq(AccentPhrase)
  /\ LengthAnswers \subseteq Seq(Nat) /\ PitchAnswers \subseteq Seq(Nat)
  /\ Scales \subseteq ScaleType

VARIABLES
  speechStatus,    \* the function to run next, or how the request ended
  phrases,   \* the accent phrases of the request
  answered,  \* history: what the core wrote, edges included
  marks,     \* the four arrays of accents given to yukarin_sa_forward
  scales,    \* the scales of the query
  moras,     \* the flat copy query_to_decoder_feature works on
  given      \* history: the two arrays safe_decode_forward is called with

speechVars == <<speechStatus, phrases, answered, marks, scales, moras, given>>

HasPause(phrase) == phrase.pause # no_pause

\* to_flatten_moras: the pause of a phrase follows its moras.
Flat(ps) ==
  FlattenSeq([p \in DOMAIN ps |->
    IF HasPause(ps[p]) THEN Append(ps[p].moras, ps[p].pause) ELSE ps[p].moras])

\* A phoneme, as the mora it is of and which part of it.
Sound == Nat \X {"consonant", "vowel"}

PhonemesByLength(ms) ==
  FlattenSeq([k \in DOMAIN ms |->
    IF ms[k].consonantLength = -1 THEN << <<k, "vowel">> >>
    ELSE << <<k, "consonant">>, <<k, "vowel">> >>])

\* to_flatten_phonemes: one or two phonemes a mora.
Phonemes(ms) ==
  FlattenSeq([k \in DOMAIN ms |->
    IF ms[k].consonant = "" THEN << <<k, "vowel">> >>
    ELSE << <<k, "consonant">>, <<k, "vowel">> >>])

\* Writing the flat moras back through the pointers of
\* to_flatten_moras_pointer.
Before(ps, p) == Len(Flat(SubSeq(ps, 1, p - 1)))
WriteBackNoPauses(ps, flat) ==
  LET Start(p) == Len(FlattenSeq([q \in 1..(p - 1) |-> ps[q].moras])) IN
  [p \in DOMAIN ps |->
    [ps[p] EXCEPT !.moras = [k \in DOMAIN @ |-> flat[Start(p) + k]]]]

WriteBack(ps, flat) ==
  [p \in DOMAIN ps |->
    LET n == Len(ps[p].moras) IN
    [ps[p] EXCEPT
       !.moras = [k \in 1..n |-> flat[Before(ps, p) + k]],
       !.pause = IF HasPause(ps[p]) THEN flat[Before(ps, p) + n + 1] ELSE @]]

\* text_to_accent_phrases returns phrases with moras and an accent on one of
\* them (TextFrontEnd!AccentInside), and an array a core writes is as long as
\* what it was asked for.
ASSUME AnalyzedAssumption ==
  \A text \in Texts :
    /\ \A p \in DOMAIN text : text[p].accent \in 1..Len(text[p].moras)
    /\ \A answer \in LengthAnswers : Len(answer) >= Len(Phonemes(Flat(text))) + 2
    /\ \A answer \in PitchAnswers : Len(answer) >= Len(Flat(text)) + 2

DropEdgeFront(answer) == SubSeq(answer, 1, Len(answer) - 2)

\* drop_edge: on the empty answer of a failed core the size wraps around and
\* the allocation throws.
DropEdge(answer) == SubSeq(answer, 2, Len(answer) - 1)

SpeechTypeOK ==
  /\ speechStatus \in {"text", "length", "pitch", "reply", "edit", "upspeak",
                 "flatten", "pause", "speed", "tune", "intonation", "decode",
                 "done", "thrown", "undefined"}
  /\ phrases \in Seq(AccentPhrase)
  /\ answered \in [lengths : Seq(Nat), pitches : Seq(Nat)]
  /\ marks \in [1..4 -> Seq({0, 1})]
  /\ scales \in Scales
  /\ moras \in Seq(Mora)
  /\ given \in [phonemes : Seq(Sound), pitches : Seq(Int)]

SpeechInit ==
  /\ speechStatus = "text" /\ phrases = <<>>
  /\ answered = [lengths |-> <<>>, pitches |-> <<>>]
  /\ marks = [a \in 1..4 |-> <<>>]
  /\ scales \in Scales
  /\ moras = <<>> /\ given = [phonemes |-> <<>>, pitches |-> <<>>]

End(how) ==
  /\ speechStatus' = how
  /\ UNCHANGED <<phrases, answered, marks, scales, moras, given>>

-----------------------------------------------------------------------------
(* POST /audio_query: create_accent_phrases.                               *)

AnalyzeText ==
  /\ speechStatus = "text"
  /\ phrases' \in Texts
  /\ speechStatus' = "length"
  /\ UNCHANGED <<answered, marks, scales, moras, given>>

\* vowel_indexes: where the phonemes that end a mora are.
VowelIndexes(ms) ==
  LET ph == Phonemes(ms)
  IN FlattenSeq([x \in DOMAIN ph |-> IF ph[x][2] = "vowel" THEN <<x>> ELSE <<>>])

Measured(ms, lengths) ==
  LET at == VowelIndexes(ms) IN
  [k \in DOMAIN ms |->
    [ms[k] EXCEPT
       !.consonantLength = IF ms[k].consonant = "" THEN 0 ELSE lengths[at[k] - 1],
       !.vowelLength = lengths[at[k]]]]

UpdateLength ==
  LET flat == Flat(phrases) IN
  /\ speechStatus = "length"
  /\ \E answer \in LengthAnswers :
       LET output == SubSeq(answer, 1, Len(Phonemes(flat)) + 2) IN
       /\ answered' = [answered EXCEPT !.lengths = output]
       /\ phrases' = WriteBack(phrases, Measured(flat, DropEdge(output)))
  /\ speechStatus' = "pitch"
  /\ UNCHANGED <<marks, scales, moras, given>>

OneHotNoPause(phrase, index) ==
  [k \in 1..Len(phrase.moras) |->
    IF k - 1 = index % Len(phrase.moras) THEN 1 ELSE 0]

\* create_one_hot: a negative index counts from the end of the moras.
OneHot(phrase, index) ==
  LET n == Len(phrase.moras)
      at == IF index < 0 THEN n + index ELSE index
      onehot == [k \in 1..n |-> IF k - 1 = at THEN 1 ELSE 0]
  IN IF HasPause(phrase) THEN Append(onehot, 0) ELSE onehot

StartIndex(phrase) == IF phrase.accent = 1 THEN 0 ELSE 1

Marks(ps) ==
  << FlattenSeq([p \in DOMAIN ps |-> OneHot(ps[p], StartIndex(ps[p]))]),
     FlattenSeq([p \in DOMAIN ps |-> OneHot(ps[p], ps[p].accent - 1)]),
     FlattenSeq([p \in DOMAIN ps |-> OneHot(ps[p], 0)]),
     FlattenSeq([p \in DOMAIN ps |-> OneHot(ps[p], -1)]) >>

PitchedLikeVoiced(ms, f0) ==
  [k \in DOMAIN ms |->
    [ms[k] EXCEPT !.pitch = IF ms[k].vowel = "pau" THEN 0 ELSE f0[k]]]

Pitched(ms, f0) ==
  [k \in DOMAIN ms |->
    [ms[k] EXCEPT !.pitch = IF ms[k].vowel \in Unvoiced THEN 0 ELSE f0[k]]]

UpdatePitch ==
  LET flat == Flat(phrases) IN
  /\ speechStatus = "pitch" /\ phrases # <<>>
  /\ marks' = Marks(phrases)
  /\ \E answer \in PitchAnswers :
       LET output == SubSeq(answer, 1, Len(flat) + 2) IN
       /\ answered' = [answered EXCEPT !.pitches = output]
       /\ phrases' = WriteBack(phrases, Pitched(flat, DropEdge(output)))
  /\ speechStatus' = "reply"
  /\ UNCHANGED <<scales, moras, given>>

UpdatePitchEmpty == speechStatus = "pitch" /\ phrases = <<>> /\ End("reply")

\* A core that fails leaves nothing for drop_edge to drop.
CoreFails ==
  /\ speechStatus = "length" \/ (speechStatus = "pitch" /\ phrases # <<>>)
  /\ End("thrown")

Reply == speechStatus = "reply" /\ End("edit")

-----------------------------------------------------------------------------
(* POST /synthesis with the query of the reply, as it was or with one mora  *)
(* changed by the client.                                                  *)

Keep == speechStatus = "edit" /\ End("upspeak")

EditMora ==
  /\ speechStatus = "edit"
  /\ \E p \in DOMAIN phrases : \E k \in DOMAIN phrases[p].moras :
       \/ phrases' = [phrases EXCEPT ![p].moras[k].consonantLength = -1]
       \/ phrases' = [phrases EXCEPT ![p].moras[k].pitch = 0]
  /\ speechStatus' = "upspeak"
  /\ UNCHANGED <<answered, marks, scales, moras, given>>

\* In six-hundredths, so that the mean of up to six pitches is exact.
UpspeakPitchAdd == 180
UpspeakPitchMax == 3900

LowerOf(a, b) == IF a < b THEN a ELSE b

UpspeakMora(last) ==
  [consonant |-> "", vowel |-> last.vowel, consonantLength |-> -1,
   vowelLength |-> last.vowelLength,
   pitch |-> LowerOf(last.pitch + UpspeakPitchAdd, UpspeakPitchMax)]

AsksUp(phrase) ==
  /\ phrase.moras # <<>> /\ phrase.isInterrogative
  /\ Last(phrase.moras).pitch > 0

WithUpspeak(phrase) ==
  IF AsksUp(phrase)
  THEN [phrase EXCEPT !.moras = Append(@, UpspeakMora(Last(@)))]
  ELSE phrase

\* apply_interrogative_upspeak, on a copy of the query.
Upspeak ==
  /\ speechStatus = "upspeak"
  /\ phrases' = IF scales.upspeak
                THEN [p \in DOMAIN phrases |-> WithUpspeak(phrases[p])]
                ELSE phrases
  /\ speechStatus' = "flatten"
  /\ UNCHANGED <<answered, marks, scales, moras, given>>

\* to_flatten_moras; the silences of apply_prepost_silence are built and then
\* dropped, since it returns the moras it was given.
Flatten ==
  /\ speechStatus = "flatten"
  /\ moras' = Flat(phrases)
  /\ speechStatus' = "pause"
  /\ UNCHANGED <<phrases, answered, marks, scales, given>>

Change(next, changed) ==
  /\ moras' = changed
  /\ speechStatus' = next
  /\ UNCHANGED <<phrases, answered, marks, scales, given>>

\* apply_pause_length and apply_pause_length_scale.
PauseLength ==
  LET Asked(length) == IF scales.pauseLength # -1 THEN scales.pauseLength
                       ELSE length
      Scaled(mora) ==
        IF mora.vowel = "pau"
        THEN [mora EXCEPT !.vowelLength = Asked(@) * scales.pauseScale]
        ELSE mora
  IN speechStatus = "pause" /\ Change("speed", [k \in DOMAIN moras |-> Scaled(moras[k])])

\* apply_speed_scale.
SpeedScale ==
  LET Faster(mora) ==
        [mora EXCEPT !.vowelLength = @ \div scales.speed,
                     !.consonantLength = IF @ = -1 THEN -1 ELSE @ \div scales.speed]
  IN speechStatus = "speed" /\ Change("tune", [k \in DOMAIN moras |-> Faster(moras[k])])

\* apply_pitch_scale.
PitchScale ==
  LET Higher(mora) == [mora EXCEPT !.pitch = @ * scales.pitch]
  IN speechStatus = "tune" /\ Change("intonation", [k \in DOMAIN moras |-> Higher(moras[k])])

Sum(seq) ==
  LET sum[n \in 0..Len(seq)] == IF n = 0 THEN 0 ELSE sum[n - 1] + seq[n]
  IN sum[Len(seq)]
Voiced(ms) ==
  FlattenSeq([k \in DOMAIN ms |-> IF ms[k].pitch > 0 THEN <<ms[k]>> ELSE <<>>])
PitchSum(ms) == Sum([k \in DOMAIN ms |-> ms[k].pitch])

IntonationOfAll ==
  LET voiced == Voiced(moras)
      mean == PitchSum(voiced) \div Len(voiced)
      Stretched(mora) ==
        IF voiced # <<>>
        THEN [mora EXCEPT !.pitch = (@ - mean) * scales.intonation + mean]
        ELSE mora
  IN speechStatus = "intonation" /\ Change("decode", [k \in DOMAIN moras |-> Stretched(moras[k])])

\* apply_intonation_scale: the distance from the mean pitch of the voiced.
Intonation ==
  LET voiced == Voiced(moras)
      mean == PitchSum(voiced) \div Len(voiced)
      Stretched(mora) ==
        IF mora.pitch > 0
        THEN [mora EXCEPT !.pitch = (@ - mean) * scales.intonation + mean]
        ELSE mora
  IN speechStatus = "intonation" /\ Change("decode", [k \in DOMAIN moras |-> Stretched(moras[k])])

\* What the decoder is called with: one phoneme or two a mora and one pitch a
\* mora.  The frames of count_frame_per_unit and the arrays numpy_repeat
\* stretches by them (no length is negative) are made and then dropped.  The
\* wrapper looks into the first phoneme, and a core reads as many pitches as
\* there are phonemes: one or the other may be missing.
Decode ==
  /\ speechStatus = "decode"
  /\ given' = [phonemes |-> Phonemes(moras),
               pitches |-> [k \in DOMAIN moras |-> moras[k].pitch]]
  /\ speechStatus' = IF moras = <<>> \/ Len(given'.pitches) < Len(given'.phonemes)
                     THEN "undefined" ELSE "done"
  /\ UNCHANGED <<phrases, answered, marks, scales, moras>>

SpeechNext ==
  \/ AnalyzeText \/ UpdateLength \/ UpdatePitch \/ UpdatePitchEmpty
  \/ CoreFails \/ Reply
  \/ Keep \/ EditMora \/ Upspeak \/ Flatten \/ PauseLength \/ SpeedScale
  \/ PitchScale \/ Intonation \/ Decode

SpeechSpec == SpeechInit /\ [][SpeechNext]_speechVars /\ WF_speechVars(SpeechNext)

-----------------------------------------------------------------------------
(* Properties.                                                             *)

\* The moras and pauses of the phrases as <<phrase, mora>>, in order.
Slots(ps) ==
  UNION {{<<p, k>> : k \in 1..(Len(ps[p].moras) + IF HasPause(ps[p]) THEN 1 ELSE 0)}
           : p \in DOMAIN ps}

AtSlot(ps, s) ==
  IF s[2] <= Len(ps[s[1]].moras) THEN ps[s[1]].moras[s[2]] ELSE ps[s[1]].pause

UpTo(ps, s) ==
  {t \in Slots(ps) : t[1] < s[1] \/ (t[1] = s[1] /\ t[2] <= s[2])}

PlaceOf(ps, s) == Cardinality(UpTo(ps, s))

\* How many phonemes there are up to the vowel of a slot.
PhonemePlace(ps, s) ==
  PlaceOf(ps, s)
    + Cardinality({t \in UpTo(ps, s) : AtSlot(ps, t).consonant # ""})

\* Every vowel and consonant has the length the core predicted for that very
\* phoneme, the edge value at the front counted (update_length, core_adapter
\* drop_edge: flat arrays, consonants that are there or not, pauses between).
LengthsBelong ==
  speechStatus \in {"pitch", "reply"} =>
    \A s \in Slots(phrases) :
      LET at == PhonemePlace(phrases, s) + 1
          mora == AtSlot(phrases, s)
      IN /\ mora.vowelLength = answered.lengths[at]
         /\ mora.consonant # "" => mora.consonantLength = answered.lengths[at - 1]

\* Every voiced mora has the pitch the core predicted for it and no other
\* mora a pitch at all (update_pitch).
PitchesBelong ==
  speechStatus \in {"reply", "edit"} =>
    \A s \in Slots(phrases) :
      AtSlot(phrases, s).pitch =
        IF AtSlot(phrases, s).vowel \in Unvoiced THEN 0
        ELSE answered.pitches[PlaceOf(phrases, s) + 1]

\* Where an array has a one.
Ones(seq) == {k \in DOMAIN seq : seq[k] = 1}

\* The four arrays mark one mora of each phrase, the one with the rise, the
\* accent, the beginning and the end, and are as long as the vowels they go
\* with: an index past the moras, or a pause left out, would shift or lose a
\* mark (create_one_hot, numpy_concatenate).
AccentsMarked ==
  speechStatus = "reply" /\ phrases # <<>> =>
    LET Marked(index(_)) ==
          {PlaceOf(phrases, <<p, index(phrases[p])>>) : p \in DOMAIN phrases}
    IN /\ \A a \in 1..4 : Len(marks[a]) = Cardinality(Slots(phrases))
       /\ Ones(marks[1]) = Marked(LAMBDA ph : IF ph.accent = 1 THEN 1 ELSE 2)
       /\ Ones(marks[2]) = Marked(LAMBDA ph : ph.accent)
       /\ Ones(marks[3]) = Marked(LAMBDA ph : 1)
       /\ Ones(marks[4]) = Marked(LAMBDA ph : Len(ph.moras))

\* The query is scaled: "undefined" is the end of a call of the decoder too.
Scaled == {"decode", "done", "undefined"}

\* No scaling and no rise at the end of a question gives a pitch to a mora
\* that is spoken without voice (apply_interrogative_upspeak,
\* apply_pitch_scale, apply_intonation_scale).
UnvoicedSilent ==
  speechStatus \in Scaled =>
    \A k \in DOMAIN moras : moras[k].vowel \in Unvoiced => moras[k].pitch = 0

\* The intonation stretches the pitches about their mean: together they are
\* what the client's query had, scaled by the pitch alone.
MeanKept ==
  speechStatus \in Scaled =>
    PitchSum(moras) = scales.pitch * PitchSum(Flat(phrases))

\* The decoder reads its two arrays side by side, though one has an entry a
\* phoneme and the other an entry a mora.  A phoneme meets the pitch of its own
\* mora exactly as long as no consonant has come before it: from the first
\* consonant on every vowel is given the pitch of a later mora, or none
\* (query_to_decoder_feature returns the arrays it did not stretch).
PitchesInStep ==
  speechStatus \in {"done", "undefined"} =>
    \A j \in DOMAIN given.phonemes :
      LET mora == given.phonemes[j][1]
      IN (mora = j /\ given.pitches[j] = moras[mora].pitch) <=>
           (j <= Len(moras) /\ \A m \in 1..(j - 1) : moras[m].consonant = "")

\* What a core answers stays with the mora it was computed for, and a core is
\* asked with the accents of the phrases: nothing slips by a position from the
\* phrases to flat arrays with edges and back.
PredictionsBelong == SpeechTypeOK /\ LengthsBelong /\ PitchesBelong /\ AccentsMarked

\* The moras the decoder's arrays are made from are the query, scaled: whispered
\* moras stay silent and the intonation turns about its mean.  The arrays
\* themselves are in step only up to the first consonant of the query.
FeaturesRight == UnvoicedSilent /\ MeanKept /\ PitchesInStep
================================================================================
