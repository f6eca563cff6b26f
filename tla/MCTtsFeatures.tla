----------------------------- MODULE MCTtsFeatures -----------------------------
(***************************************************************************)
(* Small instances of the three parts of tts_pipeline/ that work on arrays  *)
(* matched by position.  They share no state: a behaviour is one of a query *)
(* for speech, of a score or of a list of waves; the others have ended      *)
(* with nothing done.                                                       *)
(***************************************************************************)
EXTENDS SpeechQuery, SongFrames, WaveConnection

NothingSaid ==
  /\ speechStatus = "done" /\ phrases = <<>> /\ moras = <<>>
  /\ answered = [lengths |-> <<>>, pitches |-> <<>>]
  /\ marks = [a \in 1..4 |-> <<>>]
  /\ scales = CHOOSE scale \in Scales : TRUE
  /\ given = [phonemes |-> <<>>, pitches |-> <<>>]
NothingSung ==
  /\ notes = <<>> /\ status = "replied" /\ i = 1
  /\ phonemes = <<>> /\ consonants = <<>> /\ lengths = <<>> /\ frames = <<>>
NothingJoined ==
  /\ request = <<>> /\ waves = <<>> /\ data = <<<<>>>>
  /\ current = 1 /\ wave = 1 /\ channel = 1 /\ sample = 1 /\ pc = "done"

FeaturesInit ==
  \/ SpeechInit /\ NothingSung /\ NothingJoined
  \/ NothingSaid /\ SongInit /\ NothingJoined
  \/ NothingSaid /\ NothingSung /\ WaveInit

FeaturesNext ==
  \/ SpeechNext /\ UNCHANGED <<songVars, waveVars>>
  \/ SongNext /\ UNCHANGED <<speechVars, waveVars>>
  \/ WaveNext /\ UNCHANGED <<speechVars, songVars>>

FeaturesSpec == FeaturesInit /\ [][FeaturesNext]_<<speechVars, songVars, waveVars>>

-----------------------------------------------------------------------------
(* Speech: texts of up to three phrases with and without pauses,            *)
(* consonants, unvoiced vowels and a question; a core that tells every      *)
(* position apart.                                                          *)
New(consonant, vowel) ==
  [consonant |-> consonant, vowel |-> vowel,
   consonantLength |-> IF consonant = "" THEN -1 ELSE 0,
   vowelLength |-> 0, pitch |-> 0]

Pause == New("", "pau")

Phrase(ms, accent, pause, question) ==
  [moras |-> ms, accent |-> accent, pause |-> pause, isInterrogative |-> question]

A == New("", "a")
KA == New("k", "a")
KU == New("k", "A")
N == New("", "N")
CL == New("", "cl")

SomeTexts ==
  { <<>>,
    <<Phrase(<<A>>, 1, no_pause, FALSE)>>,
    <<Phrase(<<KU, CL>>, 2, no_pause, TRUE)>>,
    <<Phrase(<<KA, KU>>, 1, Pause, FALSE), Phrase(<<A, N>>, 2, no_pause, TRUE)>>,
    <<Phrase(<<A>>, 1, Pause, TRUE), Phrase(<<KU, KA>>, 2, Pause, FALSE),
      Phrase(<<KA>>, 1, no_pause, TRUE)>>,
    <<Phrase(<<CL, KA, A>>, 3, no_pause, FALSE), Phrase(<<N>>, 1, no_pause, TRUE)>> }

\* Even, so that half of a length is exact.
SomeLengths == { [k \in 1..12 |-> 2 * k], [k \in 1..12 |-> 60 - 4 * k] }

\* Multiples of sixty; the second passes the limit of a question's rise.
SomePitches == { [k \in 1..12 |-> 300 * k], [k \in 1..12 |-> 3900 - 60 * k] }

SomeScales ==
  [speed : {1, 2}, pitch : {1, 2}, intonation : {0, 1, 2},
   pauseLength : {-1, 200}, pauseScale : {1, 2}, upspeak : BOOLEAN]
-----------------------------------------------------------------------------
(* Songs: notes of 0 to 5 frames and some of a negative length, with and    *)
(* without a key where the lyric wants it.                                  *)
Note(lyric, key, n) == [lyric |-> lyric, key |-> key, frames |-> n]

SomeNotes ==
  {Note("", 0, n) : n \in {-3, 0, 1, 4}}
    \cup {Note(lyric, 1, n) : lyric \in {"vowel", "mora"}, n \in {-3, 0, 1, 5}}
    \cup {Note("", 1, 4), Note("mora", 0, 5), Note("other", 1, 5)}

\* None, one that fits most notes, one that fits none, and a negative one.
SomePredictions == {-1, 0, 2, 6}
-----------------------------------------------------------------------------
(* Waves: up to three of up to two samples, two rates, one or two channels. *)
Channel(id, length) == [k \in 1..length |-> <<id, k>>]
Mono1(id) == {[rate |-> r, channels |-> <<Channel(<<id, 1>>, n)>>] : r \in {1, 2}, n \in 0..2}
Stereo(id) == {[rate |-> r, channels |-> <<Channel(<<id, 1>>, n), Channel(<<id, 2>>, n)>>] :
                 r \in {1, 2}, n \in 0..1}
Wave(id) == Mono1(id) \cup Stereo(id) \cup {Broken}
SomeSamples == ((1..3) \X {1, 2}) \X {1, 2}
SomeRequests ==
  {<<a>> : a \in Wave(1)} \cup {<<a, b>> : a \in Wave(1), b \in Wave(2)}
  \cup {<<a, b, c>> : a \in Mono1(1), b \in Mono1(2), c \in Wave(3)}
================================================================================
