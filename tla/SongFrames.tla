------------------------------ MODULE SongFrames ------------------------------
(***************************************************************************)
(* TTSEngine::create_sing_phoneme_and_f0_and_volume: a score becomes the    *)
(* phonemes of its notes, the core predicts how long each consonant is,     *)
(* calc_phoneme_lengths takes that time from the end of the note before,    *)
(* and numpy_repeat stretches the phonemes to frames.  The arrays are       *)
(* parallel by position only, which is what can go wrong.                   *)
(***************************************************************************)
EXTENDS Integers, Sequences

CONSTANTS
  Notes,        \* the notes a score may hold, see NoteType
  Predictions,  \* the consonant lengths a core may answer
  MaxNotes      \* bound: notes of a score

\* "": a rest; "vowel": a mora without consonant; "mora": one with both;
\* "other": no mora at all.
Lyrics == {"", "vowel", "mora", "other"}

\* key is 0 for null; frames is frame_length.
NoteType == [lyric : Lyrics, key : {0, 1}, frames : Int]

ASSUME SongAssumption ==
  Notes \subseteq NoteType /\ Predictions \subseteq Int /\ MaxNotes \in Nat

VARIABLES
  notes,       \* the score
  status,      \* what the function is doing, or how it ended
  i,           \* index of the running loop
  phonemes,    \* phonemes_array: <<note, part>> per phoneme
  consonants,  \* consonant_lengths, changed in place
  lengths,     \* phoneme_lengths so far; "of" is history: whose length it is
  frames       \* frame_phonemes: the index of the phoneme of each frame

songVars == <<notes, status, i, phonemes, consonants, lengths, frames>>

Parts == {"pau", "consonant", "vowel"}
Phoneme == (1..MaxNotes) \X Parts
Length == [of : Phoneme, frames : Int]

SongTypeOK ==
  /\ notes \in Seq(Notes) /\ Len(notes) <= MaxNotes
  /\ status \in {"notes", "predict", "lengths", "repeat", "assemble",
                 "replied", "thrown", "overrun"}
  /\ i \in Nat \ {0}
  /\ phonemes \in Seq(Phoneme)
  /\ consonants \in Seq(Int) /\ lengths \in Seq(Length)
  /\ frames \in Seq(Nat \ {0})

Scores == UNION {[1..n -> Notes] : n \in 0..MaxNotes}

SongInit ==
  /\ notes \in Scores
  /\ status = "notes" /\ i = 1
  /\ phonemes = <<>> /\ consonants = <<>> /\ lengths = <<>>
  /\ frames = <<>>

Throw == /\ status' = "thrown"
         /\ UNCHANGED <<notes, i, phonemes, consonants, lengths, frames>>

-----------------------------------------------------------------------------
(* notes_to_keys_and_phonemes.                                             *)

\* The phoneme a note ends with.
LastPart(note) == IF note.lyric = "" THEN "pau" ELSE "vowel"

PhonemesFromZero(k, note) ==
  IF note.lyric = "mora" THEN << <<k - 1, "consonant">>, <<k - 1, "vowel">> >>
  ELSE << <<k - 1, LastPart(note)>> >>

\* The phonemes of the k-th note.
PhonemesOf(k, note) ==
  IF note.lyric = "mora" THEN << <<k, "consonant">>, <<k, "vowel">> >>
  ELSE << <<k, LastPart(note)>> >>

\* A rest has no key, anything else has one and is in the table of moras;
\* hira_to_kana, still to be written, finds nothing more.
Valid(note) ==
  \/ note.lyric = "" /\ note.key = 0
  \/ note.lyric \in {"vowel", "mora"} /\ note.key # 0

AddNote ==
  /\ status = "notes" /\ i <= Len(notes) /\ Valid(notes[i])
  /\ phonemes' = phonemes \o PhonemesOf(i, notes[i])
  /\ i' = i + 1
  /\ UNCHANGED <<notes, status, consonants, lengths, frames>>

RejectNote ==
  /\ status = "notes" /\ i <= Len(notes) /\ ~Valid(notes[i])
  /\ Throw

NotesDone ==
  /\ status = "notes" /\ i > Len(notes)
  /\ status' = "predict"
  /\ UNCHANGED <<notes, i, phonemes, consonants, lengths, frames>>

\* One length per note, or none at all when the core fails.
Predict ==
  /\ status = "predict"
  /\ consonants' \in [1..Len(notes) -> Predictions] \cup {<<>>}
  /\ status' = "lengths" /\ i' = 1
  /\ UNCHANGED <<notes, phonemes, lengths, frames>>

-----------------------------------------------------------------------------
(* calc_phoneme_lengths.                                                   *)

\* Division of C++, towards zero.
Half(n) == IF n >= 0 THEN n \div 2 ELSE -((-n) \div 2)

TakenUncapped(duration, predicted) ==
  IF predicted < 0 THEN Half(duration) ELSE predicted

TakenUnsigned(duration, predicted) ==
  IF predicted > duration THEN Half(duration) ELSE predicted

\* What the consonant of the next note takes from a note: a negative
\* prediction, or one longer than the note, becomes half of the note.
Taken(duration, predicted) ==
  IF predicted < 0 \/ predicted > duration THEN Half(duration) ELSE predicted

ConsonantFirst(vowel, consonant) == <<consonant, vowel>>

\* The vowel of a note is followed by the consonant of the next one.
VowelFirst(vowel, consonant) == <<vowel, consonant>>

RejectFirst ==
  /\ status = "lengths" /\ i = 1 /\ i < Len(consonants) /\ consonants[1] # 0
  /\ Throw

SplitNote ==
  /\ status = "lengths" /\ i < Len(consonants)
  /\ i = 1 => consonants[1] = 0
  /\ LET next == Taken(notes[i].frames, consonants[i + 1])
         vowel == [of |-> <<i, LastPart(notes[i])>>, frames |-> notes[i].frames - next]
         consonant == [of |-> <<i + 1, "consonant">>, frames |-> next]
     IN
     /\ consonants' = [consonants EXCEPT ![i + 1] = next]
     /\ lengths' = lengths \o IF next > 0 THEN VowelFirst(vowel, consonant)
                                         ELSE <<vowel>>
  /\ i' = i + 1
  /\ UNCHANGED <<notes, status, phonemes, frames>>

LastNote ==
  /\ status = "lengths" /\ consonants # <<>> /\ i = Len(consonants)
  /\ lengths' = Append(lengths, [of |-> <<i, LastPart(notes[i])>>, frames |-> notes[i].frames])
  /\ i' = i + 1
  /\ UNCHANGED <<notes, status, phonemes, consonants, frames>>

Shorter(a, b) == IF Len(a) <= Len(b) THEN Len(a) ELSE Len(b)

Total(s) ==
  LET sum[n \in 0..Len(s)] == IF n = 0 THEN 0 ELSE sum[n - 1] + s[n].frames
  IN sum[Len(s)]

\* numpy_repeat adds up the lengths it is going to use.
Needed == Total(SubSeq(lengths, 1, Shorter(phonemes, lengths)))

LengthsDone ==
  /\ status = "lengths" /\ i > Len(consonants) /\ Needed >= 0
  /\ status' = "repeat" /\ i' = 1
  /\ UNCHANGED <<notes, phonemes, consonants, lengths, frames>>

\* A negative size is no size of a vector: std::length_error.
RejectLengths ==
  /\ status = "lengths" /\ i > Len(consonants) /\ Needed < 0
  /\ Throw

-----------------------------------------------------------------------------
(* numpy_repeat and the reply.                                             *)

Repeat ==
  /\ status = "repeat" /\ i <= Shorter(phonemes, lengths) /\ lengths[i].frames >= 0
  /\ frames' = frames \o [j \in 1..lengths[i].frames |-> i]
  /\ i' = i + 1
  /\ UNCHANGED <<notes, status, phonemes, consonants, lengths>>

\* A negative length compared with a size_t never ends the inner loop.
Overrun ==
  /\ status = "repeat" /\ i <= Shorter(phonemes, lengths) /\ lengths[i].frames < 0
  /\ status' = "overrun"
  /\ UNCHANGED <<notes, i, phonemes, consonants, lengths, frames>>

RepeatDone ==
  /\ status = "repeat" /\ i > Shorter(phonemes, lengths)
  /\ status' = "assemble" /\ i' = 1
  /\ UNCHANGED <<notes, phonemes, consonants, lengths, frames>>

\* The vowel of a sung note is lost (the assignment goes the other way round),
\* its id is -1 and PhonemeList.at throws.
Assemble ==
  /\ status = "assemble" /\ i <= Len(phonemes)
  /\ \/ phonemes[i][2] = "vowel" /\ Throw
     \/ /\ phonemes[i][2] # "vowel" /\ i > Len(lengths)
        /\ status' = "overrun"
        /\ UNCHANGED <<notes, i, phonemes, consonants, lengths, frames>>
     \/ /\ phonemes[i][2] # "vowel" /\ i <= Len(lengths)
        /\ i' = i + 1
        /\ UNCHANGED <<notes, status, phonemes, consonants, lengths, frames>>

AssembleDone ==
  /\ status = "assemble" /\ i > Len(phonemes)
  /\ status' = "replied"
  /\ UNCHANGED <<notes, i, phonemes, consonants, lengths, frames>>

SongNext == \/ AddNote \/ RejectNote \/ NotesDone \/ Predict
        \/ RejectFirst \/ SplitNote \/ LastNote \/ LengthsDone \/ RejectLengths
        \/ Repeat \/ Overrun \/ RepeatDone \/ Assemble \/ AssembleDone

SongSpec == SongInit /\ [][SongNext]_songVars

-----------------------------------------------------------------------------
\* Scores of notes that last no negative time.
Forward == \A k \in 1..Len(notes) : notes[k].frames >= 0

\* Time is only moved between neighbours: however the core predicts, the
\* lengths computed so far last as long as the notes they come from.
FramesKept ==
  status = "lengths" /\ Forward /\ consonants # <<>> =>
    Total(lengths) = Total(SubSeq(notes, 1, i - 1))

\* The i-th length belongs to the i-th phoneme exactly when the core took time
\* for those notes that have a consonant, and for no first note; nothing but
\* the prediction ties the two arrays together.
Takes(k) == k > 1 /\ consonants[k] > 0

Aligned ==
  status \in {"repeat", "assemble", "replied"} /\ consonants # <<>> =>
    ( (phonemes = [j \in 1..Len(lengths) |-> lengths[j].of]) <=>
      (\A k \in 1..Len(notes) : Takes(k) <=> notes[k].lyric = "mora") )

\* Where notes last no negative time, a loop leaves its arrays in one case only:
\* the core gave no lengths for a score that has notes, and the assembly looks
\* up phoneme_lengths[i] all the same.  However badly a prediction that did come
\* fits the lyrics, the vowel of a sung note is met, and refused, before the
\* lengths run out.
NoOverrun ==
  status = "overrun" /\ Forward => consonants = <<>> /\ notes # <<>>

\* A core that failed is never answered with a song, but for an empty score.
FailureNoReply == status = "replied" /\ consonants = <<>> => notes = <<>>

\* The loops of create_sing_phoneme_and_f0_and_volume keep their types, leave
\* their arrays after a failed prediction only, and make no song of one.
SongSafe == SongTypeOK /\ NoOverrun /\ FailureNoReply
===============================================================================
