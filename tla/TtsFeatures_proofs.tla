--------------------------- MODULE TtsFeatures_proofs ---------------------------
(***************************************************************************)
(* Proofs about the two halves of tts_engine.cc and about                   *)
(* connect_base64_waves.cc.                                                 *)
(*                                                                         *)
(* SongFrames: its type invariant, that for notes of no negative time the   *)
(* loops leave their arrays after a failed prediction only, that no frame   *)
(* of the score is lost, and that every phoneme has a length of its own, in *)
(* order.                                                                   *)
(*                                                                         *)
(* SpeechQuery: that what a core predicts stays with its mora (writing the  *)
(* flat moras back through their pointers is the inverse of flattening      *)
(* them), that whispered moras stay silent and the mean pitch is kept, and    *)
(* where the decoder's two arrays are in step.                              *)
(*                                                                         *)
(* WaveConnection: that waves of one channel are joined as they are.        *)
(***************************************************************************)
EXTENDS SongFrames, SpeechQuery, WaveConnection, LeastElements, SequenceTheorems, TLAPS

-----------------------------------------------------------------------------
(* A song.                                                                 *)

\* The core answers nothing, or a length for every note.
OnePerNote == Len(consonants) \in {0, Len(notes)}

\* What a consonant takes is never more than there is.
Lasting == {length \in Length : length.frames >= 0}

NonNegative == Forward => lengths \in Seq(Lasting)

\* Only where lengths are fewer than phonemes does a loop leave them.
ShortLengths == status = "overrun" /\ Forward => Len(lengths) < Len(phonemes)

IInv == SongTypeOK /\ OnePerNote /\ NonNegative /\ ShortLengths

-----------------------------------------------------------------------------
\* What a consonant takes is a whole number of frames, and a note that lasts no
\* negative time keeps a time of its own that is not negative either.
LEMMA TakenBounds ==
  ASSUME NEW duration \in Int, NEW predicted \in Int
  PROVE  /\ Taken(duration, predicted) \in Int
         /\ duration >= 0 => /\ Taken(duration, predicted) >= 0
                             /\ Taken(duration, predicted) <= duration
<1>1. Half(duration) \in Int
  BY SMT DEF Half
<1>2. duration >= 0 => Half(duration) >= 0 /\ Half(duration) <= duration
  BY SMT DEF Half
<1> QED
  BY <1>1, <1>2, SMT DEF Taken

\* Two sequences over a set make one, and so does a single element or a pair.
LEMMA Joined ==
  ASSUME NEW S, NEW s \in Seq(S), NEW t \in Seq(S), NEW x \in S, NEW y \in S
  PROVE  s \o t \in Seq(S) /\ s \o <<x>> \in Seq(S) /\ s \o <<x, y>> \in Seq(S)
           /\ Append(s, x) \in Seq(S)
<1>1. <<x>> \in Seq(S) /\ <<x, y>> \in Seq(S) /\ Append(s, x) \in Seq(S)
  OBVIOUS
<1>2. \A u \in Seq(S) : s \o u \in Seq(S)
  OBVIOUS
<1> QED
  BY <1>1, <1>2

\* The phonemes of a note of the score are phonemes.
LEMMA PhonemesOfType ==
  ASSUME NEW k \in 1..MaxNotes, NEW note
  PROVE  /\ PhonemesOf(k, note) \in Seq(Phoneme)
         /\ <<k, LastPart(note)>> \in Phoneme
<1>1. LastPart(note) \in Parts
  BY DEF LastPart, Parts
<1>2. "consonant" \in Parts /\ "vowel" \in Parts
  BY DEF Parts
<1>3. <<k, LastPart(note)>> \in Phoneme /\ <<k, "consonant">> \in Phoneme
        /\ <<k, "vowel">> \in Phoneme
  BY <1>1, <1>2 DEF Phoneme
<1> QED
  BY <1>3 DEF PhonemesOf

\* The invariant holds before the first note is read.
LEMMA Initially == ASSUME SongInit PROVE IInv
<1>1. notes \in Seq(Notes) /\ Len(notes) <= MaxNotes
  <2>1. PICK n \in 0..MaxNotes : notes \in [1..n -> Notes]
    BY DEF SongInit, Scores
  <2> QED
    BY <2>1, SongAssumption, SMT DEF SongAssumption
<1>2. SongTypeOK
  BY <1>1 DEF SongInit, SongTypeOK
<1> QED
  BY <1>2 DEF SongInit, IInv, OnePerNote, NonNegative, ShortLengths

\* A step that ends in an error, or that only moves on, keeps the invariant.
LEMMA ThrowKeeps == ASSUME IInv, Throw PROVE IInv'
BY DEF IInv, Throw, SongTypeOK, OnePerNote, NonNegative, ShortLengths, Forward

\* Taking time for the consonant of the next note keeps the invariant.
LEMMA SplitKeeps == ASSUME IInv, SplitNote PROVE IInv'
<1> USE DEF IInv, SongTypeOK
<1>1. /\ Len(consonants) = Len(notes) /\ i \in 1..MaxNotes /\ i + 1 \in 1..MaxNotes
      /\ i \in 1..Len(notes) /\ i + 1 \in 1..Len(consonants)
  BY SongAssumption, SMT DEF SplitNote, OnePerNote, SongAssumption
<1>2. notes[i] \in Notes
  BY <1>1
<1>3. notes[i].frames \in Int
  BY <1>2, SongAssumption DEF SongAssumption, NoteType
<1>4. consonants[i + 1] \in Int
  BY <1>1
<1>5. PICK next : next = Taken(notes[i].frames, consonants[i + 1])
  OBVIOUS
<1>6. /\ next \in Int
      /\ notes[i].frames >= 0 => next >= 0 /\ next <= notes[i].frames
  BY <1>3, <1>4, <1>5, TakenBounds
<1>7. PICK vowel : vowel = [of |-> <<i, LastPart(notes[i])>>,
                            frames |-> notes[i].frames - next]
  OBVIOUS
<1>8. PICK consonant : consonant = [of |-> <<i + 1, "consonant">>, frames |-> next]
  OBVIOUS
<1>9. vowel \in Length /\ vowel.frames = notes[i].frames - next
  BY <1>1, <1>3, <1>6, <1>7, PhonemesOfType DEF Length
<1>10. consonant \in Length /\ consonant.frames = next
  <2>1. <<i + 1, "consonant">> \in Phoneme
    BY <1>1 DEF Phoneme, Parts
  <2> QED
    BY <2>1, <1>6, <1>8 DEF Length
<1>11. /\ next > 0 => lengths' = lengths \o <<vowel, consonant>>
       /\ ~(next > 0) => lengths' = lengths \o <<vowel>>
  <2>1. lengths' = lengths \o
          IF Taken(notes[i].frames, consonants[i + 1]) > 0
          THEN VowelFirst(
                 [of |-> <<i, LastPart(notes[i])>>,
                  frames |-> notes[i].frames - Taken(notes[i].frames, consonants[i + 1])],
                 [of |-> <<i + 1, "consonant">>,
                  frames |-> Taken(notes[i].frames, consonants[i + 1])])
          ELSE << [of |-> <<i, LastPart(notes[i])>>,
                   frames |-> notes[i].frames - Taken(notes[i].frames, consonants[i + 1])] >>
    BY DEF SplitNote
  <2>2. lengths' = lengths \o IF next > 0 THEN VowelFirst(vowel, consonant)
                                          ELSE <<vowel>>
    BY <2>1, <1>5, <1>7, <1>8, Zenon
  <2>3. lengths' = lengths \o IF next > 0 THEN <<vowel, consonant>> ELSE <<vowel>>
    BY <2>2 DEF VowelFirst
  <2> QED
    BY <2>3, Zenon
<1>12. consonants' = [consonants EXCEPT ![i + 1] = next]
  BY <1>5 DEF SplitNote
<1>13. consonants' \in Seq(Int) /\ Len(consonants') = Len(consonants)
  BY <1>1, <1>6, <1>12, ExceptSeq
<1>14. /\ i' = i + 1 /\ notes' = notes /\ status' = status /\ status = "lengths"
       /\ phonemes' = phonemes /\ frames' = frames
  BY DEF SplitNote
<1>15. lengths' \in Seq(Length)
  BY <1>9, <1>10, <1>11, Joined
<1>16. NonNegative'
  <2> SUFFICES ASSUME Forward PROVE lengths' \in Seq(Lasting)
    BY <1>14 DEF NonNegative, Forward
  <2>1. lengths \in Seq(Lasting)
    BY DEF NonNegative
  <2>2. notes[i].frames >= 0
    BY <1>1 DEF Forward
  <2>3. vowel \in Lasting /\ consonant \in Lasting
    BY <2>2, <1>3, <1>6, <1>9, <1>10, SMT DEF Lasting
  <2> QED
    BY <2>1, <2>3, <1>11, Joined
<1> QED
  BY <1>13, <1>14, <1>15, <1>16 DEF OnePerNote, ShortLengths

\* So does the last note, which nothing is taken from.
LEMMA LastNoteKeeps == ASSUME IInv, LastNote PROVE IInv'
<1> USE DEF IInv, SongTypeOK
<1>1. i \in 1..Len(notes) /\ i \in 1..MaxNotes
  BY SongAssumption, SMT DEF LastNote, OnePerNote, SongAssumption
<1>2. notes[i].frames \in Int
  BY <1>1, SongAssumption DEF SongAssumption, NoteType
<1>3. PICK new : new = [of |-> <<i, LastPart(notes[i])>>, frames |-> notes[i].frames]
  OBVIOUS
<1>4. new \in Length /\ new.frames = notes[i].frames
  BY <1>1, <1>2, <1>3, PhonemesOfType DEF Length
<1>5. lengths' = Append(lengths, new)
  BY <1>3 DEF LastNote
<1>6. /\ i' = i + 1 /\ notes' = notes /\ status' = status /\ status = "lengths"
      /\ phonemes' = phonemes /\ frames' = frames /\ consonants' = consonants
  BY DEF LastNote
<1>7. NonNegative'
  <2> SUFFICES ASSUME Forward PROVE lengths' \in Seq(Lasting)
    BY <1>6 DEF NonNegative, Forward
  <2>1. new \in Lasting /\ lengths \in Seq(Lasting)
    BY <1>1, <1>4 DEF Forward, Lasting, NonNegative
  <2> QED
    BY <2>1, <1>5, Joined
<1> QED
  BY <1>4, <1>5, <1>6, <1>7 DEF OnePerNote, ShortLengths

\* So does reading a note.
LEMMA AddKeeps == ASSUME IInv, AddNote PROVE IInv'
<1>1. i \in 1..MaxNotes
  BY SongAssumption, SMT DEF IInv, SongTypeOK, AddNote, SongAssumption
<1>2. phonemes' \in Seq(Phoneme)
  <2>1. PICK more : more = PhonemesOf(i, notes[i])
    OBVIOUS
  <2>2. phonemes \in Seq(Phoneme) /\ more \in Seq(Phoneme) /\ phonemes' = phonemes \o more
    BY <1>1, <2>1, PhonemesOfType DEF IInv, SongTypeOK, AddNote
  <2> HIDE DEF Phoneme
  <2>3. \A a, b \in Seq(Phoneme) : a \o b \in Seq(Phoneme)
    OBVIOUS
  <2> QED
    BY <2>2, <2>3
<1>3. /\ i' = i + 1 /\ notes' = notes /\ status' = status /\ status = "notes"
      /\ lengths' = lengths /\ frames' = frames /\ consonants' = consonants
  BY DEF AddNote
<1> QED
  BY <1>2, <1>3 DEF IInv, SongTypeOK, OnePerNote, NonNegative, ShortLengths, Forward

\* So does the prediction.
LEMMA PredictKeeps == ASSUME IInv, Predict PROVE IInv'
<1>1. /\ notes' = notes /\ status' = "lengths" /\ i' = 1
      /\ phonemes' = phonemes /\ lengths' = lengths /\ frames' = frames
  BY DEF Predict
<1>2. Len(notes) \in Nat
  BY DEF IInv, SongTypeOK
<1>3. consonants' \in Seq(Int) /\ Len(consonants') \in {0, Len(notes)}
  <2>1. CASE consonants' = <<>>
    BY <2>1
  <2>2. CASE consonants' \in [1..Len(notes) -> Predictions]
    <3>1. consonants' \in [1..Len(notes) -> Int]
      BY <2>2, SongAssumption DEF SongAssumption
    <3> QED
      BY <3>1, <1>2
  <2> QED
    BY <2>1, <2>2 DEF Predict
<1> QED
  BY <1>1, <1>3 DEF IInv, SongTypeOK, OnePerNote, NonNegative, ShortLengths, Forward

\* So does stretching a phoneme to frames.
LEMMA RepeatKeeps == ASSUME IInv, Repeat PROVE IInv'
<1>1. i \in 1..Len(lengths) /\ i \in Nat \ {0}
  BY SMT DEF IInv, SongTypeOK, Repeat, Shorter
<1>2. lengths[i].frames \in Nat
  <2>1. lengths[i] \in Length
    BY <1>1 DEF IInv, SongTypeOK
  <2> QED
    BY <2>1 DEF Length, Repeat
<1>3. PICK n \in Nat : n = lengths[i].frames
  BY <1>2
<1>4. [j \in 1..n |-> i] \in Seq(Nat \ {0})
  BY <1>1
<1>5. frames' = frames \o [j \in 1..n |-> i]
  BY <1>3 DEF Repeat
<1>6. frames' \in Seq(Nat \ {0})
  <2>1. PICK more \in Seq(Nat \ {0}) : frames' = frames \o more
    BY <1>4, <1>5
  <2> QED
    BY <2>1 DEF IInv, SongTypeOK
<1>7. /\ i' = i + 1 /\ notes' = notes /\ status' = status /\ status = "repeat"
      /\ phonemes' = phonemes /\ lengths' = lengths /\ consonants' = consonants
  BY DEF Repeat
<1> QED
  BY <1>6, <1>7 DEF IInv, SongTypeOK, OnePerNote, NonNegative, ShortLengths, Forward

\* numpy_repeat only runs away over a note of a negative length.
LEMMA OverrunKeeps == ASSUME IInv, Overrun PROVE IInv'
<1>1. i \in 1..Len(lengths)
  BY SMT DEF IInv, SongTypeOK, Overrun, Shorter
<1>2. lengths[i] \in Length
  BY <1>1 DEF IInv, SongTypeOK
<1>3. ~Forward
  <2> SUFFICES ASSUME Forward PROVE FALSE
    OBVIOUS
  <2>1. lengths[i] \in Lasting
    BY <1>1 DEF IInv, NonNegative
  <2> QED
    BY <2>1, <1>2 DEF Lasting, Length, Overrun
<1> QED
  BY <1>3 DEF IInv, SongTypeOK, OnePerNote, NonNegative, ShortLengths, Forward, Overrun

\* The assembly leaves phoneme_lengths only where it is the shorter array.
LEMMA AssembleKeeps == ASSUME IInv, Assemble PROVE IInv'
<1>1. CASE Throw
  BY <1>1, ThrowKeeps
<1>2. CASE /\ i > Len(lengths) /\ status' = "overrun"
           /\ UNCHANGED <<notes, i, phonemes, consonants, lengths, frames>>
  <2>1. Len(lengths) < Len(phonemes)
    <3>1. Len(lengths) \in Nat /\ Len(phonemes) \in Nat /\ i \in Nat
      BY DEF IInv, SongTypeOK
    <3>2. i <= Len(phonemes)
      BY DEF Assemble
    <3> QED
      BY <1>2, <3>1, <3>2
  <2> QED
    BY <1>2, <2>1 DEF IInv, SongTypeOK, OnePerNote, NonNegative, ShortLengths, Forward
<1>3. CASE /\ i' = i + 1 /\ status = "assemble"
           /\ UNCHANGED <<notes, status, phonemes, consonants, lengths, frames>>
  BY <1>3 DEF IInv, SongTypeOK, OnePerNote, NonNegative, ShortLengths, Forward
<1> QED
  BY <1>1, <1>2, <1>3 DEF Assemble

\* Every step keeps the invariant.
LEMMA StepKeeps == ASSUME IInv, [SongNext]_songVars PROVE IInv'
<1>1. CASE RejectNote \/ RejectFirst \/ RejectLengths
  BY <1>1, ThrowKeeps DEF RejectNote, RejectFirst, RejectLengths
<1>2. CASE NotesDone
  BY <1>2 DEF IInv, SongTypeOK, OnePerNote, NonNegative, ShortLengths, Forward, NotesDone
<1>3. CASE LengthsDone
  BY <1>3 DEF IInv, SongTypeOK, OnePerNote, NonNegative, ShortLengths, Forward, LengthsDone
<1>4. CASE RepeatDone
  BY <1>4 DEF IInv, SongTypeOK, OnePerNote, NonNegative, ShortLengths, Forward, RepeatDone
<1>5. CASE AssembleDone
  BY <1>5 DEF IInv, SongTypeOK, OnePerNote, NonNegative, ShortLengths, Forward, AssembleDone
<1>6. CASE UNCHANGED songVars
  BY <1>6 DEF IInv, SongTypeOK, OnePerNote, NonNegative, ShortLengths, Forward, songVars
<1> QED
  BY <1>1, <1>2, <1>3, <1>4, <1>5, <1>6, AddKeeps, PredictKeeps, SplitKeeps,
     LastNoteKeeps, RepeatKeeps, OverrunKeeps, AssembleKeeps DEF SongNext

\* The invariant holds in every state of every song.
LEMMA Invariant == SongSpec => []IInv
BY Initially, StepKeeps, PTL DEF SongSpec

\* The state of create_sing_phoneme_and_f0_and_volume has its type for every
\* score, every prediction and every number of notes.
THEOREM SongTypeCorrect == SongSpec => []SongTypeOK
<1>1. IInv => SongTypeOK
  BY DEF IInv
<1> QED
  BY <1>1, Invariant, PTL

-----------------------------------------------------------------------------
(* Where a song leaves its arrays.                                         *)

\* The first j phonemes hold no vowel: they are rests, and at most one consonant
\* behind them.
Opening(j) == \A m \in 1..j : phonemes[m][2] # "vowel"

\* How many notes the phonemes are of.
NotesRead == IF status = "notes" THEN i - 1 ELSE Len(notes)

\* Without a vowel there is one phoneme a note.
OpeningShort == \A j \in 0..Len(phonemes) : Opening(j) => j <= NotesRead

EachRead ==
  /\ status = "notes" => i <= Len(notes) + 1
  /\ status # "thrown" => Len(phonemes) >= NotesRead

\* There are lengths exactly if there was a prediction, then one a note or more.
LengthsThere ==
  /\ status \in {"notes", "predict"} => consonants = <<>>
  /\ consonants = <<>> => lengths = <<>>
  /\ status = "lengths" /\ consonants # <<>> => Len(lengths) >= i - 1
  /\ status \in {"repeat", "assemble"} /\ consonants # <<>> => Len(lengths) >= Len(notes)

\* The assembly has met no vowel so far, and found each length.
NoVowelSoFar ==
  status = "assemble" =>
    i <= Len(phonemes) + 1 /\ i <= Len(lengths) + 1 /\ Opening(i - 1)

SongInv == /\ IInv /\ OpeningShort /\ EachRead /\ LengthsThere /\ NoVowelSoFar
           /\ NoOverrun /\ FailureNoReply

LEMMA SongStart == ASSUME SongInit PROVE SongInv
<1>1. /\ status = "notes" /\ i = 1 /\ phonemes = <<>> /\ consonants = <<>> /\ lengths = <<>>
      /\ Len(notes) \in Nat /\ IInv
  BY Initially DEF SongInit, IInv, SongTypeOK
<1>2. OpeningShort /\ EachRead
  BY <1>1 DEF OpeningShort, EachRead, NotesRead
<1> QED BY <1>1, <1>2 DEF SongInv, LengthsThere, NoVowelSoFar, NoOverrun, FailureNoReply

\* The types that the arithmetic of the steps needs.
LEMMA SongShapes ==
  ASSUME IInv
  PROVE  /\ Len(notes) \in Nat /\ Len(phonemes) \in Nat /\ Len(lengths) \in Nat
         /\ Len(consonants) \in Nat /\ i \in Nat /\ i >= 1
         /\ Len(consonants) = 0 \/ Len(consonants) = Len(notes)
         /\ consonants = <<>> <=> Len(consonants) = 0
         /\ lengths = <<>> => Len(lengths) = 0
         /\ notes = <<>> <=> Len(notes) = 0
BY DEF IInv, SongTypeOK, OnePerNote

LEMMA AddOpens == ASSUME SongInv, AddNote PROVE OpeningShort' /\ EachRead'
<1>1. /\ status = "notes" /\ status' = "notes" /\ i' = i + 1 /\ i <= Len(notes) /\ notes' = notes
      /\ phonemes' = phonemes \o PhonemesOf(i, notes[i])
  BY DEF AddNote
<1>2. /\ Len(phonemes) \in Nat /\ Len(notes) \in Nat /\ i \in Nat /\ i >= 1
      /\ phonemes \in Seq(Phoneme) /\ i \in 1..MaxNotes
  BY <1>1, SongShapes, SongAssumption DEF SongInv, IInv, SongTypeOK, SongAssumption
<1>3. PICK more \in Seq(Phoneme) : more = PhonemesOf(i, notes[i])
  BY <1>2, PhonemesOfType
<1>4. PICK old \in Seq(Phoneme) : old = phonemes
  BY <1>2
<1>5. /\ Len(old \o more) = Len(old) + Len(more)
      /\ \A m \in 1..Len(old) : (old \o more)[m] = old[m]
      /\ \A m \in 1..Len(more) : (old \o more)[Len(old) + m] = more[m]
  OBVIOUS
<1>6. /\ Len(phonemes') = Len(phonemes) + Len(more)
      /\ \A m \in 1..Len(phonemes) : phonemes'[m] = phonemes[m]
      /\ \A m \in 1..Len(more) : phonemes'[Len(phonemes) + m] = more[m]
  BY <1>1, <1>3, <1>4, <1>5
<1>7. \/ Len(more) = 1
      \/ Len(more) = 2 /\ more[2][2] = "vowel"
  <2>1. more = << <<i, "consonant">>, <<i, "vowel">> >> \/ more = << <<i, LastPart(notes[i])>> >>
    BY <1>3 DEF PhonemesOf
  <2>2. ASSUME more = << <<i, "consonant">>, <<i, "vowel">> >>
        PROVE  Len(more) = 2 /\ more[2][2] = "vowel"
    BY <2>2
  <2>3. ASSUME more = << <<i, LastPart(notes[i])>> >> PROVE Len(more) = 1
    BY <2>3
  <2> QED BY <2>1, <2>2, <2>3
<1>8. OpeningShort'
  <2> SUFFICES ASSUME NEW j \in 0..Len(phonemes'), Opening(j)' PROVE j <= i
    BY <1>1, <1>2 DEF OpeningShort, NotesRead
  <2>1. \A m \in 1..j : phonemes'[m][2] # "vowel"
    BY DEF Opening
  <2>2. \A k \in 0..Len(phonemes) : Opening(k) => k <= i - 1
    BY <1>1 DEF SongInv, OpeningShort, NotesRead
  <2>3. CASE j <= Len(phonemes)
    <3>1. Opening(j)
      BY <1>2, <1>6, <2>1, <2>3 DEF Opening
    <3> QED BY <1>2, <2>2, <2>3, <3>1
  <2>4. CASE j > Len(phonemes)
    <3>1. Opening(Len(phonemes))
      BY <1>2, <1>6, <2>1, <2>4 DEF Opening
    <3>2. Len(phonemes) <= i - 1
      BY <1>2, <2>2, <3>1
    <3>3. j = Len(phonemes) + 1
      <4>1. CASE Len(more) = 1
        BY <1>2, <1>6, <2>4, <4>1
      <4>2. CASE Len(more) = 2 /\ more[2][2] = "vowel"
        <5>1. phonemes'[Len(phonemes) + 2][2] = "vowel" /\ Len(phonemes') = Len(phonemes) + 2
          BY <1>6, <4>2
        <5>2. j # Len(phonemes) + 2
          BY <1>2, <2>1, <5>1
        <5> QED BY <1>2, <2>4, <5>1, <5>2
      <4> QED BY <1>7, <4>1, <4>2
    <3> QED BY <1>2, <3>2, <3>3
  <2> QED BY <1>2, <2>3, <2>4
<1>9. EachRead'
  <2>1. Len(phonemes) >= i - 1
    BY <1>1 DEF SongInv, EachRead, NotesRead
  <2>2. Len(more) >= 1
    BY <1>7
  <2>3. Len(phonemes') >= (i + 1) - 1
    BY <1>2, <1>3, <1>6, <2>1, <2>2
  <2> QED BY <1>1, <1>2, <2>3 DEF EachRead, NotesRead
<1> QED BY <1>8, <1>9

\* The phonemes stay what they are, and all notes are read, from then on.
LEMMA PhonemesStay ==
  ASSUME SongInv, phonemes' = phonemes, notes' = notes, status' # "notes",
         status = "notes" => i > Len(notes) \/ status' = "thrown",
         status = "thrown" => status' = "thrown"
  PROVE  OpeningShort' /\ EachRead'
<1>1. Len(notes) \in Nat /\ Len(phonemes) \in Nat /\ i \in Nat
  BY SongShapes DEF SongInv
<1>2. NotesRead' = Len(notes)
  BY DEF NotesRead
<1>3. NotesRead <= Len(notes)
  BY <1>1 DEF SongInv, EachRead, NotesRead
<1>4. NotesRead \in Int
  BY <1>1 DEF NotesRead
<1>5. OpeningShort'
  <2> SUFFICES ASSUME NEW j \in 0..Len(phonemes), Opening(j)' PROVE j <= Len(notes)
    BY <1>2 DEF OpeningShort
  <2>1. Opening(j)
    BY DEF Opening
  <2>2. j <= NotesRead
    BY <2>1 DEF SongInv, OpeningShort
  <2> QED BY <1>1, <1>3, <1>4, <2>2
<1>6. EachRead'
  <2> SUFFICES ASSUME status' # "thrown" PROVE Len(phonemes) >= Len(notes)
    BY <1>2 DEF EachRead
  <2>1. CASE status = "notes"
    <3>1. i = Len(notes) + 1 /\ Len(phonemes) >= i - 1
      BY <1>1, <2>1 DEF SongInv, EachRead, NotesRead
    <3> QED BY <1>1, <3>1
  <2>2. CASE status \notin {"notes", "thrown"}
    BY <2>2 DEF SongInv, EachRead, NotesRead
  <2>3. CASE status = "thrown"
    BY <2>3
  <2> QED BY <2>1, <2>2, <2>3
<1> QED BY <1>5, <1>6
\* A sequence grows by what is put behind it.
LEMMA LongerBy ==
  ASSUME NEW S, NEW s \in Seq(S), NEW x, NEW y
  PROVE  /\ Len(s \o <<x>>) = Len(s) + 1 /\ Len(s \o <<x, y>>) = Len(s) + 2
         /\ Len(Append(s, x)) = Len(s) + 1
<1>1. PICK T : T = S \cup {x, y}
  OBVIOUS
<1>2. s \in Seq(T) /\ x \in T /\ y \in T
  BY <1>1, SeqMonotonic
<1>3. <<x>> \in Seq(T) /\ <<x, y>> \in Seq(T) /\ Len(<<x>>) = 1 /\ Len(<<x, y>>) = 2
  BY <1>2
<1>4. \A u \in Seq(T) : Len(s \o u) = Len(s) + Len(u)
  BY <1>2
<1> QED BY <1>2, <1>3, <1>4

LEMMA SplitGrows == ASSUME IInv, SplitNote PROVE Len(lengths') >= Len(lengths) + 1
<1>1. lengths \in Seq(Length) /\ Len(lengths) \in Nat
  BY DEF IInv, SongTypeOK
<1>2. PICK v, c : lengths' = lengths \o <<v, c>> \/ lengths' = lengths \o <<v>>
  BY Zenon DEF SplitNote, VowelFirst
<1> HIDE DEF Length
<1>3. Len(lengths \o <<v, c>>) = Len(lengths) + 2 /\ Len(lengths \o <<v>>) = Len(lengths) + 1
  BY <1>1, LongerBy
<1> QED BY <1>1, <1>2, <1>3

\* Under a score of no negative time numpy_repeat meets no negative length.
LEMMA NoneNegative == ASSUME IInv, Overrun PROVE ~Forward
<1>1. i \in 1..Len(lengths)
  BY SMT DEF IInv, SongTypeOK, Overrun, Shorter
<1> SUFFICES ASSUME Forward PROVE FALSE
  OBVIOUS
<1>2. lengths[i] \in Lasting
  BY <1>1 DEF IInv, NonNegative
<1> QED BY <1>2 DEF Lasting, Length, Overrun

\* The assembly finds a length for each phoneme until a vowel stops it, or it had
\* no prediction to begin with.
LEMMA AssembleOpens ==
  ASSUME SongInv, Assemble
  PROVE  LengthsThere' /\ NoVowelSoFar' /\ NoOverrun' /\ FailureNoReply'
<1>1. /\ status = "assemble" /\ i <= Len(phonemes) /\ notes' = notes /\ phonemes' = phonemes
      /\ consonants' = consonants /\ lengths' = lengths
  BY DEF Assemble, Throw
<1>2. /\ Len(notes) \in Nat /\ Len(phonemes) \in Nat /\ Len(lengths) \in Nat /\ i \in Nat /\ i >= 1
      /\ notes = <<>> <=> Len(notes) = 0
  BY SongShapes DEF SongInv
<1>3. i <= Len(lengths) + 1 /\ Opening(i - 1)
  BY <1>1 DEF SongInv, NoVowelSoFar
<1>4. /\ consonants = <<>> => lengths = <<>>
      /\ consonants # <<>> => Len(lengths) >= Len(notes)
  BY <1>1 DEF SongInv, LengthsThere
<1>5. ASSUME phonemes[i][2] # "vowel" PROVE Opening(i)
  <2>1. \A m \in 1..i : m = i \/ m \in 1..(i - 1)
    BY <1>2
  <2> QED BY <1>3, <1>5, <2>1 DEF Opening
<1>6. CASE status' = "thrown"
  BY <1>1, <1>4, <1>6 DEF LengthsThere, NoVowelSoFar, NoOverrun, FailureNoReply
<1>7. CASE phonemes[i][2] # "vowel" /\ i > Len(lengths) /\ status' = "overrun"
  <2>1. i <= Len(notes)
    <3>1. Opening(i) /\ i \in 0..Len(phonemes)
      BY <1>1, <1>2, <1>5, <1>7
    <3> QED BY <1>1, <3>1 DEF SongInv, OpeningShort, NotesRead
  <2>2. consonants = <<>> /\ notes # <<>>
    BY <1>2, <1>4, <1>7, <2>1
  <2> QED BY <1>1, <1>4, <1>7, <2>2 DEF LengthsThere, NoVowelSoFar, NoOverrun, FailureNoReply
<1>8. CASE phonemes[i][2] # "vowel" /\ i <= Len(lengths) /\ i' = i + 1 /\ status' = status
  <2>1. i' - 1 = i /\ i' <= Len(phonemes) + 1 /\ i' <= Len(lengths) + 1
    BY <1>1, <1>2, <1>8
  <2>2. Opening(i - 1)'
    <3>1. \A m \in 1..(i' - 1) : phonemes'[m][2] # "vowel"
      BY <1>1, <1>5, <1>8, <2>1 DEF Opening
    <3> QED BY <3>1 DEF Opening
  <2> QED BY <1>1, <1>4, <1>8, <2>1, <2>2 DEF LengthsThere, NoVowelSoFar, NoOverrun, FailureNoReply
<1> QED BY <1>6, <1>7, <1>8 DEF Assemble, Throw

\* Every step keeps the whole invariant.
LEMMA SongStep == ASSUME SongInv, [SongNext]_songVars PROVE SongInv'
<1> DEFINE Stay == OpeningShort' /\ EachRead'
           Rest == LengthsThere' /\ NoVowelSoFar' /\ NoOverrun' /\ FailureNoReply'
<1>1. IInv' /\ IInv
  BY StepKeeps DEF SongInv
<1>2. /\ Len(notes) \in Nat /\ Len(phonemes) \in Nat /\ Len(lengths) \in Nat
      /\ Len(consonants) \in Nat /\ i \in Nat /\ i >= 1
      /\ Len(consonants) = 0 \/ Len(consonants) = Len(notes)
      /\ consonants = <<>> <=> Len(consonants) = 0
      /\ lengths = <<>> => Len(lengths) = 0
      /\ notes = <<>> <=> Len(notes) = 0
  BY <1>1, SongShapes
<1>3. Len(lengths') \in Nat /\ (consonants' = <<>> <=> Len(consonants') = 0)
  <2>1. consonants' \in Seq(Int) /\ lengths' \in Seq(Length')
    BY <1>1 DEF IInv, SongTypeOK
  <2> QED BY <2>1
<1>4. CASE AddNote
  BY <1>1, <1>4, AddOpens
     DEF SongInv, AddNote, LengthsThere, NoVowelSoFar, NoOverrun, FailureNoReply
<1>5. CASE RejectNote \/ RejectFirst \/ RejectLengths
  <2>1. /\ phonemes' = phonemes /\ notes' = notes /\ consonants' = consonants
        /\ lengths' = lengths /\ status' = "thrown"
    BY <1>5 DEF RejectNote, RejectFirst, RejectLengths, Throw
  <2>2. Stay
    BY <2>1, PhonemesStay
  <2> QED BY <1>1, <2>1, <2>2
          DEF SongInv, LengthsThere, NoVowelSoFar, NoOverrun, FailureNoReply
<1>6. CASE NotesDone
  <2>1. Stay
    BY <1>6, PhonemesStay DEF NotesDone
  <2> QED BY <1>1, <1>6, <2>1
          DEF SongInv, NotesDone, LengthsThere, NoVowelSoFar, NoOverrun, FailureNoReply
<1>7. CASE Predict
  <2>1. Stay
    BY <1>7, PhonemesStay DEF Predict
  <2>2. /\ lengths' = lengths /\ status' = "lengths" /\ i' = 1 /\ lengths = <<>>
    BY <1>7 DEF SongInv, LengthsThere, Predict
  <2>3. LengthsThere'
    BY <1>3, <2>2 DEF LengthsThere
  <2> QED BY <1>1, <2>1, <2>2, <2>3 DEF SongInv, NoVowelSoFar, NoOverrun, FailureNoReply
<1>8. CASE SplitNote
  <2>1. Stay
    BY <1>8, PhonemesStay DEF SplitNote
  <2>2. /\ status = "lengths" /\ status' = "lengths" /\ i' = i + 1 /\ i < Len(consonants)
        /\ Len(consonants') = Len(consonants)
    BY <1>1, <1>8 DEF SplitNote, IInv, SongTypeOK
  <2>3. Len(lengths) >= i - 1 /\ Len(lengths') >= Len(lengths) + 1
    BY <1>1, <1>2, <1>8, <2>2, SplitGrows DEF SongInv, LengthsThere
  <2>4. Len(lengths') >= i' - 1 /\ consonants' # <<>>
    BY <1>2, <1>3, <2>2, <2>3
  <2>5. LengthsThere'
    BY <2>2, <2>4 DEF LengthsThere
  <2> QED BY <1>1, <2>1, <2>2, <2>5 DEF SongInv, NoVowelSoFar, NoOverrun, FailureNoReply
<1>9. CASE LastNote
  <2>1. Stay
    BY <1>9, PhonemesStay DEF LastNote
  <2>2. /\ status = "lengths" /\ status' = "lengths" /\ i' = i + 1 /\ consonants # <<>>
        /\ consonants' = consonants
    BY <1>9 DEF LastNote
  <2>3. Len(lengths) >= i - 1 /\ Len(lengths') = Len(lengths) + 1
    <3>1. lengths \in Seq(Length)
      BY <1>1 DEF IInv, SongTypeOK
    <3>2. PICK new : lengths' = Append(lengths, new)
      BY <1>9, Zenon DEF LastNote
    <3> HIDE DEF Length
    <3>3. Len(lengths') = Len(lengths) + 1
      BY <3>1, <3>2, LongerBy
    <3> QED BY <2>2, <3>3 DEF SongInv, LengthsThere
  <2>4. Len(lengths') >= i' - 1
    BY <1>2, <1>3, <2>2, <2>3
  <2>5. LengthsThere'
    BY <2>2, <2>4 DEF LengthsThere
  <2> QED BY <1>1, <2>1, <2>2, <2>5 DEF SongInv, NoVowelSoFar, NoOverrun, FailureNoReply
<1>10. CASE LengthsDone
  <2>1. Stay
    BY <1>10, PhonemesStay DEF LengthsDone
  <2>2. /\ status = "lengths" /\ status' = "repeat" /\ i > Len(consonants)
        /\ consonants' = consonants /\ lengths' = lengths /\ notes' = notes
    BY <1>10 DEF LengthsDone
  <2>3. LengthsThere'
    BY <1>2, <2>2 DEF SongInv, LengthsThere
  <2> QED BY <1>1, <2>1, <2>2, <2>3 DEF SongInv, NoVowelSoFar, NoOverrun, FailureNoReply
<1>11. CASE Repeat
  <2>1. Stay
    BY <1>11, PhonemesStay DEF Repeat
  <2>2. LengthsThere'
    BY <1>11 DEF SongInv, LengthsThere, Repeat
  <2> QED BY <1>1, <1>11, <2>1, <2>2 DEF SongInv, Repeat, NoVowelSoFar, NoOverrun, FailureNoReply
<1>12. CASE Overrun
  <2>1. Stay
    BY <1>12, PhonemesStay DEF Overrun
  <2>2. ~Forward'
    BY <1>1, <1>12, NoneNegative DEF Overrun, Forward
  <2>3. LengthsThere'
    BY <1>12 DEF SongInv, LengthsThere, Overrun
  <2> QED BY <1>1, <1>12, <2>1, <2>2, <2>3
          DEF SongInv, Overrun, NoVowelSoFar, NoOverrun, FailureNoReply
<1>13. CASE RepeatDone
  <2>1. Stay
    BY <1>13, PhonemesStay DEF RepeatDone
  <2>2. LengthsThere'
    BY <1>13 DEF SongInv, LengthsThere, RepeatDone
  <2>3. NoVowelSoFar'
    <3>1. i' = 1 /\ phonemes' = phonemes /\ lengths' = lengths /\ 1..(1 - 1) = {}
      BY <1>13 DEF RepeatDone
    <3> QED BY <1>2, <3>1 DEF NoVowelSoFar, Opening
  <2> QED BY <1>1, <1>13, <2>1, <2>2, <2>3
          DEF SongInv, RepeatDone, NoOverrun, FailureNoReply
<1>14. CASE Assemble
  <2>1. /\ phonemes' = phonemes /\ notes' = notes /\ status = "assemble" /\ status' # "notes"
    BY <1>14 DEF Assemble, Throw
  <2>2. Stay
    BY <2>1, PhonemesStay
  <2> QED BY <1>1, <1>14, <2>2, AssembleOpens DEF SongInv
<1>15. CASE AssembleDone
  <2>1. Stay
    BY <1>15, PhonemesStay DEF AssembleDone
  <2>2. /\ status = "assemble" /\ status' = "replied" /\ i > Len(phonemes)
        /\ notes' = notes /\ consonants' = consonants /\ lengths' = lengths
    BY <1>15 DEF AssembleDone
  <2>3. FailureNoReply'
    <3> SUFFICES ASSUME consonants = <<>> PROVE notes = <<>>
      BY <2>2 DEF FailureNoReply
    <3>1. Len(lengths) = 0 /\ i <= Len(lengths) + 1
      BY <1>2, <2>2 DEF SongInv, LengthsThere, NoVowelSoFar
    <3>2. Len(phonemes) >= Len(notes)
      BY <2>2 DEF SongInv, EachRead, NotesRead
    <3> QED BY <1>2, <2>2, <3>1, <3>2
  <2>4. LengthsThere'
    BY <2>2 DEF SongInv, LengthsThere
  <2> QED BY <1>1, <2>1, <2>2, <2>3, <2>4 DEF SongInv, NoVowelSoFar, NoOverrun
<1>16. CASE UNCHANGED songVars
  <2>1. /\ notes' = notes /\ status' = status /\ i' = i /\ phonemes' = phonemes
        /\ consonants' = consonants /\ lengths' = lengths
    BY <1>16 DEF songVars
  <2>2. OpeningShort' /\ EachRead'
    BY <2>1 DEF SongInv, OpeningShort, EachRead, NotesRead, Opening
  <2>3. LengthsThere' /\ NoVowelSoFar'
    BY <2>1 DEF SongInv, LengthsThere, NoVowelSoFar, Opening
  <2>4. NoOverrun' /\ FailureNoReply'
    BY <2>1 DEF SongInv, NoOverrun, FailureNoReply, Forward
  <2> QED BY <1>1, <2>2, <2>3, <2>4 DEF SongInv
<1> QED BY <1>4, <1>5, <1>6, <1>7, <1>8, <1>9, <1>10, <1>11, <1>12, <1>13, <1>14, <1>15, <1>16
        DEF SongNext

\* For every score whose notes last no negative time the loops of a song leave
\* their arrays in one case only, when a core gave no lengths for its notes: the
\* lengths never run out before a sung vowel is met and refused, whatever a core
\* predicts (calc_phoneme_lengths, tts_engine.cc).
THEOREM SongStaysInside == SongSpec => []NoOverrun
<1>1. SongSpec => []SongInv
  BY SongStart, SongStep, PTL DEF SongSpec
<1>2. SongInv => NoOverrun
  BY DEF SongInv
<1> QED BY <1>1, <1>2, PTL

\* For every score, prediction and number of notes the song keeps its types, its
\* loops leave their arrays after a failed prediction only, and a failed
\* prediction makes no song (SongFrames).
THEOREM SongIsSafe == SongSpec => []SongSafe
<1>1. SongSpec => []SongInv
  BY SongStart, SongStep, PTL DEF SongSpec
<1>2. SongInv => SongSafe
  BY DEF SongInv, IInv, SongSafe
<1> QED BY <1>1, <1>2, PTL

-----------------------------------------------------------------------------
(* What the lengths last together.                                         *)

Timed == [frames : Int]

\* Running sums of a sequence, from nothing to all of it.
RunningSums(s, f) ==
  /\ f \in [0..Len(s) -> Int] /\ f[0] = 0
  /\ \A n \in 1..Len(s) : f[n] = f[n - 1] + s[n].frames

LEMMA TotalExists ==
  ASSUME NEW S, NEW s \in Seq(S), \A x \in S : x.frames \in Int
  PROVE  \E f : RunningSums(s, f) /\ Total(s) = f[Len(s)]
<1> DEFINE N == Len(s)
           next == [x \in Nat \X Int |-> IF x[1] \in 1..N THEN x[2] + s[x[1]].frames ELSE 0]
           Is(f) == f = [n \in 0..N |-> IF n = 0 THEN 0 ELSE f[n - 1] + s[n].frames]
<1>1. N \in Nat /\ \A n \in 1..N : s[n].frames \in Int
  OBVIOUS
<1>2. next \in [Nat \X Int -> Int]
  BY <1>1
<1>3. PICK g : Recurs(g, Int, 0, next, N)
  <2>1. 0 \in Int /\ N \in Nat
    BY <1>1
  <2> HIDE DEF next, N
  <2> QED BY <1>2, <2>1, RecursionUpTo, Zenon
<1>4. \A n \in 0..N : g[n] = IF n = 0 THEN 0 ELSE g[n - 1] + s[n].frames
  <2>1. g \in [0..N -> Int] /\ g[0] = 0 /\ \A n \in 1..N : g[n] = next[<<n, g[n - 1]>>]
    <3> HIDE DEF next
    <3> QED BY <1>3 DEF Recurs
  <2>2. (0..N) = {0} \cup (1..N) /\ 0 \notin 1..N
    BY <1>1
  <2> SUFFICES ASSUME NEW n \in 1..N PROVE g[n] = g[n - 1] + s[n].frames
    BY <2>1, <2>2
  <2>3. n - 1 \in 0..N
    BY <1>1
  <2>4. <<n, g[n - 1]>> \in Nat \X Int
    BY <2>1, <2>3, SMTT(30)
  <2>5. next[<<n, g[n - 1]>>] = g[n - 1] + s[n].frames
    BY <2>4
  <2> QED BY <2>1, <2>5
<1>5. Is(g)
  <2>1. g = [n \in 0..N |-> g[n]]
    BY <1>3 DEF Recurs
  <2> QED BY <1>4, <2>1
<1> DEFINE sum == CHOOSE f : Is(f)
<1>6. Is(sum)
  BY <1>5
<1>7. Total(s) = sum[N]
  BY DEF Total
<1> HIDE DEF sum
<1>8. \A n \in 0..N : sum[n] = IF n = 0 THEN 0 ELSE sum[n - 1] + s[n].frames
  BY <1>6
<1>9. DOMAIN sum = 0..N
  BY <1>6
<1>10. sum \in [0..N -> Int]
  <2> DEFINE P == {n \in Nat : n <= N => sum[n] \in Int}
  <2>1. P \in SUBSET Nat /\ 0 \in P
    BY <1>1, <1>8
  <2>2. ASSUME NEW n \in P PROVE n + 1 \in P
    <3> SUFFICES ASSUME n + 1 <= N PROVE sum[n + 1] \in Int
      OBVIOUS
    <3>1. n + 1 \in 1..N /\ n + 1 \in 0..N /\ (n + 1) - 1 = n /\ n <= N /\ n + 1 # 0
      BY <1>1
    <3>2. sum[n + 1] = sum[n] + s[n + 1].frames
      BY <1>8, <3>1
    <3>3. sum[n] \in Int
      BY <3>1
    <3> QED BY <1>1, <3>1, <3>2, <3>3
  <2>3. \A n \in Nat : n \in P
    <3> HIDE DEF P
    <3> QED BY <2>1, <2>2, Induction
  <2>4. \A n \in 0..N : sum[n] \in Int
    BY <1>1, <2>3
  <2>5. sum = [n \in 0..N |-> sum[n]]
    BY <1>6
  <2> QED BY <2>4, <2>5
<1>11. RunningSums(s, sum)
  <2>1. sum[0] = 0
    BY <1>1, <1>8
  <2>2. \A n \in 1..N : sum[n] = sum[n - 1] + s[n].frames
    BY <1>1, <1>8
  <2> QED BY <1>10, <2>1, <2>2 DEF RunningSums
<1> QED BY <1>7, <1>11

\* The running sums of what two sequences have in common agree.
LEMMA SumsAgree ==
  ASSUME NEW S, NEW s \in Seq(S), NEW t \in Seq(S), \A x \in S : x.frames \in Int,
         NEW f, NEW g, RunningSums(s, f), RunningSums(t, g),
         Len(s) <= Len(t), \A n \in 1..Len(s) : s[n] = t[n]
  PROVE  f[Len(s)] = g[Len(s)]
<1> DEFINE P == {n \in Nat : n <= Len(s) => f[n] = g[n]}
<1>1. P \in SUBSET Nat /\ 0 \in P
  BY DEF RunningSums
<1>2. ASSUME NEW n \in P PROVE n + 1 \in P
  <2> SUFFICES ASSUME n + 1 <= Len(s) PROVE f[n + 1] = g[n + 1]
    OBVIOUS
  <2>1. n + 1 \in 1..Len(s) /\ n + 1 \in 1..Len(t) /\ (n + 1) - 1 = n /\ n <= Len(s)
    OBVIOUS
  <2>2. f[n + 1] = f[n] + s[n + 1].frames /\ g[n + 1] = g[n] + t[n + 1].frames
    BY <2>1 DEF RunningSums
  <2>3. f[n] = g[n] /\ s[n + 1] = t[n + 1]
    BY <2>1
  <2> QED BY <2>2, <2>3
<1>3. \A n \in Nat : n \in P
  <2> HIDE DEF P
  <2> QED BY <1>1, <1>2, Induction
<1> QED BY <1>3

LEMMA TotalAppend ==
  ASSUME NEW S, NEW s \in Seq(S), NEW x \in S, \A y \in S : y.frames \in Int
  PROVE  /\ Total(s) \in Int
         /\ Total(Append(s, x)) = Total(s) + x.frames
<1> DEFINE t == Append(s, x)
<1>1. t \in Seq(S) /\ Len(t) = Len(s) + 1 /\ t[Len(s) + 1] = x
      /\ \A n \in 1..Len(s) : s[n] = t[n]
  OBVIOUS
<1> HIDE DEF t
<1>2. PICK f : RunningSums(s, f) /\ Total(s) = f[Len(s)]
  BY TotalExists
<1>3. PICK g : RunningSums(t, g) /\ Total(t) = g[Len(t)]
  BY <1>1, TotalExists
<1>4. Len(s) \in Nat /\ Len(s) + 1 \in 1..Len(t) /\ Len(s) <= Len(t) /\ (Len(s) + 1) - 1 = Len(s)
  BY <1>1
<1>5. g[Len(s) + 1] = g[Len(s)] + x.frames
  BY <1>1, <1>3, <1>4 DEF RunningSums
<1>6. f[Len(s)] = g[Len(s)]
  BY <1>1, <1>2, <1>3, <1>4, SumsAgree
<1>7. f[Len(s)] \in Int
  BY <1>2, <1>4 DEF RunningSums
<1> QED BY <1>1, <1>2, <1>3, <1>5, <1>6, <1>7 DEF t

LEMMA TotalEmpty == Total(<<>>) = 0
<1>1. PICK f : RunningSums(<<>>, f) /\ Total(<<>>) = f[Len(<<>>)]
  <2>1. <<>> \in Seq(Timed) /\ \A x \in Timed : x.frames \in Int
    BY DEF Timed
  <2> QED BY <2>1, TotalExists
<1> QED BY <1>1 DEF RunningSums

LEMMA AppendOneOrTwo ==
  ASSUME NEW S, NEW s \in Seq(S), NEW x \in S, NEW y \in S
  PROVE  /\ s \o <<x>> = Append(s, x) /\ Append(s, x) \in Seq(S)
         /\ s \o <<x, y>> = Append(Append(s, x), y)
OBVIOUS

-----------------------------------------------------------------------------
(* Time is only moved.                                                     *)

NothingYet == status \in {"notes", "predict"} => lengths = <<>> /\ consonants = <<>>

KeptInv == IInv /\ NothingYet /\ FramesKept

\* The notes and lengths that TotalAppend is about.
LEMMA Timings ==
  /\ \A note \in Notes : note.frames \in Int
  /\ \A length \in Length : length.frames \in Int
BY SongAssumption DEF SongAssumption, NoteType, Length

\* One more note is read into the sum.
LEMMA NoteAdded ==
  ASSUME notes \in Seq(Notes), NEW k \in 1..Len(notes)
  PROVE  /\ Total(SubSeq(notes, 1, k - 1)) \in Int /\ notes[k].frames \in Int
         /\ Total(SubSeq(notes, 1, k)) = Total(SubSeq(notes, 1, k - 1)) + notes[k].frames
<1>1. /\ SubSeq(notes, 1, k - 1) \in Seq(Notes) /\ notes[k] \in Notes
      /\ SubSeq(notes, 1, k) = Append(SubSeq(notes, 1, k - 1), notes[k])
  OBVIOUS
<1> QED BY <1>1, TotalAppend, Timings

\* A step that splits a note takes some time from its last phoneme and gives
\* it to the consonant of the next note.
LEMMA SplitShape ==
  ASSUME IInv, SplitNote
  PROVE  /\ i \in 1..Len(notes) /\ i + 1 \in 1..Len(consonants) /\ consonants # <<>>
         /\ status = "lengths" /\ Len(consonants) = Len(notes)
         /\ \E next \in Int, vowel \in Length, consonant \in Length :
              /\ vowel.of = <<i, LastPart(notes[i])>> /\ vowel.frames = notes[i].frames - next
              /\ consonant.of = <<i + 1, "consonant">> /\ consonant.frames = next
              /\ Forward => next >= 0
              /\ consonants' = [consonants EXCEPT ![i + 1] = next]
              /\ lengths' = IF next > 0 THEN Append(Append(lengths, vowel), consonant)
                                        ELSE Append(lengths, vowel)
<1>1. SongTypeOK /\ OnePerNote
  BY DEF IInv
<1>2. /\ i \in 1..Len(notes) /\ i + 1 \in 1..Len(consonants) /\ Len(consonants) = Len(notes)
      /\ i \in 1..MaxNotes /\ i + 1 \in 1..MaxNotes /\ status = "lengths"
  BY <1>1, SongAssumption, SMTT(30) DEF SplitNote, OnePerNote, SongTypeOK, SongAssumption
<1>3. consonants # <<>> /\ consonants[i + 1] \in Int
  BY <1>1, <1>2 DEF SongTypeOK
<1>4. notes[i].frames \in Int
  BY <1>1, <1>2, NoteAdded DEF SongTypeOK
<1> DEFINE next == Taken(notes[i].frames, consonants[i + 1])
           vowel == [of |-> <<i, LastPart(notes[i])>>, frames |-> notes[i].frames - next]
           consonant == [of |-> <<i + 1, "consonant">>, frames |-> next]
<1>5. next \in Int /\ (Forward => next >= 0)
  BY <1>2, <1>3, <1>4, TakenBounds DEF Forward
<1>6. /\ lengths' = lengths \o IF next > 0 THEN VowelFirst(vowel, consonant) ELSE <<vowel>>
      /\ consonants' = [consonants EXCEPT ![i + 1] = next]
  BY DEF SplitNote
<1> HIDE DEF next
<1>7. /\ vowel \in Length /\ vowel.frames = notes[i].frames - next
      /\ vowel.of = <<i, LastPart(notes[i])>>
      /\ consonant \in Length /\ consonant.frames = next /\ consonant.of = <<i + 1, "consonant">>
  <2>1. <<i + 1, "consonant">> \in Phoneme /\ <<i, LastPart(notes[i])>> \in Phoneme
    BY <1>2, PhonemesOfType DEF Phoneme, Parts
  <2> QED BY <1>4, <1>5, <2>1 DEF Length
<1> HIDE DEF vowel, consonant
<1>8. lengths \in Seq(Length)
  BY <1>1 DEF SongTypeOK
<1>9. lengths' = IF next > 0 THEN Append(Append(lengths, vowel), consonant)
                             ELSE Append(lengths, vowel)
  <2>1. /\ lengths \o <<vowel>> = Append(lengths, vowel)
        /\ lengths \o <<vowel, consonant>> = Append(Append(lengths, vowel), consonant)
    BY <1>7, <1>8, AppendOneOrTwo
  <2> QED BY <1>6, <2>1 DEF VowelFirst
<1> QED BY <1>2, <1>3, <1>5, <1>6, <1>7, <1>9

LEMMA NothingYetStep == ASSUME NothingYet, [SongNext]_songVars PROVE NothingYet'
BY DEF NothingYet, SongNext, AddNote, RejectNote, NotesDone, Predict, RejectFirst,
   SplitNote, LastNote, LengthsDone, RejectLengths, Repeat, Overrun, RepeatDone, Assemble,
   AssembleDone, Throw, songVars

LEMMA KeptStep == ASSUME KeptInv, [SongNext]_songVars PROVE KeptInv'
<1>1. IInv /\ SongTypeOK /\ OnePerNote
  BY DEF KeptInv, IInv
<1>2. NothingYet'
  BY NothingYetStep DEF KeptInv
<1> SUFFICES FramesKept'
  BY <1>2, StepKeeps DEF KeptInv
<1>3. CASE SplitNote
  <2> SUFFICES ASSUME Forward
               PROVE  Total(lengths') = Total(SubSeq(notes, 1, i))
    <3>1. i' - 1 = i /\ notes' = notes /\ Forward' = Forward
      BY <1>1, <1>3 DEF SplitNote, SongTypeOK, Forward
    <3> QED BY <3>1 DEF FramesKept
  <2>1. i \in 1..Len(notes) /\ consonants # <<>> /\ status = "lengths"
    BY <1>1, <1>3, SplitShape
  <2>2. PICK next \in Int, vowel \in Length, consonant \in Length :
          /\ vowel.frames = notes[i].frames - next /\ consonant.frames = next
          /\ next >= 0
          /\ lengths' = IF next > 0 THEN Append(Append(lengths, vowel), consonant)
                                    ELSE Append(lengths, vowel)
    BY <1>1, <1>3, SplitShape
  <2>3. notes[i].frames \in Int
    BY <1>1, <2>1, NoteAdded DEF SongTypeOK
  <2>4. Total(lengths) = Total(SubSeq(notes, 1, i - 1))
    BY <2>1 DEF KeptInv, FramesKept
  <2>5. lengths \in Seq(Length) /\ Append(lengths, vowel) \in Seq(Length)
    BY <1>1, Joined DEF SongTypeOK
  <2>6. /\ Total(lengths) \in Int
        /\ Total(Append(lengths, vowel)) = Total(lengths) + vowel.frames
        /\ Total(Append(Append(lengths, vowel), consonant))
             = Total(Append(lengths, vowel)) + consonant.frames
    BY <2>5, TotalAppend, Timings
  <2>7. Total(lengths') = Total(lengths) + notes[i].frames
    <3>1. CASE next > 0
      BY <2>2, <2>3, <2>6, <3>1
    <3>2. CASE ~(next > 0)
      BY <2>2, <2>3, <2>6, <3>2
    <3> QED BY <3>1, <3>2
  <2> QED BY <1>1, <2>1, <2>4, <2>7, NoteAdded DEF SongTypeOK
<1>4. CASE LastNote
  <2> SUFFICES ASSUME Forward
               PROVE  Total(lengths') = Total(SubSeq(notes, 1, i))
    <3>1. i' - 1 = i /\ notes' = notes /\ Forward' = Forward
      BY <1>1, <1>4 DEF LastNote, SongTypeOK, Forward
    <3> QED BY <3>1 DEF FramesKept
  <2>1. i \in 1..Len(notes) /\ i \in 1..MaxNotes /\ consonants # <<>> /\ status = "lengths"
    BY <1>1, <1>4, SongAssumption DEF LastNote, OnePerNote, SongTypeOK, SongAssumption
  <2> DEFINE vowel == [of |-> <<i, LastPart(notes[i])>>, frames |-> notes[i].frames]
  <2>2. notes[i].frames \in Int
    BY <1>1, <2>1, NoteAdded DEF SongTypeOK
  <2>3. vowel \in Length /\ vowel.frames = notes[i].frames
    <3>1. <<i, LastPart(notes[i])>> \in Phoneme
      BY <2>1, PhonemesOfType
    <3> QED BY <2>2, <3>1 DEF Length
  <2>4. lengths' = Append(lengths, vowel)
    BY <1>4 DEF LastNote
  <2> HIDE DEF vowel
  <2>5. Total(lengths) = Total(SubSeq(notes, 1, i - 1))
    BY <2>1 DEF KeptInv, FramesKept
  <2>6. Total(lengths') = Total(lengths) + notes[i].frames
    BY <1>1, <2>3, <2>4, TotalAppend, Timings DEF SongTypeOK
  <2> QED BY <1>1, <2>1, <2>5, <2>6, NoteAdded DEF SongTypeOK
<1>5. CASE Predict
  <2>1. lengths' = <<>> /\ i' = 1 /\ notes' = notes
    BY <1>5 DEF Predict, KeptInv, NothingYet
  <2>2. SubSeq(notes', 1, i' - 1) = <<>>
    BY <1>1, <2>1 DEF SongTypeOK
  <2>3. Total(lengths') = Total(SubSeq(notes', 1, i' - 1))
    BY <2>1, <2>2
  <2> QED BY <2>3 DEF FramesKept
<1>6. CASE UNCHANGED songVars
  BY <1>6 DEF KeptInv, FramesKept, Forward, songVars
<1>7. CASE AddNote \/ NotesDone
  BY <1>7 DEF AddNote, NotesDone, FramesKept
<1>8. CASE \/ RejectNote \/ RejectFirst \/ LengthsDone \/ RejectLengths
           \/ Repeat \/ Overrun \/ RepeatDone \/ Assemble \/ AssembleDone
  <2>1. status' # "lengths"
    BY <1>8 DEF RejectNote, RejectFirst, LengthsDone, RejectLengths, Repeat, Overrun, RepeatDone,
       Assemble, AssembleDone, Throw
  <2> QED BY <2>1 DEF FramesKept
<1> QED BY <1>3, <1>4, <1>5, <1>6, <1>7, <1>8 DEF SongNext

\* However the core predicts, calc_phoneme_lengths only moves time between
\* neighbours: the lengths last as long as the notes, for scores of any length.
THEOREM TimeIsKept == SongSpec => []FramesKept
<1>1. SongInit => KeptInv
  BY Initially DEF SongInit, KeptInv, NothingYet, FramesKept
<1>2. KeptInv /\ [SongNext]_songVars => KeptInv'
  BY KeptStep
<1>3. KeptInv => FramesKept
  BY DEF KeptInv
<1> QED BY <1>1, <1>2, <1>3, PTL DEF SongSpec

-----------------------------------------------------------------------------
(* Which length belongs to which phoneme.  Both arrays are in the order of  *)
(* the song, so that they agree when they hold the same phonemes.          *)

Rank(x) == 2 * x[1] + (IF x[2] = "consonant" THEN 0 ELSE 1)
Ordered(s) == \A a, b \in 1..Len(s) : a < b => Rank(s[a]) < Rank(s[b])
Elements(s) == {s[j] : j \in 1..Len(s)}
OfLengths(s) == [j \in 1..Len(s) |-> s[j].of]

LEMMA RankType == \A x \in Phoneme : Rank(x) \in Int
BY SongAssumption DEF Rank, Phoneme, SongAssumption

\* One more phoneme at the end.
LEMMA OrderedAppend ==
  ASSUME NEW s \in Seq(Phoneme), NEW x \in Phoneme, Ordered(s),
         \A y \in Elements(s) : Rank(y) < Rank(x)
  PROVE  /\ Append(s, x) \in Seq(Phoneme) /\ Ordered(Append(s, x))
         /\ Elements(Append(s, x)) = Elements(s) \cup {x}
<1> DEFINE t == Append(s, x)
           n == Len(s)
<1>1. /\ t \in Seq(Phoneme) /\ n \in Nat /\ Len(t) = n + 1 /\ t[n + 1] = x
      /\ \A j \in 1..n : t[j] = s[j]
  <2> HIDE DEF Phoneme
  <2> QED OBVIOUS
<1> HIDE DEF t
<1>2. 1..Len(t) = (1..n) \cup {n + 1}
  BY <1>1
<1>3. Elements(t) = Elements(s) \cup {x}
  BY <1>1, <1>2 DEF Elements
<1>4. ASSUME NEW a \in 1..Len(t), NEW b \in 1..Len(t), a < b PROVE Rank(t[a]) < Rank(t[b])
  <2>1. a \in 1..n /\ (b \in 1..n \/ b = n + 1)
    BY <1>1, <1>4
  <2>2. t[a] = s[a] /\ s[a] \in Elements(s)
    BY <1>1, <2>1 DEF Elements
  <2>3. CASE b \in 1..n
    BY <1>1, <1>4, <2>1, <2>2, <2>3 DEF Ordered
  <2>4. CASE b = n + 1
    BY <1>1, <2>2, <2>4
  <2> QED BY <2>1, <2>3, <2>4
<1>5. Ordered(t)
  BY <1>4 DEF Ordered
<1> QED BY <1>1, <1>3, <1>5 DEF t

\* In order and of the same phonemes, one begins like the other.
LEMMA SamePrefix ==
  ASSUME NEW s \in Seq(Phoneme), NEW t \in Seq(Phoneme), Ordered(s), Ordered(t),
         Elements(s) = Elements(t)
  PROVE  Len(s) <= Len(t) /\ \A j \in 1..Len(s) : s[j] = t[j]
<1> DEFINE P == {n \in Nat : n <= Len(s) => n <= Len(t) /\ \A j \in 1..n : s[j] = t[j]}
<1>1. P \in SUBSET Nat /\ 0 \in P
  OBVIOUS
<1>2. ASSUME NEW n \in P PROVE n + 1 \in P
  <2> SUFFICES ASSUME n + 1 <= Len(s)
               PROVE  n + 1 <= Len(t) /\ \A j \in 1..(n + 1) : s[j] = t[j]
    OBVIOUS
  <2>1. n \in Nat /\ n <= Len(t) /\ \A j \in 1..n : s[j] = t[j]
    OBVIOUS
  <2> DEFINE m == n + 1
  <2>2. m \in 1..Len(s) /\ s[m] \in Elements(s)
    BY <2>1 DEF Elements
  <2>3. PICK j \in 1..Len(t) : t[j] = s[m]
    BY <2>2 DEF Elements
  <2>4. Rank(s[m]) \in Int /\ \A a \in 1..Len(t) : Rank(t[a]) \in Int
    BY <2>2, RankType
  <2>5. ~(j <= n)
    <3> SUFFICES ASSUME j <= n PROVE FALSE
      OBVIOUS
    <3>1. j \in 1..Len(s) /\ j < m /\ s[j] = t[j]
      BY <2>1, <2>2
    <3>2. Rank(s[j]) < Rank(s[m])
      BY <2>2, <3>1 DEF Ordered
    <3> QED BY <2>3, <2>4, <3>1, <3>2
  <2>6. m \in 1..Len(t) /\ m <= j
    BY <2>1, <2>5
  <2>7. PICK l \in 1..Len(s) : s[l] = t[m]
    BY <2>6 DEF Elements
  <2>8. ~(l <= n)
    <3> SUFFICES ASSUME l <= n PROVE FALSE
      OBVIOUS
    <3>1. l \in 1..Len(t) /\ l < m /\ s[l] = t[l]
      BY <2>1, <2>6
    <3>2. Rank(t[l]) < Rank(t[m])
      BY <2>6, <3>1 DEF Ordered
    <3> QED BY <2>4, <2>6, <2>7, <3>1, <3>2
  <2>9. l = m \/ j = m
    <3> SUFFICES ASSUME m < l, m < j PROVE FALSE
      BY <2>1, <2>5, <2>8
    <3>1. Rank(s[m]) < Rank(s[l])
      BY <2>2 DEF Ordered
    <3>2. Rank(t[m]) < Rank(t[j])
      BY <2>6 DEF Ordered
    <3> QED BY <2>3, <2>4, <2>6, <2>7, <3>1, <3>2
  <2>10. s[m] = t[m]
    BY <2>3, <2>7, <2>9
  <2>11. \A k \in 1..m : k \in 1..n \/ k = m
    BY <2>1
  <2> QED BY <2>1, <2>6, <2>10, <2>11
<1>3. \A n \in Nat : n \in P
  <2> HIDE DEF P
  <2> QED BY <1>1, <1>2, Induction
<1> QED BY <1>3

LEMMA SameElements ==
  ASSUME NEW s \in Seq(Phoneme), NEW t \in Seq(Phoneme), Ordered(s), Ordered(t)
  PROVE  s = t <=> Elements(s) = Elements(t)
<1> SUFFICES ASSUME Elements(s) = Elements(t) PROVE s = t
  OBVIOUS
<1>1. Len(s) <= Len(t) /\ (\A j \in 1..Len(s) : s[j] = t[j]) /\ Len(t) <= Len(s)
  BY SamePrefix
<1>2. Len(s) = Len(t)
  <2> HIDE DEF Phoneme
  <2>1. Len(s) \in Nat /\ Len(t) \in Nat
    OBVIOUS
  <2> QED BY <1>1, <2>1
<1> QED BY <1>1, <1>2, SeqEqual

\* The phonemes of the first m notes, and those their lengths belong to: the
\* consonant of the next note is among them.
Lasts(m) == {<<k, LastPart(notes[k])>> : k \in 1..m}
SungUpTo(m) ==
  Lasts(m) \cup {<<k, "consonant">> : k \in {j \in 1..m : notes[j].lyric = "mora"}}
TimedUpTo(m) ==
  Lasts(m) \cup {<<k, "consonant">> : k \in {j \in 1..Len(notes) : j <= m + 1 /\ Takes(j)}}

InOrder ==
  /\ Ordered(phonemes) /\ Ordered(OfLengths(lengths))
  /\ status = "notes" => i <= Len(notes) + 1 /\ Elements(phonemes) = SungUpTo(i - 1)
  /\ status \in {"predict", "lengths", "repeat", "assemble", "replied"} =>
       Elements(phonemes) = SungUpTo(Len(notes))
  /\ consonants # <<>> =>
       /\ status = "lengths" =>
            i <= Len(notes) + 1 /\ Elements(OfLengths(lengths)) = TimedUpTo(i - 1)
       /\ status \in {"repeat", "assemble", "replied"} =>
            Elements(OfLengths(lengths)) = TimedUpTo(Len(notes))

OrderInv == IInv /\ NothingYet /\ InOrder

LEMMA RankOf ==
  ASSUME NEW k \in Int
  PROVE  Rank(<<k, "consonant">>) = 2 * k /\ \A note : Rank(<<k, LastPart(note)>>) = 2 * k + 1
BY DEF Rank, LastPart

LEMMA OfAppend ==
  ASSUME NEW s \in Seq(Length), NEW x \in Length
  PROVE  /\ OfLengths(s) \in Seq(Phoneme) /\ x.of \in Phoneme
         /\ OfLengths(Append(s, x)) = Append(OfLengths(s), x.of)
<1>0. \A l \in Length : l.of \in Phoneme
  BY DEF Length
<1>1. x.of \in Phoneme /\ \A j \in 1..Len(s) : s[j].of \in Phoneme
  BY <1>0
<1> HIDE DEF Phoneme
<1>2. OfLengths(s) \in Seq(Phoneme) /\ Len(OfLengths(s)) = Len(s)
  BY <1>1 DEF OfLengths
<1>3. Append(s, x) \in Seq(Length) /\ Len(Append(s, x)) = Len(s) + 1
  OBVIOUS
<1>4. /\ OfLengths(Append(s, x)) \in Seq(Phoneme)
      /\ Len(OfLengths(Append(s, x))) = Len(s) + 1
  <2>1. \A j \in 1..(Len(s) + 1) : Append(s, x)[j].of \in Phoneme
    BY <1>1
  <2> QED BY <1>3, <2>1 DEF OfLengths
<1>5. \A j \in 1..(Len(s) + 1) : OfLengths(Append(s, x))[j] = Append(OfLengths(s), x.of)[j]
  BY <1>2, <1>3 DEF OfLengths
<1>6. /\ Append(OfLengths(s), x.of) \in Seq(Phoneme)
      /\ Len(Append(OfLengths(s), x.of)) = Len(s) + 1
  BY <1>1, <1>2
<1> QED BY <1>1, <1>2, <1>4, <1>5, <1>6, SeqEqual

\* Nothing of the notes so far comes after what is next.
LEMMA BeforeNext ==
  ASSUME NEW m \in Nat
  PROVE  /\ \A y \in SungUpTo(m) : Rank(y) < 2 * (m + 1)
         /\ \A y \in TimedUpTo(m) : Rank(y) < 2 * (m + 1) + 1
<1>1. ASSUME NEW k \in 1..m PROVE Rank(<<k, LastPart(notes[k])>>) < 2 * (m + 1)
  <2>1. k \in Int /\ k <= m
    OBVIOUS
  <2>2. Rank(<<k, LastPart(notes[k])>>) = 2 * k + 1
    BY <2>1, RankOf
  <2> QED BY <2>1, <2>2
<1>2. ASSUME NEW k \in Int, k <= m + 1 PROVE Rank(<<k, "consonant">>) < 2 * (m + 1) + 1
  <2>1. Rank(<<k, "consonant">>) = 2 * k
    BY RankOf
  <2> QED BY <1>2, <2>1
<1>3. ASSUME NEW k \in 1..m PROVE Rank(<<k, "consonant">>) < 2 * (m + 1)
  <2>1. k \in Int /\ k <= m
    OBVIOUS
  <2>2. Rank(<<k, "consonant">>) = 2 * k
    BY <2>1, RankOf
  <2> QED BY <2>1, <2>2
<1>4. \A y \in SungUpTo(m) : Rank(y) < 2 * (m + 1)
  BY <1>1, <1>3 DEF SungUpTo, Lasts
<1>5. \A y \in Lasts(m) : Rank(y) < 2 * (m + 1) + 1
  <2> SUFFICES ASSUME NEW k \in 1..m PROVE Rank(<<k, LastPart(notes[k])>>) < 2 * (m + 1) + 1
    BY DEF Lasts
  <2>1. k \in Int /\ k <= m
    OBVIOUS
  <2>2. Rank(<<k, LastPart(notes[k])>>) = 2 * k + 1
    BY <2>1, RankOf
  <2> QED BY <2>1, <2>2
<1>6. \A y \in TimedUpTo(m) : Rank(y) < 2 * (m + 1) + 1
  BY <1>2, <1>5 DEF TimedUpTo
<1> QED BY <1>4, <1>6

LEMMA AddInOrder == ASSUME OrderInv, AddNote PROVE InOrder'
<1>1. IInv /\ SongTypeOK /\ InOrder
  BY DEF OrderInv, IInv
<1>2. /\ i \in 1..Len(notes) /\ i \in 1..MaxNotes /\ i - 1 \in Nat /\ i \in Int
      /\ status = "notes" /\ (i - 1) + 1 = i
  BY <1>1, SongAssumption DEF SongTypeOK, AddNote, SongAssumption
<1>3. /\ phonemes' = phonemes \o PhonemesOf(i, notes[i]) /\ i' = i + 1
      /\ UNCHANGED <<notes, status, consonants, lengths, frames>>
  BY DEF AddNote
<1>n. PICK n : n = i
  OBVIOUS
<1> DEFINE c == <<n, "consonant">>
           v == <<n, LastPart(notes[n])>>
<1>4. c \in Phoneme /\ v \in Phoneme /\ Rank(c) = 2 * n /\ Rank(v) = 2 * n + 1
  BY <1>2, <1>n, PhonemesOfType, RankOf DEF Phoneme, Parts
<1>5. phonemes \in Seq(Phoneme) /\ Ordered(phonemes) /\ Elements(phonemes) = SungUpTo(n - 1)
  BY <1>1, <1>2, <1>n DEF SongTypeOK, InOrder
<1>6. \A y \in Elements(phonemes) : Rank(y) < Rank(c)
  BY <1>2, <1>4, <1>5, <1>n, BeforeNext
<1>7. \A y \in Elements(phonemes) : Rank(y) < Rank(v) /\ Rank(y) \in Int
  <2>1. \A y \in Elements(phonemes) : y \in Phoneme
    <3> HIDE DEF Phoneme
    <3> QED BY <1>5 DEF Elements
  <2> QED BY <1>2, <1>4, <1>6, <1>n, <2>1, RankType
<1>8. SungUpTo(n)' = SungUpTo(n - 1) \cup {v} \cup
                     (IF notes[n].lyric = "mora" THEN {c} ELSE {})
  <2>1. 1..n = (1..(n - 1)) \cup {n}
    BY <1>2, <1>n
  <2>2. SungUpTo(n)' = SungUpTo(n)
    BY <1>3 DEF SungUpTo, Lasts
  <2>3. Lasts(n) = Lasts(n - 1) \cup {v}
    BY <2>1 DEF Lasts
  <2>4. {<<k, "consonant">> : k \in {j \in 1..n : notes[j].lyric = "mora"}}
          = {<<k, "consonant">> : k \in {j \in 1..(n - 1) : notes[j].lyric = "mora"}} \cup
            (IF notes[n].lyric = "mora" THEN {c} ELSE {})
    <3>1. CASE notes[n].lyric = "mora"
      <4>1. {j \in 1..n : notes[j].lyric = "mora"}
              = {j \in 1..(n - 1) : notes[j].lyric = "mora"} \cup {n}
        BY <2>1, <3>1
      <4> QED BY <3>1, <4>1
    <3>2. CASE notes[n].lyric # "mora"
      <4>1. {j \in 1..n : notes[j].lyric = "mora"} = {j \in 1..(n - 1) : notes[j].lyric = "mora"}
        BY <2>1, <3>2
      <4> QED BY <3>2, <4>1
    <3> QED BY <3>1, <3>2
  <2> HIDE DEF c, v
  <2> QED BY <2>2, <2>3, <2>4 DEF SungUpTo
<1> HIDE DEF Phoneme
<1>9. Ordered(phonemes') /\ Elements(phonemes') = SungUpTo(n)'
  <2>1. CASE notes[n].lyric = "mora"
    <3>1. v = <<n, "vowel">>
      BY <2>1 DEF LastPart
    <3> HIDE DEF c, v
    <3>2. phonemes' = phonemes \o <<c, v>>
      BY <1>3, <1>n, <2>1, <3>1 DEF PhonemesOf, c
    <3>3. phonemes' = Append(Append(phonemes, c), v)
      BY <1>4, <1>5, <3>2, AppendOneOrTwo
    <3>4. /\ Append(phonemes, c) \in Seq(Phoneme) /\ Ordered(Append(phonemes, c))
          /\ Elements(Append(phonemes, c)) = Elements(phonemes) \cup {c}
      BY <1>4, <1>5, <1>6, OrderedAppend
    <3>5. \A y \in Elements(Append(phonemes, c)) : Rank(y) < Rank(v)
      BY <1>2, <1>4, <1>7, <1>n, <3>4
    <3>6. Ordered(phonemes') /\ Elements(phonemes') = Elements(phonemes) \cup {c} \cup {v}
      BY <1>4, <3>3, <3>4, <3>5, OrderedAppend
    <3> QED BY <1>5, <1>8, <2>1, <3>6
  <2>2. CASE notes[n].lyric # "mora"
    <3> HIDE DEF c
    <3>1. phonemes' = phonemes \o <<v>>
      BY <1>3, <1>n, <2>2 DEF PhonemesOf
    <3> HIDE DEF v
    <3>2. phonemes' = Append(phonemes, v)
      BY <1>4, <1>5, <3>1, AppendOneOrTwo
    <3>3. Ordered(phonemes') /\ Elements(phonemes') = Elements(phonemes) \cup {v}
      BY <1>4, <1>5, <1>7, <3>2, OrderedAppend
    <3> QED BY <1>5, <1>8, <2>2, <3>3
  <2> QED BY <2>1, <2>2
<1>10. i' - 1 = n /\ i' <= Len(notes') + 1
  BY <1>1, <1>2, <1>3, <1>n DEF SongTypeOK
<1>11. Elements(phonemes)' = SungUpTo(i - 1)'
  BY <1>9, <1>10 DEF SungUpTo, Lasts, Elements
<1>12. OfLengths(lengths)' = OfLengths(lengths)
  BY <1>3 DEF OfLengths
<1>13. Ordered(phonemes)' /\ Ordered(OfLengths(lengths))'
  BY <1>1, <1>9, <1>12 DEF InOrder
<1>14. status' = "notes" /\ i' <= Len(notes') + 1 /\ UNCHANGED <<consonants, status>>
  BY <1>2, <1>3, <1>10
<1> QED BY <1>11, <1>13, <1>14 DEF InOrder

LEMMA SplitInOrder == ASSUME OrderInv, SplitNote PROVE InOrder'
<1>1. IInv /\ SongTypeOK /\ InOrder
  BY DEF OrderInv, IInv
<1>2. /\ i \in 1..Len(notes) /\ i + 1 \in 1..Len(consonants) /\ consonants # <<>>
      /\ status = "lengths" /\ Len(consonants) = Len(notes)
  BY <1>1, SplitShape
<1>3. PICK next \in Int, vowel \in Length, consonant \in Length :
        /\ vowel.of = <<i, LastPart(notes[i])>> /\ consonant.of = <<i + 1, "consonant">>
        /\ consonants' = [consonants EXCEPT ![i + 1] = next]
        /\ lengths' = IF next > 0 THEN Append(Append(lengths, vowel), consonant)
                                  ELSE Append(lengths, vowel)
  BY <1>1, SplitShape
<1>4. i' = i + 1 /\ UNCHANGED <<notes, status, phonemes>>
  BY DEF SplitNote
<1>n. PICK n \in Nat : n = i /\ n - 1 \in Nat /\ (n - 1) + 1 = n
  BY <1>1, <1>2 DEF SongTypeOK
<1> DEFINE was == OfLengths(lengths)
           v == vowel.of
           c == consonant.of
<1>5. Rank(v) = 2 * n + 1 /\ Rank(c) = 2 * (n + 1) /\ v \in Phoneme /\ c \in Phoneme
  <2>1. n \in Int /\ n + 1 \in Int
    BY <1>n
  <2>2. v \in Phoneme /\ c \in Phoneme
    BY OfAppend, <1>1 DEF SongTypeOK
  <2> QED BY <1>3, <1>n, <2>1, <2>2, RankOf
<1>6. was \in Seq(Phoneme) /\ Ordered(was) /\ Elements(was) = TimedUpTo(n - 1)
  BY <1>1, <1>2, <1>n, OfAppend DEF InOrder, SongTypeOK
<1>7. \A y \in Elements(was) : Rank(y) < Rank(v)
  BY <1>5, <1>6, <1>n, BeforeNext
<1>8. OfLengths(lengths') = IF next > 0 THEN Append(Append(was, v), c) ELSE Append(was, v)
  <2>1. lengths \in Seq(Length) /\ Append(lengths, vowel) \in Seq(Length)
    BY <1>1, Joined DEF SongTypeOK
  <2> QED BY <1>3, <2>1, OfAppend
<1> HIDE DEF was, v, c
<1>9. /\ Append(was, v) \in Seq(Phoneme) /\ Ordered(Append(was, v))
      /\ Elements(Append(was, v)) = Elements(was) \cup {v}
  BY <1>5, <1>6, <1>7, OrderedAppend
<1>10. \A y \in Elements(Append(was, v)) : Rank(y) < Rank(c)
  <2>1. \A y \in Elements(was) : Rank(y) \in Int
    <3>1. \A y \in Elements(was) : y \in Phoneme
      <4> HIDE DEF Phoneme
      <4> QED BY <1>6 DEF Elements
    <3> QED BY <3>1, RankType
  <2> QED BY <1>5, <1>7, <1>9, <1>n, <2>1
<1>11. /\ Ordered(OfLengths(lengths'))
       /\ Elements(OfLengths(lengths')) = TimedUpTo(n - 1) \cup {v}
                                            \cup (IF next > 0 THEN {c} ELSE {})
  <2>1. CASE next > 0
    BY <1>5, <1>6, <1>8, <1>9, <1>10, <2>1, OrderedAppend, ZenonT(50)
  <2>2. CASE ~(next > 0)
    BY <1>6, <1>8, <1>9, <2>2
  <2> QED BY <2>1, <2>2
<1>12. TimedUpTo(n)' = TimedUpTo(n - 1) \cup {v} \cup (IF next > 0 THEN {c} ELSE {})
  <2> DEFINE J == {j \in 1..Len(notes) : j <= n /\ Takes(j)}
             K == {j \in 1..Len(notes) : j <= n + 1 /\ Takes(j)'}
  <2>1. \A j \in 1..Len(notes) : j <= n => (Takes(j)' <=> Takes(j))
    BY <1>1, <1>2, <1>3, <1>n, SMTT(30) DEF Takes, SongTypeOK
  <2>2. n + 1 \in 1..Len(notes) /\ (Takes(n + 1)' <=> next > 0)
    BY <1>1, <1>2, <1>3, <1>n DEF Takes, SongTypeOK
  <2>3. \A j \in 1..Len(notes) : j <= n + 1 <=> (j <= n \/ j = n + 1)
    BY <1>n
  <2>4. K = J \cup (IF next > 0 THEN {n + 1} ELSE {})
    <3>1. CASE next > 0
      BY <2>1, <2>2, <2>3, <3>1
    <3>2. CASE ~(next > 0)
      BY <2>1, <2>2, <2>3, <3>2
    <3> QED BY <3>1, <3>2
  <2>5. Lasts(n)' = Lasts(n - 1) \cup {v}
    <3>1. 1..n = (1..(n - 1)) \cup {n}
      BY <1>2, <1>n
    <3>2. Lasts(n)' = {<<k, LastPart(notes[k])>> : k \in 1..n}
      BY <1>4 DEF Lasts
    <3> QED BY <1>3, <1>n, <3>1, <3>2 DEF Lasts, v
  <2>6. TimedUpTo(n)' = Lasts(n)' \cup {<<k, "consonant">> : k \in K}
    BY <1>4 DEF TimedUpTo
  <2>7. TimedUpTo(n - 1) = Lasts(n - 1) \cup {<<k, "consonant">> : k \in J}
    BY <1>n DEF TimedUpTo
  <2>8. c = <<n + 1, "consonant">>
    BY <1>3, <1>n DEF c
  <2> HIDE DEF J, K
  <2>9. {<<k, "consonant">> : k \in K}
          = {<<k, "consonant">> : k \in J} \cup (IF next > 0 THEN {c} ELSE {})
    <3>1. CASE next > 0
      <4>1. K = J \cup {n + 1}
        BY <2>4, <3>1
      <4> QED BY <2>8, <3>1, <4>1
    <3>2. CASE ~(next > 0)
      BY <2>4, <3>2
    <3> QED BY <3>1, <3>2
  <2> QED BY <2>5, <2>6, <2>7, <2>9
<1>13. i' - 1 = n /\ i' <= Len(notes') + 1
  BY <1>1, <1>2, <1>4, <1>n DEF SongTypeOK
<1>14. Elements(OfLengths(lengths))' = TimedUpTo(i - 1)'
  BY <1>11, <1>12, <1>13 DEF TimedUpTo, Lasts, Elements, OfLengths
<1>15. Ordered(phonemes)' /\ Ordered(OfLengths(lengths))'
  BY <1>1, <1>4, <1>11 DEF InOrder, Ordered, OfLengths
<1>16. Elements(phonemes)' = SungUpTo(Len(notes))'
  BY <1>1, <1>2, <1>4 DEF InOrder, Elements, SungUpTo, Lasts
<1>17. status' = "lengths"
  BY <1>2, <1>4
<1> QED BY <1>13, <1>14, <1>15, <1>16, <1>17 DEF InOrder

LEMMA LastInOrder == ASSUME OrderInv, LastNote PROVE InOrder'
<1>1. IInv /\ SongTypeOK /\ OnePerNote /\ InOrder
  BY DEF OrderInv, IInv
<1>2. /\ i \in 1..Len(notes) /\ i \in 1..MaxNotes /\ consonants # <<>>
      /\ status = "lengths" /\ i = Len(notes)
  BY <1>1, SongAssumption DEF LastNote, OnePerNote, SongTypeOK, SongAssumption
<1>3. i' = i + 1 /\ UNCHANGED <<notes, status, phonemes, consonants>>
  BY DEF LastNote
<1>n. PICK n \in Nat : n = i /\ n - 1 \in Nat /\ (n - 1) + 1 = n
  <2>1. i \in Nat /\ i - 1 \in Nat /\ (i - 1) + 1 = i
    BY <1>1 DEF SongTypeOK
  <2> QED BY <2>1
<1> DEFINE was == OfLengths(lengths)
           v == <<n, LastPart(notes[n])>>
           new == [of |-> v, frames |-> notes[n].frames]
<1>4. new \in Length /\ new.of = v /\ v \in Phoneme /\ Rank(v) = 2 * n + 1
  <2>1. v \in Phoneme
    BY <1>2, <1>n, PhonemesOfType
  <2>2. notes[n].frames \in Int
    BY <1>1, <1>2, <1>n, NoteAdded DEF SongTypeOK
  <2>3. n \in Int
    BY <1>n
  <2> QED BY <2>1, <2>2, <2>3, RankOf DEF Length
<1>5. lengths' = Append(lengths, new)
  BY <1>n DEF LastNote
<1> HIDE DEF v, new
<1>6. was \in Seq(Phoneme) /\ Ordered(was) /\ Elements(was) = TimedUpTo(n - 1)
  BY <1>1, <1>2, <1>4, <1>n, OfAppend DEF InOrder, SongTypeOK
<1>7. \A y \in Elements(was) : Rank(y) < Rank(v)
  BY <1>4, <1>6, <1>n, BeforeNext
<1>8. OfLengths(lengths') = Append(was, v)
  BY <1>1, <1>4, <1>5, OfAppend DEF SongTypeOK
<1> HIDE DEF was
<1>9. Ordered(OfLengths(lengths')) /\ Elements(OfLengths(lengths')) = TimedUpTo(n - 1) \cup {v}
  BY <1>4, <1>6, <1>7, <1>8, OrderedAppend
<1>10. TimedUpTo(n)' = TimedUpTo(n - 1) \cup {v}
  <2>1. 1..n = (1..(n - 1)) \cup {n}
    BY <1>2, <1>n
  <2>2. Lasts(n) = Lasts(n - 1) \cup {v}
    BY <2>1 DEF Lasts, v
  <2>3. \A j \in 1..Len(notes) : j <= n + 1 /\ j <= (n - 1) + 1
    BY <1>1, <1>2, <1>n DEF SongTypeOK
  <2>4. {j \in 1..Len(notes) : j <= n + 1 /\ Takes(j)}
          = {j \in 1..Len(notes) : j <= (n - 1) + 1 /\ Takes(j)}
    BY <2>3
  <2>5. TimedUpTo(n)' = TimedUpTo(n)
    BY <1>3 DEF TimedUpTo, Lasts, Takes
  <2> QED BY <2>2, <2>4, <2>5 DEF TimedUpTo
<1>11. i' - 1 = n /\ i' <= Len(notes') + 1
  BY <1>1, <1>2, <1>3, <1>n DEF SongTypeOK
<1>12. Elements(OfLengths(lengths))' = TimedUpTo(i - 1)'
  BY <1>9, <1>10, <1>11 DEF TimedUpTo, Lasts, Takes, Elements, OfLengths
<1>13. Ordered(phonemes)' /\ Ordered(OfLengths(lengths))'
  BY <1>1, <1>3, <1>9 DEF InOrder, Ordered, OfLengths
<1>14. Elements(phonemes)' = SungUpTo(Len(notes))'
  BY <1>1, <1>2, <1>3 DEF InOrder, Elements, SungUpTo, Lasts
<1>15. status' = "lengths"
  BY <1>2, <1>3
<1> QED BY <1>11, <1>12, <1>13, <1>14, <1>15 DEF InOrder

LEMMA PredictInOrder == ASSUME OrderInv, Predict PROVE InOrder'
<1>1. IInv /\ SongTypeOK /\ InOrder /\ lengths = <<>>
  BY DEF OrderInv, IInv, NothingYet, Predict
<1>2. status' = "lengths" /\ i' = 1 /\ UNCHANGED <<notes, phonemes, lengths>>
  BY DEF Predict
<1>3. Elements(OfLengths(lengths))' = {}
  BY <1>1, <1>2 DEF Elements, OfLengths
<1>4. TimedUpTo(0)' = {}
  <2>1. {j \in 1..Len(notes) : j <= 0 + 1 /\ Takes(j)}' = {}
    BY <1>1, <1>2 DEF Takes, SongTypeOK
  <2> QED BY <2>1 DEF TimedUpTo, Lasts
<1>5. i' - 1 = 0 /\ i' <= Len(notes') + 1
  BY <1>1, <1>2 DEF SongTypeOK
<1>6. Elements(OfLengths(lengths))' = TimedUpTo(i - 1)'
  BY <1>3, <1>4, <1>5 DEF TimedUpTo, Lasts, Takes
<1>7. Ordered(phonemes)' /\ Ordered(OfLengths(lengths))'
  BY <1>1, <1>2 DEF InOrder, Ordered, OfLengths
<1>8. Elements(phonemes)' = SungUpTo(Len(notes))'
  BY <1>1, <1>2 DEF InOrder, Elements, SungUpTo, Lasts, Predict
<1> QED BY <1>2, <1>5, <1>6, <1>7, <1>8 DEF InOrder

\* The steps that leave the arrays alone.
LEMMA OthersInOrder ==
  ASSUME OrderInv, UNCHANGED <<notes, phonemes, consonants, lengths>>,
         \/ NotesDone \/ LengthsDone \/ Throw \/ UNCHANGED <<status, i>>
         \/ status' = "overrun"
         \/ status \in {"repeat", "assemble"} /\ status' \in {"repeat", "assemble", "replied"}
  PROVE  InOrder'
<1>1. SongTypeOK /\ OnePerNote /\ InOrder
  BY DEF OrderInv, IInv
<1>2. \A m : SungUpTo(m)' = SungUpTo(m) /\ TimedUpTo(m)' = TimedUpTo(m)
  BY DEF SungUpTo, TimedUpTo, Lasts, Takes
<1>3. /\ Elements(phonemes)' = Elements(phonemes) /\ Ordered(phonemes)' = Ordered(phonemes)
      /\ Elements(OfLengths(lengths))' = Elements(OfLengths(lengths))
      /\ Ordered(OfLengths(lengths))' = Ordered(OfLengths(lengths))
  BY DEF Elements, Ordered, OfLengths
<1>4. SungUpTo(Len(notes))' = SungUpTo(Len(notes)) /\ TimedUpTo(Len(notes))' = TimedUpTo(Len(notes))
  BY DEF SungUpTo, TimedUpTo, Lasts, Takes
<1>5. CASE NotesDone
  <2>1. i - 1 = Len(notes) /\ status = "notes" /\ status' = "predict"
    BY <1>1, <1>5 DEF NotesDone, InOrder, SongTypeOK
  <2>2. Elements(phonemes) = SungUpTo(Len(notes))
    BY <1>1, <2>1 DEF InOrder
  <2> QED BY <1>1, <1>3, <1>4, <2>1, <2>2 DEF InOrder
<1>6. CASE LengthsDone
  <2>1. status = "lengths" /\ status' = "repeat"
    BY <1>6 DEF LengthsDone
  <2>2. consonants # <<>> => i - 1 = Len(notes)
    <3>1. consonants # <<>> => Len(consonants) = Len(notes)
      BY <1>1 DEF OnePerNote, SongTypeOK
    <3> QED BY <1>1, <1>6, <2>1, <3>1 DEF LengthsDone, InOrder, SongTypeOK
  <2>3. consonants # <<>> => Elements(OfLengths(lengths)) = TimedUpTo(Len(notes))
    BY <1>1, <2>1, <2>2 DEF InOrder
  <2> QED BY <1>1, <1>3, <1>4, <2>1, <2>3 DEF InOrder
<1>7. CASE Throw \/ status' = "overrun"
  BY <1>1, <1>3, <1>7 DEF Throw, InOrder
<1>8. CASE UNCHANGED <<status, i>>
  <2>1. SungUpTo(i - 1)' = SungUpTo(i - 1) /\ TimedUpTo(i - 1)' = TimedUpTo(i - 1)
    BY <1>8 DEF SungUpTo, TimedUpTo, Lasts, Takes
  <2> QED BY <1>1, <1>3, <1>4, <1>8, <2>1 DEF InOrder
<1>9. CASE status \in {"repeat", "assemble"} /\ status' \in {"repeat", "assemble", "replied"}
  BY <1>1, <1>3, <1>4, <1>9 DEF InOrder
<1> QED BY <1>5, <1>6, <1>7, <1>8, <1>9

LEMMA OrderStep == ASSUME OrderInv, [SongNext]_songVars PROVE OrderInv'
<1>1. IInv' /\ NothingYet'
  BY StepKeeps, NothingYetStep DEF OrderInv
<1>2. CASE NotesDone \/ LengthsDone \/ RejectNote \/ RejectFirst \/ RejectLengths
           \/ UNCHANGED songVars
  <2>1. UNCHANGED <<notes, phonemes, consonants, lengths>>
    BY <1>2 DEF NotesDone, LengthsDone, RejectNote, RejectFirst, RejectLengths, Throw, songVars
  <2>2. NotesDone \/ LengthsDone \/ Throw \/ UNCHANGED <<status, i>>
    BY <1>2 DEF RejectNote, RejectFirst, RejectLengths, songVars
  <2> QED BY <1>1, <2>1, <2>2, OthersInOrder DEF OrderInv
<1>3. CASE Repeat \/ Overrun \/ RepeatDone \/ Assemble \/ AssembleDone
  <2>1. UNCHANGED <<notes, phonemes, consonants, lengths>>
    BY <1>3 DEF Repeat, Overrun, RepeatDone, Assemble, AssembleDone, Throw
  <2>2. \/ Throw \/ status' = "overrun"
        \/ status \in {"repeat", "assemble"} /\ status' \in {"repeat", "assemble", "replied"}
    BY <1>3 DEF Repeat, Overrun, RepeatDone, Assemble, AssembleDone
  <2> QED BY <1>1, <2>1, <2>2, OthersInOrder DEF OrderInv
<1> QED BY <1>1, <1>2, <1>3, AddInOrder, SplitInOrder, LastInOrder, PredictInOrder
        DEF SongNext, OrderInv

\* In order, the arrays hold the same phonemes exactly when the core took time
\* for the notes that have a consonant.
LEMMA InOrderAligned == OrderInv => Aligned
<1> SUFFICES ASSUME OrderInv, status \in {"repeat", "assemble", "replied"}, consonants # <<>>
             PROVE  (phonemes = OfLengths(lengths)) <=>
                    (\A k \in 1..Len(notes) : Takes(k) <=> notes[k].lyric = "mora")
  BY DEF Aligned, OfLengths
<1>1. phonemes \in Seq(Phoneme) /\ OfLengths(lengths) \in Seq(Phoneme) /\ Len(notes) \in Nat
  <2>1. lengths \in Seq(Length) /\ \A l \in Length : l.of \in Phoneme
    BY DEF OrderInv, IInv, SongTypeOK, Length
  <2>2. OfLengths(lengths) \in Seq(Phoneme)
    <3> HIDE DEF Phoneme
    <3> QED BY <2>1 DEF OfLengths
  <2> QED BY <2>2 DEF OrderInv, IInv, SongTypeOK
<1> DEFINE N == Len(notes)
           C == {<<k, "consonant">> : k \in {j \in 1..N : notes[j].lyric = "mora"}}
           D == {<<k, "consonant">> : k \in {j \in 1..N : Takes(j)}}
<1>2. phonemes = OfLengths(lengths) <=> SungUpTo(N) = TimedUpTo(N)
  BY <1>1, SameElements DEF OrderInv, InOrder
<1>3. SungUpTo(N) = Lasts(N) \cup C /\ TimedUpTo(N) = Lasts(N) \cup D
  <2>1. {j \in 1..N : j <= N + 1 /\ Takes(j)} = {j \in 1..N : Takes(j)}
    BY <1>1
  <2> QED BY <2>1 DEF SungUpTo, TimedUpTo
<1>4. \A x \in Lasts(N) : x[2] # "consonant"
  <2>1. \A note : LastPart(note) # "consonant"
    BY DEF LastPart
  <2> QED BY <2>1 DEF Lasts
<1>5. \A x \in C \cup D : x[2] = "consonant"
  OBVIOUS
<1>6. SungUpTo(N) = TimedUpTo(N) <=> C = D
  <2> HIDE DEF C, D
  <2> QED BY <1>3, <1>4, <1>5
<1>7. \A k \in 1..N : (<<k, "consonant">> \in C <=> notes[k].lyric = "mora")
                      /\ (<<k, "consonant">> \in D <=> Takes(k))
  OBVIOUS
<1>8. C = D <=> \A k \in 1..N : <<k, "consonant">> \in C <=> <<k, "consonant">> \in D
  <2>1. \A x \in C \cup D : \E k \in 1..N : x = <<k, "consonant">>
    OBVIOUS
  <2> HIDE DEF C, D
  <2> QED BY <2>1
<1> HIDE DEF C, D
<1> QED BY <1>2, <1>6, <1>7, <1>8

\* The lengths go to the phonemes they were computed for exactly when the core
\* took time for the notes that have a consonant, and for no first note.
THEOREM LengthsAligned == SongSpec => []Aligned
<1>1. SongInit => OrderInv
  <2> SUFFICES ASSUME SongInit PROVE InOrder
    BY Initially DEF SongInit, OrderInv, NothingYet
  <2>1. Len(notes) \in Nat
    BY Initially DEF IInv, SongTypeOK
  <2> QED BY <2>1 DEF SongInit, InOrder, Ordered, OfLengths, Elements, SungUpTo, Lasts
<1>2. OrderInv /\ [SongNext]_songVars => OrderInv'
  BY OrderStep
<1> QED BY <1>1, <1>2, InOrderAligned, PTL DEF SongSpec

-----------------------------------------------------------------------------
(* Phrases, slots and flat moras.                                          *)

Piece(phrase) == IF HasPause(phrase) THEN Append(phrase.moras, phrase.pause) ELSE phrase.moras
Pieces(ps) == [p \in DOMAIN ps |-> Piece(ps[p])]
Size(ps, p) == Len(ps[p].moras) + IF HasPause(ps[p]) THEN 1 ELSE 0

\* The moras of a phrase, with its pause, are those of its slots.
LEMMA PieceShape ==
  ASSUME NEW ps \in Seq(AccentPhrase), NEW p \in 1..Len(ps)
  PROVE  /\ Piece(ps[p]) \in Seq(Mora) /\ Len(Piece(ps[p])) = Size(ps, p)
         /\ Size(ps, p) \in Nat
         /\ ps[p].moras \in Seq(Mora) /\ ps[p].pause \in Mora
         /\ \A k \in 1..Size(ps, p) : Piece(ps[p])[k] = AtSlot(ps, <<p, k>>)
<1>1. PICK ms : ms = ps[p].moras
  OBVIOUS
<1>2. PICK pause : pause = ps[p].pause
  OBVIOUS
<1>3. ps[p] \in AccentPhrase
  OBVIOUS
<1>4. ms \in Seq(Mora) /\ pause \in Mora
  <2> HIDE DEF Mora
  <2> QED BY <1>1, <1>2, <1>3 DEF AccentPhrase
<1> HIDE DEF Mora
<1>5. /\ Len(ms) \in Nat /\ Append(ms, pause) \in Seq(Mora) /\ Len(Append(ms, pause)) = Len(ms) + 1
      /\ \A k \in 1..Len(ms) : Append(ms, pause)[k] = ms[k]
      /\ Append(ms, pause)[Len(ms) + 1] = pause
  BY <1>4
<1>6. \A k : AtSlot(ps, <<p, k>>) = IF k <= Len(ms) THEN ms[k] ELSE pause
  BY <1>1, <1>2 DEF AtSlot
<1>7. CASE HasPause(ps[p])
  <2>1. Piece(ps[p]) = Append(ms, pause) /\ Size(ps, p) = Len(ms) + 1
    BY <1>1, <1>2, <1>7 DEF Piece, Size
  <2>2. ASSUME NEW k \in 1..Size(ps, p) PROVE Piece(ps[p])[k] = AtSlot(ps, <<p, k>>)
    <3>1. k <= Len(ms) \/ k = Len(ms) + 1
      BY <1>5, <2>1
    <3> QED BY <1>5, <1>6, <2>1, <3>1
  <2>3. /\ Piece(ps[p]) \in Seq(Mora) /\ Len(Piece(ps[p])) = Size(ps, p)
        /\ Size(ps, p) \in Nat
    BY <1>5, <2>1
  <2> QED BY <1>1, <1>2, <1>4, <2>2, <2>3
<1>8. CASE ~HasPause(ps[p])
  <2>1. Piece(ps[p]) = ms /\ Size(ps, p) = Len(ms)
    BY <1>1, <1>2, <1>5, <1>8 DEF Piece, Size
  <2> QED BY <1>1, <1>2, <1>4, <1>5, <1>6, <2>1
<1> QED BY <1>7, <1>8

LEMMA PiecesShape ==
  ASSUME NEW ps \in Seq(AccentPhrase)
  PROVE  /\ Pieces(ps) \in Seq(Seq(Mora)) /\ Len(Pieces(ps)) = Len(ps)
         /\ \A p \in 1..Len(ps) : Pieces(ps)[p] = Piece(ps[p])
         /\ Flat(ps) = FlattenSeq(Pieces(ps))
<1>1. \A p \in 1..Len(ps) : Piece(ps[p]) \in Seq(Mora)
  BY PieceShape
<1>2. Len(ps) \in Nat /\ DOMAIN ps = 1..Len(ps)
  OBVIOUS
<1>3. Pieces(ps) \in [1..Len(ps) -> Seq(Mora)]
  BY <1>1, <1>2 DEF Pieces
<1>4. Flat(ps) = FlattenSeq(Pieces(ps))
  BY DEF Flat, Pieces, Piece
<1> QED BY <1>2, <1>3, <1>4 DEF Pieces

LEMMA BeforeIs ==
  ASSUME NEW ps \in Seq(AccentPhrase), NEW p \in 1..(Len(ps) + 1)
  PROVE  Before(ps, p) = Len(Joint(Pieces(ps), p - 1))
<1>1. PICK qs : qs = SubSeq(ps, 1, p - 1)
  OBVIOUS
<1>2. p - 1 \in Nat /\ p - 1 <= Len(ps) /\ Len(ps) \in Nat
      /\ \A k \in 1..(p - 1) : ps[k] \in AccentPhrase
  OBVIOUS
<1>3. qs \in Seq(AccentPhrase) /\ Len(qs) = p - 1 /\ \A k \in 1..(p - 1) : qs[k] = ps[k]
  <2> HIDE DEF AccentPhrase
  <2> QED BY <1>1, <1>2, SubSeqProperties
<1>4. PICK gs : gs = SubSeq(Pieces(ps), 1, p - 1)
  OBVIOUS
<1>5. /\ Pieces(ps) \in Seq(Seq(Mora)) /\ Len(Pieces(ps)) = Len(ps)
      /\ \A k \in 1..Len(ps) : Pieces(ps)[k] = Piece(ps[k])
  BY PiecesShape
<1>6. gs \in Seq(Seq(Mora)) /\ Len(gs) = p - 1 /\ \A k \in 1..(p - 1) : gs[k] = Piece(ps[k])
  <2>1. \A k \in 1..(p - 1) : k \in 1..Len(ps) /\ Pieces(ps)[k] \in Seq(Mora)
    BY <1>2, <1>5
  <2> QED BY <1>2, <1>4, <1>5, <2>1, SubSeqProperties
<1>7. /\ Pieces(qs) \in Seq(Seq(Mora)) /\ Len(Pieces(qs)) = Len(qs)
      /\ \A k \in 1..Len(qs) : Pieces(qs)[k] = Piece(qs[k])
      /\ Flat(qs) = FlattenSeq(Pieces(qs))
  BY <1>3, PiecesShape
<1>8. Pieces(qs) = gs
  <2> HIDE DEF Pieces, Piece
  <2> QED BY <1>3, <1>6, <1>7
<1> QED BY <1>1, <1>4, <1>7, <1>8 DEF Before, Joint

\* The slots of a phrase are where Before says.
LEMMA FlatShape ==
  ASSUME NEW ps \in Seq(AccentPhrase)
  PROVE  /\ Flat(ps) \in Seq(Mora)
         /\ Before(ps, 1) = 0 /\ Before(ps, Len(ps) + 1) = Len(Flat(ps))
         /\ \A p \in 1..(Len(ps) + 1) : Before(ps, p) \in Nat
         /\ \A p \in 1..Len(ps) : Before(ps, p + 1) = Before(ps, p) + Size(ps, p)
         /\ \A p \in 1..Len(ps) : \A k \in 1..Size(ps, p) :
              /\ Before(ps, p) + k \in 1..Len(Flat(ps))
              /\ Flat(ps)[Before(ps, p) + k] = AtSlot(ps, <<p, k>>)
         /\ \A x \in 1..Len(Flat(ps)) :
              \E p \in 1..Len(ps) : \E k \in 1..Size(ps, p) : x = Before(ps, p) + k
<1>1. PICK gs : gs = Pieces(ps)
  OBVIOUS
<1>2. /\ gs \in Seq(Seq(Mora)) /\ Len(gs) = Len(ps) /\ Flat(ps) = FlattenSeq(gs)
      /\ \A p \in 1..Len(ps) : gs[p] = Piece(ps[p])
  BY <1>1, PiecesShape
<1>3. ASSUME NEW p \in 1..Len(ps)
      PROVE  /\ Len(gs[p]) = Size(ps, p) /\ Size(ps, p) \in Nat /\ gs[p] \in Seq(Mora)
             /\ \A k \in 1..Size(ps, p) : gs[p][k] = AtSlot(ps, <<p, k>>)
  BY <1>2, PieceShape
<1> HIDE DEF Mora, AccentPhrase
<1>4. \A p \in 1..(Len(ps) + 1) : Before(ps, p) = Len(Joint(gs, p - 1))
  BY <1>1, BeforeIs
<1>5. /\ \A n \in 0..Len(gs) : Joint(gs, n) \in Seq(Mora)
      /\ Joint(gs, 0) = <<>> /\ Joint(gs, Len(gs)) = FlattenSeq(gs)
      /\ \A n \in 1..Len(gs) : Joint(gs, n) = Joint(gs, n - 1) \o gs[n]
  BY <1>2, JointStep
<1>6. /\ FlattenSeq(gs) \in Seq(Mora)
      /\ \A p \in 1..Len(gs) : \A k \in 1..Len(gs[p]) :
              /\ Len(Joint(gs, p - 1)) + k \in 1..Len(FlattenSeq(gs))
              /\ FlattenSeq(gs)[Len(Joint(gs, p - 1)) + k] = gs[p][k]
      /\ \A x \in 1..Len(FlattenSeq(gs)) :
              \E p \in 1..Len(gs) : \E k \in 1..Len(gs[p]) : x = Len(Joint(gs, p - 1)) + k
  BY <1>2, JointPlaces
<1>7. Len(ps) \in Nat
  OBVIOUS
<1>8. ASSUME NEW p \in 1..(Len(ps) + 1) PROVE Before(ps, p) \in Nat
  <2>1. p - 1 \in 0..Len(gs)
    BY <1>2, <1>7
  <2>2. PICK j \in Seq(Mora) : j = Joint(gs, p - 1)
    BY <1>5, <2>1
  <2> QED BY <1>4, <2>2
<1>9. ASSUME NEW p \in 1..Len(ps) PROVE Before(ps, p + 1) = Before(ps, p) + Size(ps, p)
  <2>1. /\ p - 1 \in 0..Len(gs) /\ p \in 1..Len(gs) /\ (p + 1) - 1 = p
        /\ p \in 1..(Len(ps) + 1) /\ p + 1 \in 1..(Len(ps) + 1)
    BY <1>2, <1>7
  <2>2. PICK j \in Seq(Mora) : j = Joint(gs, p - 1)
    BY <1>5, <2>1
  <2>3. Joint(gs, p) = j \o gs[p]
    BY <1>5, <2>1, <2>2
  <2>4. Len(j \o gs[p]) = Len(j) + Len(gs[p])
    BY <1>3, <2>2
  <2> QED BY <1>3, <1>4, <2>1, <2>2, <2>3, <2>4
<1>10. 1 \in 1..(Len(ps) + 1) /\ Len(ps) + 1 \in 1..(Len(ps) + 1) /\ 1 - 1 = 0
       /\ (Len(ps) + 1) - 1 = Len(ps)
  BY <1>7
<1>11. Before(ps, 1) = 0 /\ Before(ps, Len(ps) + 1) = Len(Flat(ps))
  BY <1>2, <1>4, <1>5, <1>10
<1>12. ASSUME NEW p \in 1..Len(ps), NEW k \in 1..Size(ps, p)
       PROVE  /\ Before(ps, p) + k \in 1..Len(Flat(ps))
              /\ Flat(ps)[Before(ps, p) + k] = AtSlot(ps, <<p, k>>)
  <2>1. p \in 1..Len(gs) /\ k \in 1..Len(gs[p]) /\ p \in 1..(Len(ps) + 1)
    BY <1>2, <1>3, <1>7
  <2> QED BY <1>2, <1>3, <1>4, <1>6, <2>1
<1>13. ASSUME NEW x \in 1..Len(Flat(ps))
       PROVE  \E p \in 1..Len(ps) : \E k \in 1..Size(ps, p) : x = Before(ps, p) + k
  <2>1. PICK p \in 1..Len(gs) : \E k \in 1..Len(gs[p]) : x = Len(Joint(gs, p - 1)) + k
    BY <1>2, <1>6
  <2>2. p \in 1..Len(ps) /\ p \in 1..(Len(ps) + 1) /\ Len(gs[p]) = Size(ps, p)
    BY <1>2, <1>3, <1>7, <2>1
  <2> QED BY <1>4, <2>1, <2>2
<1> QED BY <1>2, <1>6, <1>8, <1>9, <1>11, <1>12, <1>13

\* Slots are counted in the order of the flat moras.
LEMMA SlotsAre ==
  ASSUME NEW ps \in Seq(AccentPhrase), NEW t
  PROVE  t \in Slots(ps) <=> \E p \in 1..Len(ps) : \E k \in 1..Size(ps, p) : t = <<p, k>>
<1>1. DOMAIN ps = 1..Len(ps)
  OBVIOUS
<1> DEFINE Of(p) == {<<p, k>> : k \in 1..Size(ps, p)}
<1>2. Slots(ps) = UNION {Of(p) : p \in 1..Len(ps)}
  BY <1>1 DEF Slots, Size
<1>3. \A p : t \in Of(p) <=> \E k \in 1..Size(ps, p) : t = <<p, k>>
  OBVIOUS
<1> HIDE DEF Of
<1>4. t \in Slots(ps) <=> \E p \in 1..Len(ps) : t \in Of(p)
  BY <1>2, Zenon
<1> QED BY <1>3, <1>4

\* Those of a set of slots that come no later than slot k of phrase p.
Chosen(ps, C, p, k) == UpTo(ps, <<p, k>>) \cap C

LEMMA ChosenStep ==
  ASSUME NEW ps \in Seq(AccentPhrase), NEW C \in SUBSET Slots(ps)
  PROVE  /\ Chosen(ps, C, 1, 0) = {}
         /\ \A p \in 1..Len(ps) : Chosen(ps, C, p + 1, 0) = Chosen(ps, C, p, Size(ps, p))
         /\ \A p \in 1..Len(ps) : \A k \in 1..Size(ps, p) :
              /\ <<p, k>> \notin Chosen(ps, C, p, k - 1)
              /\ Chosen(ps, C, p, k) = IF <<p, k>> \in C THEN Chosen(ps, C, p, k - 1) \cup {<<p, k>>}
                                      ELSE Chosen(ps, C, p, k - 1)
         /\ Chosen(ps, C, Len(ps) + 1, 0) = C
<1>1. \A p, k, t : t \in Chosen(ps, C, p, k) <=>
         t \in C /\ (t[1] < p \/ (t[1] = p /\ t[2] <= k))
  BY DEF Chosen, UpTo
<1>2. Len(ps) \in Nat /\ \A p \in 1..Len(ps) : Size(ps, p) \in Nat
  BY PieceShape
<1>3. \A t \in C : /\ t[1] \in 1..Len(ps) /\ t[2] \in 1..Size(ps, t[1]) /\ t = <<t[1], t[2]>>
  BY SlotsAre
<1>4. Chosen(ps, C, 1, 0) = {}
  <2> SUFFICES ASSUME NEW t \in Chosen(ps, C, 1, 0) PROVE FALSE
    OBVIOUS
  <2> QED BY <1>1, <1>2, <1>3
<1>5. ASSUME NEW p \in 1..Len(ps)
      PROVE  Chosen(ps, C, p + 1, 0) = Chosen(ps, C, p, Size(ps, p))
  <2>1. ASSUME NEW t \in C
        PROVE  (t[1] < p + 1 \/ (t[1] = p + 1 /\ t[2] <= 0)) <=>
               (t[1] < p \/ (t[1] = p /\ t[2] <= Size(ps, p)))
    <3>1. PICK a, b : a = t[1] /\ b = t[2] /\ a \in 1..Len(ps) /\ b \in 1..Size(ps, a)
      BY <1>3
    <3>2. Size(ps, a) \in Nat /\ Size(ps, p) \in Nat /\ a \in Nat /\ b \in Nat /\ b >= 1 /\ p \in Nat
      BY <1>2, <3>1
    <3>3. a = p => b <= Size(ps, p)
      BY <3>1, <3>2
    <3>4. (a < p + 1 \/ (a = p + 1 /\ b <= 0)) <=> (a < p \/ (a = p /\ b <= Size(ps, p)))
      BY <3>2, <3>3
    <3> QED BY <3>1, <3>4
  <2>2. \A t : t \in Chosen(ps, C, p + 1, 0) <=> t \in Chosen(ps, C, p, Size(ps, p))
    BY <1>1, <2>1, Zenon
  <2> QED BY <2>2, Zenon
<1>6. ASSUME NEW p \in 1..Len(ps), NEW k \in 1..Size(ps, p)
      PROVE  /\ <<p, k>> \notin Chosen(ps, C, p, k - 1)
             /\ Chosen(ps, C, p, k) = IF <<p, k>> \in C THEN Chosen(ps, C, p, k - 1) \cup {<<p, k>>}
                                     ELSE Chosen(ps, C, p, k - 1)
  <2>1. k \in Nat /\ p \in Nat
    BY <1>2
  <2>2. <<p, k>> \notin Chosen(ps, C, p, k - 1)
    BY <1>1, <2>1
  <2>3. ASSUME NEW t \in C
        PROVE  (t[1] < p \/ (t[1] = p /\ t[2] <= k)) <=>
               (t[1] < p \/ (t[1] = p /\ t[2] <= k - 1) \/ t = <<p, k>>)
    <3>1. PICK a, b : t = <<a, b>> /\ a = t[1] /\ b = t[2] /\ a \in 1..Len(ps) /\ b \in 1..Size(ps, a)
      BY <1>3
    <3>2. a \in Nat /\ b \in Nat
      BY <1>2, <3>1
    <3>3. t = <<p, k>> <=> a = p /\ b = k
      BY <3>1
    <3> QED BY <2>1, <3>1, <3>2, <3>3
  <2>4. ASSUME NEW t
        PROVE  t \in Chosen(ps, C, p, k) <=>
                 t \in Chosen(ps, C, p, k - 1) \/ (t \in C /\ t = <<p, k>>)
    BY <1>1, <2>3, Zenon
  <2>5. CASE <<p, k>> \in C
    <3>1. Chosen(ps, C, p, k) = Chosen(ps, C, p, k - 1) \cup {<<p, k>>}
      BY <2>4, <2>5, Zenon
    <3> QED BY <2>2, <2>5, <3>1
  <2>6. CASE <<p, k>> \notin C
    <3>1. Chosen(ps, C, p, k) = Chosen(ps, C, p, k - 1)
      BY <2>4, <2>6, Zenon
    <3> QED BY <2>2, <2>6, <3>1
  <2> QED BY <2>5, <2>6
<1>7. Chosen(ps, C, Len(ps) + 1, 0) = C
  <2>1. ASSUME NEW t \in C PROVE t[1] < Len(ps) + 1
    BY <1>2, <1>3, <2>1
  <2> QED BY <1>1, <2>1
<1> QED BY <1>4, <1>5, <1>6, <1>7

\* A count that grows by one at the slots of C is how many there are.
Counts(ps, C, f) ==
  /\ f \in [0..Len(Flat(ps)) -> Nat] /\ f[0] = 0
  /\ \A p \in 1..Len(ps) : \A k \in 1..Size(ps, p) :
       f[Before(ps, p) + k] = f[Before(ps, p) + k - 1] + (IF <<p, k>> \in C THEN 1 ELSE 0)

LEMMA Counted ==
  ASSUME NEW ps \in Seq(AccentPhrase), NEW C \in SUBSET Slots(ps), NEW f, Counts(ps, C, f)
  PROVE  /\ \A p \in 1..Len(ps) : \A k \in 0..Size(ps, p) :
              Cardinality(Chosen(ps, C, p, k)) = f[Before(ps, p) + k]
         /\ Cardinality(C) = f[Len(Flat(ps))]
<1> DEFINE Is(p, k) == /\ IsFiniteSet(Chosen(ps, C, p, k))
                       /\ Cardinality(Chosen(ps, C, p, k)) = f[Before(ps, p) + k]
<1>1. /\ Flat(ps) \in Seq(Mora)
      /\ Before(ps, 1) = 0 /\ Before(ps, Len(ps) + 1) = Len(Flat(ps))
      /\ \A p \in 1..(Len(ps) + 1) : Before(ps, p) \in Nat
      /\ \A p \in 1..Len(ps) : Before(ps, p + 1) = Before(ps, p) + Size(ps, p)
      /\ \A p \in 1..Len(ps) : \A k \in 1..Size(ps, p) : Before(ps, p) + k \in 1..Len(Flat(ps))
  BY FlatShape
<1>2. Len(ps) \in Nat /\ \A p \in 1..Len(ps) : Size(ps, p) \in Nat
  BY PieceShape
<1>3. /\ Chosen(ps, C, 1, 0) = {}
      /\ \A p \in 1..Len(ps) : Chosen(ps, C, p + 1, 0) = Chosen(ps, C, p, Size(ps, p))
      /\ \A p \in 1..Len(ps) : \A k \in 1..Size(ps, p) :
              /\ <<p, k>> \notin Chosen(ps, C, p, k - 1)
              /\ Chosen(ps, C, p, k) = IF <<p, k>> \in C THEN Chosen(ps, C, p, k - 1) \cup {<<p, k>>}
                                      ELSE Chosen(ps, C, p, k - 1)
      /\ Chosen(ps, C, Len(ps) + 1, 0) = C
  BY ChosenStep
<1> HIDE DEF Mora, AccentPhrase
<1>4. Len(Flat(ps)) \in Nat
  BY <1>1
<1>5. ASSUME NEW p \in 1..Len(ps), Is(p, 0) PROVE \A k \in 0..Size(ps, p) : Is(p, k)
  <2> DEFINE P == {k \in Nat : k <= Size(ps, p) => Is(p, k)}
  <2>1. P \in SUBSET Nat /\ 0 \in P
    BY <1>5
  <2>2. ASSUME NEW k \in P PROVE k + 1 \in P
    <3> SUFFICES ASSUME k + 1 <= Size(ps, p) PROVE Is(p, k + 1)
      OBVIOUS
    <3>1. k \in Nat /\ k + 1 \in 1..Size(ps, p) /\ (k + 1) - 1 = k /\ k <= Size(ps, p)
      BY <1>2
    <3>2. PICK b : b = Before(ps, p) /\ b \in Nat
      <4>1. p \in 1..(Len(ps) + 1)
        BY <1>2
      <4> QED BY <1>1, <4>1
    <3>3. PICK V : V = Chosen(ps, C, p, k)
      OBVIOUS
    <3>4. IsFiniteSet(V) /\ Cardinality(V) = f[b + k] /\ <<p, k + 1>> \notin V
      BY <1>3, <3>1, <3>2, <3>3
    <3>5. f[b + (k + 1)] = f[b + k] + (IF <<p, k + 1>> \in C THEN 1 ELSE 0)
      <4>1. f[b + (k + 1)] = f[b + (k + 1) - 1] + (IF <<p, k + 1>> \in C THEN 1 ELSE 0)
        BY <3>1, <3>2 DEF Counts
      <4>2. b + (k + 1) - 1 = b + k
        BY <3>1, <3>2
      <4> QED BY <4>1, <4>2
    <3>6. f[b + k] \in Nat
      <4>1. b + (k + 1) \in 1..Len(Flat(ps))
        BY <1>1, <3>1, <3>2
      <4>2. b + k \in 0..Len(Flat(ps))
        BY <1>4, <3>1, <3>2, <4>1
      <4> QED BY <4>2 DEF Counts
    <3>7. Chosen(ps, C, p, k + 1) = IF <<p, k + 1>> \in C THEN V \cup {<<p, k + 1>>} ELSE V
      BY <1>3, <3>1, <3>3
    <3>8. CASE <<p, k + 1>> \in C
      <4>1. IsFiniteSet(V \cup {<<p, k + 1>>}) /\ Cardinality(V \cup {<<p, k + 1>>}) = Cardinality(V) + 1
        BY <3>4, FS_AddElement
      <4> QED BY <3>2, <3>4, <3>5, <3>7, <3>8, <4>1
    <3>9. CASE <<p, k + 1>> \notin C
      BY <3>2, <3>4, <3>5, <3>6, <3>7, <3>9
    <3> QED BY <3>8, <3>9
  <2>3. \A k \in Nat : k \in P
    <3> HIDE DEF P
    <3> QED BY <2>1, <2>2, Induction
  <2> QED BY <1>2, <2>3
<1> DEFINE Q == {n \in Nat : n <= Len(ps) => Is(n + 1, 0)}
<1>6. 0 \in Q
  <2>1. Before(ps, 0 + 1) + 0 = 0 /\ Chosen(ps, C, 0 + 1, 0) = {}
    BY <1>1, <1>3
  <2>2. f[0] = 0
    BY DEF Counts
  <2> QED BY <2>1, <2>2, FS_EmptySet
<1>7. ASSUME NEW n \in Q PROVE n + 1 \in Q
  <2> SUFFICES ASSUME n + 1 <= Len(ps) PROVE Is((n + 1) + 1, 0)
    OBVIOUS
  <2>1. n + 1 \in 1..Len(ps) /\ Is(n + 1, 0)
    BY <1>2
  <2>2. Size(ps, n + 1) \in Nat
    BY <1>2, <2>1
  <2>3. Size(ps, n + 1) \in 0..Size(ps, n + 1)
    BY <2>2
  <2>4. Is(n + 1, Size(ps, n + 1))
    <3> HIDE DEF Is
    <3> QED BY <1>5, <2>1, <2>3
  <2>5. Before(ps, (n + 1) + 1) + 0 = Before(ps, n + 1) + Size(ps, n + 1)
    <3>1. n + 1 \in 1..(Len(ps) + 1)
      BY <1>2, <2>1
    <3> QED BY <1>1, <2>1, <2>2, <3>1
  <2> QED BY <1>3, <2>1, <2>4, <2>5
<1>8. \A n \in Nat : n \in Q
  <2>1. Q \in SUBSET Nat
    OBVIOUS
  <2> HIDE DEF Q
  <2> QED BY <1>6, <1>7, <2>1, Induction
<1>9. ASSUME NEW p \in 1..Len(ps) PROVE Is(p, 0)
  <2>1. p - 1 \in Nat /\ (p - 1) + 1 = p /\ p - 1 <= Len(ps)
    BY <1>2
  <2> HIDE DEF Is
  <2> QED BY <1>8, <2>1
<1>10. Is(Len(ps) + 1, 0)
  BY <1>2, <1>8
<1>11. Cardinality(C) = f[Len(Flat(ps))]
  <2>1. Before(ps, Len(ps) + 1) + 0 = Len(Flat(ps))
    BY <1>1, <1>4
  <2> QED BY <1>3, <1>10, <2>1
<1> QED BY <1>5, <1>9, <1>11

\* No phrase begins behind the flat moras.
LEMMA BeforeBound ==
  ASSUME NEW ps \in Seq(AccentPhrase), NEW p \in 1..(Len(ps) + 1)
  PROVE  Before(ps, p) <= Len(Flat(ps))
<1> DEFINE P == {n \in Nat : n <= Len(ps) => Before(ps, (Len(ps) + 1) - n) <= Len(Flat(ps))}
<1>1. /\ Flat(ps) \in Seq(Mora) /\ Before(ps, Len(ps) + 1) = Len(Flat(ps))
      /\ \A q \in 1..(Len(ps) + 1) : Before(ps, q) \in Nat
      /\ \A q \in 1..Len(ps) : Before(ps, q + 1) = Before(ps, q) + Size(ps, q)
  BY FlatShape
<1>2. Len(ps) \in Nat /\ \A q \in 1..Len(ps) : Size(ps, q) \in Nat
  BY PieceShape
<1> HIDE DEF Mora, AccentPhrase
<1>3. Len(Flat(ps)) \in Nat
  BY <1>1
<1>4. P \in SUBSET Nat /\ 0 \in P
  <2>1. (Len(ps) + 1) - 0 = Len(ps) + 1
    BY <1>2
  <2> QED BY <1>1, <1>3, <2>1
<1>5. ASSUME NEW n \in P PROVE n + 1 \in P
  <2> SUFFICES ASSUME n + 1 <= Len(ps)
               PROVE  Before(ps, (Len(ps) + 1) - (n + 1)) <= Len(Flat(ps))
    OBVIOUS
  <2>1. PICK q : q = Len(ps) - n
    OBVIOUS
  <2>2. /\ q \in 1..Len(ps) /\ (Len(ps) + 1) - (n + 1) = q /\ (Len(ps) + 1) - n = q + 1
        /\ q \in 1..(Len(ps) + 1) /\ q + 1 \in 1..(Len(ps) + 1) /\ n <= Len(ps)
    BY <1>2, <2>1
  <2>3. Before(ps, q + 1) <= Len(Flat(ps))
    BY <2>2
  <2>4. PICK b \in Nat : b = Before(ps, q)
    BY <1>1, <2>2
  <2>5. Before(ps, q + 1) = b + Size(ps, q) /\ Size(ps, q) \in Nat
    BY <1>1, <1>2, <2>2, <2>4
  <2>6. b <= Len(Flat(ps))
    BY <1>3, <2>3, <2>5
  <2> QED BY <2>2, <2>4, <2>6
<1>6. \A n \in Nat : n \in P
  <2> HIDE DEF P
  <2> QED BY <1>4, <1>5, Induction
<1>7. (Len(ps) + 1) - p \in Nat /\ (Len(ps) + 1) - p <= Len(ps)
        /\ (Len(ps) + 1) - ((Len(ps) + 1) - p) = p
  BY <1>2
<1> QED BY <1>6, <1>7

LEMMA Places ==
  ASSUME NEW ps \in Seq(AccentPhrase)
  PROVE  /\ \A p \in 1..Len(ps) : \A k \in 0..Size(ps, p) :
              PlaceOf(ps, <<p, k>>) = Before(ps, p) + k
         /\ Cardinality(Slots(ps)) = Len(Flat(ps))
<1> DEFINE f == [m \in 0..Len(Flat(ps)) |-> m]
<1>1. /\ Flat(ps) \in Seq(Mora)
      /\ \A p \in 1..(Len(ps) + 1) : Before(ps, p) \in Nat
      /\ \A p \in 1..Len(ps) : Before(ps, p + 1) = Before(ps, p) + Size(ps, p)
      /\ \A p \in 1..Len(ps) : \A k \in 1..Size(ps, p) : Before(ps, p) + k \in 1..Len(Flat(ps))
  BY FlatShape
<1>2. Len(ps) \in Nat /\ \A p \in 1..Len(ps) : Size(ps, p) \in Nat
  BY PieceShape
<1> HIDE DEF Mora, AccentPhrase
<1>3. Len(Flat(ps)) \in Nat
  BY <1>1
<1>4. ASSUME NEW p \in 1..Len(ps), NEW k \in 1..Size(ps, p)
      PROVE  /\ Before(ps, p) + k - 1 \in 0..Len(Flat(ps)) /\ Before(ps, p) + k \in 0..Len(Flat(ps))
             /\ Before(ps, p) + k = Before(ps, p) + k - 1 + 1 /\ <<p, k>> \in Slots(ps)
  <2>1. p \in 1..(Len(ps) + 1) /\ k \in Nat
    BY <1>2
  <2>2. <<p, k>> \in Slots(ps)
    BY SlotsAre
  <2>3. Before(ps, p) \in Nat /\ Before(ps, p) + k \in 1..Len(Flat(ps))
    BY <1>1, <2>1
  <2> QED BY <1>3, <2>1, <2>2, <2>3
<1>5. Counts(ps, Slots(ps), f)
  <2>1. f \in [0..Len(Flat(ps)) -> Nat] /\ f[0] = 0
    BY <1>3
  <2>2. ASSUME NEW p \in 1..Len(ps), NEW k \in 1..Size(ps, p)
        PROVE  f[Before(ps, p) + k] = f[Before(ps, p) + k - 1] + (IF <<p, k>> \in Slots(ps) THEN 1 ELSE 0)
    BY <1>4
  <2> HIDE DEF f
  <2> QED BY <2>1, <2>2 DEF Counts
<1> HIDE DEF f
<1>6. /\ \A p \in 1..Len(ps) : \A k \in 0..Size(ps, p) :
           Cardinality(Chosen(ps, Slots(ps), p, k)) = f[Before(ps, p) + k]
      /\ Cardinality(Slots(ps)) = f[Len(Flat(ps))]
  BY <1>5, Counted
<1>7. \A m \in 0..Len(Flat(ps)) : f[m] = m
  BY DEF f
<1>8. ASSUME NEW p \in 1..Len(ps), NEW k \in 0..Size(ps, p)
      PROVE  PlaceOf(ps, <<p, k>>) = Before(ps, p) + k
  <2>1. UpTo(ps, <<p, k>>) = Chosen(ps, Slots(ps), p, k)
    BY DEF UpTo, Chosen
  <2>2. Before(ps, p) + k \in 0..Len(Flat(ps))
    <3>1. p \in 1..(Len(ps) + 1) /\ p + 1 \in 1..(Len(ps) + 1) /\ k \in Nat /\ k <= Size(ps, p)
      BY <1>2
    <3>2. /\ Before(ps, p) \in Nat /\ Before(ps, p + 1) = Before(ps, p) + Size(ps, p)
          /\ Before(ps, p + 1) <= Len(Flat(ps)) /\ Size(ps, p) \in Nat
      BY <1>1, <1>2, <3>1, BeforeBound
    <3> QED BY <1>3, <3>1, <3>2
  <2> QED BY <1>6, <1>7, <2>1, <2>2 DEF PlaceOf
<1>9. Cardinality(Slots(ps)) = Len(Flat(ps))
  BY <1>3, <1>6, <1>7
<1> QED BY <1>8, <1>9

-----------------------------------------------------------------------------
(* Phonemes and where the vowels are among them.                           *)

SoundsOf(ms, k) ==
  IF ms[k].consonant = "" THEN << <<k, "vowel">> >> ELSE << <<k, "consonant">>, <<k, "vowel">> >>
Sounds(ms) == [k \in DOMAIN ms |-> SoundsOf(ms, k)]

\* How many phonemes there are up to the vowel of mora k.
VowelAt(ms, k) == Len(Joint(Sounds(ms), k))

LEMMA SoundsShape ==
  ASSUME NEW ms \in Seq(Mora)
  PROVE  /\ Sounds(ms) \in Seq(Seq(Sound)) /\ Len(Sounds(ms)) = Len(ms)
         /\ \A k \in 1..Len(ms) : Sounds(ms)[k] = SoundsOf(ms, k) /\ SoundsOf(ms, k) \in Seq(Sound)
         /\ Phonemes(ms) = FlattenSeq(Sounds(ms)) /\ Phonemes(ms) \in Seq(Sound)
<1>1. DOMAIN ms = 1..Len(ms) /\ Len(ms) \in Nat
  OBVIOUS
<1>2. ASSUME NEW k \in 1..Len(ms) PROVE SoundsOf(ms, k) \in Seq(Sound)
  <2>1. <<k, "consonant">> \in Sound /\ <<k, "vowel">> \in Sound
    BY <1>1 DEF Sound
  <2> HIDE DEF Sound
  <2>2. << <<k, "vowel">> >> \in Seq(Sound) /\ << <<k, "consonant">>, <<k, "vowel">> >> \in Seq(Sound)
    BY <2>1
  <2> QED BY <2>2 DEF SoundsOf
<1> HIDE DEF Mora, Sound
<1>3. Sounds(ms) \in [1..Len(ms) -> Seq(Sound)]
  BY <1>1, <1>2 DEF Sounds
<1>4. Sounds(ms) \in Seq(Seq(Sound)) /\ Len(Sounds(ms)) = Len(ms)
  BY <1>1, <1>3
<1>5. Phonemes(ms) = FlattenSeq(Sounds(ms))
  BY DEF Phonemes, Sounds, SoundsOf
<1>6. FlattenSeq(Sounds(ms)) \in Seq(Sound)
  BY <1>4, JointPlaces
<1> QED BY <1>1, <1>2, <1>4, <1>5, <1>6 DEF Sounds

LEMMA VowelsAt ==
  ASSUME NEW ms \in Seq(Mora)
  PROVE  /\ VowelAt(ms, 0) = 0 /\ VowelAt(ms, Len(ms)) = Len(Phonemes(ms))
         /\ \A k \in 0..Len(ms) : VowelAt(ms, k) \in Nat /\ VowelAt(ms, k) >= k
         /\ \A k \in 1..Len(ms) :
              /\ VowelAt(ms, k) = VowelAt(ms, k - 1) + (IF ms[k].consonant = "" THEN 1 ELSE 2)
              /\ VowelAt(ms, k) \in 1..Len(Phonemes(ms))
              /\ Phonemes(ms)[VowelAt(ms, k)] = <<k, "vowel">>
              /\ ms[k].consonant # "" =>
                   /\ VowelAt(ms, k) - 1 \in 1..Len(Phonemes(ms))
                   /\ Phonemes(ms)[VowelAt(ms, k) - 1] = <<k, "consonant">>
<1>1. PICK gs : gs = Sounds(ms)
  OBVIOUS
<1>2. /\ gs \in Seq(Seq(Sound)) /\ Len(gs) = Len(ms)
      /\ \A k \in 1..Len(ms) : gs[k] = SoundsOf(ms, k) /\ SoundsOf(ms, k) \in Seq(Sound)
      /\ Phonemes(ms) = FlattenSeq(gs) /\ Phonemes(ms) \in Seq(Sound)
  BY <1>1, SoundsShape
<1>3. Len(ms) \in Nat
  OBVIOUS
<1> HIDE DEF Mora, Sound
<1>4. /\ \A n \in 0..Len(gs) : Joint(gs, n) \in Seq(Sound)
      /\ Joint(gs, 0) = <<>> /\ Joint(gs, Len(gs)) = FlattenSeq(gs)
      /\ \A n \in 1..Len(gs) : Joint(gs, n) = Joint(gs, n - 1) \o gs[n]
  BY <1>2, JointStep
<1>5. /\ \A p \in 1..Len(gs) : \A k \in 1..Len(gs[p]) :
              /\ Len(Joint(gs, p - 1)) + k \in 1..Len(FlattenSeq(gs))
              /\ FlattenSeq(gs)[Len(Joint(gs, p - 1)) + k] = gs[p][k]
  BY <1>2, JointPlaces
<1>6. \A k \in 0..Len(ms) : VowelAt(ms, k) = Len(Joint(gs, k)) /\ VowelAt(ms, k) \in Nat
  BY <1>1, <1>2, <1>4 DEF VowelAt
<1>7. ASSUME NEW k \in 1..Len(ms)
      PROVE  /\ VowelAt(ms, k) = VowelAt(ms, k - 1) + (IF ms[k].consonant = "" THEN 1 ELSE 2)
             /\ VowelAt(ms, k) \in 1..Len(Phonemes(ms))
             /\ Phonemes(ms)[VowelAt(ms, k)] = <<k, "vowel">>
             /\ ms[k].consonant # "" =>
                  /\ VowelAt(ms, k) - 1 \in 1..Len(Phonemes(ms))
                  /\ Phonemes(ms)[VowelAt(ms, k) - 1] = <<k, "consonant">>
  <2>1. k - 1 \in 0..Len(ms) /\ k \in 0..Len(ms) /\ k \in 1..Len(gs)
    BY <1>2, <1>3
  <2>2. PICK j \in Seq(Sound) : j = Joint(gs, k - 1)
    BY <1>2, <1>4, <2>1
  <2>3. VowelAt(ms, k - 1) = Len(j) /\ Len(j) \in Nat
    BY <1>6, <2>1, <2>2
  <2>4. PICK g \in Seq(Sound) : g = gs[k]
    BY <1>2
  <2>5. g = SoundsOf(ms, k)
    BY <1>2, <2>4
  <2>6. VowelAt(ms, k) = Len(j) + Len(g)
    <3>1. Joint(gs, k) = j \o g
      BY <1>4, <2>1, <2>2, <2>4
    <3>2. Len(j \o g) = Len(j) + Len(g)
      OBVIOUS
    <3> QED BY <1>6, <2>1, <3>1, <3>2
  <2>7. \A x \in 1..Len(g) : /\ Len(j) + x \in 1..Len(Phonemes(ms))
                             /\ Phonemes(ms)[Len(j) + x] = g[x]
    BY <1>2, <1>5, <2>1, <2>2, <2>4
  <2>8. CASE ms[k].consonant = ""
    <3>1. PICK v : v = <<k, "vowel">>
      OBVIOUS
    <3>2. g = <<v>>
      BY <2>5, <2>8, <3>1 DEF SoundsOf
    <3>3. Len(g) = 1 /\ g[1] = v /\ 1 \in 1..Len(g)
      BY <3>2
    <3> QED BY <2>3, <2>6, <2>7, <2>8, <3>1, <3>3
  <2>9. CASE ms[k].consonant # ""
    <3>1. PICK c, v : c = <<k, "consonant">> /\ v = <<k, "vowel">>
      OBVIOUS
    <3>2. g = <<c, v>>
      BY <2>5, <2>9, <3>1 DEF SoundsOf
    <3>3. Len(g) = 2 /\ g[1] = c /\ g[2] = v /\ 1 \in 1..Len(g) /\ 2 \in 1..Len(g)
      BY <3>2
    <3>4. (Len(j) + 2) - 1 = Len(j) + 1
      BY <2>3
    <3> QED BY <2>3, <2>6, <2>7, <2>9, <3>1, <3>3, <3>4
  <2> QED BY <2>8, <2>9
<1>8. VowelAt(ms, 0) = 0 /\ VowelAt(ms, Len(ms)) = Len(Phonemes(ms))
  BY <1>2, <1>3, <1>4, <1>6
<1> DEFINE P == {k \in Nat : k <= Len(ms) => VowelAt(ms, k) >= k}
<1>9. P \in SUBSET Nat /\ 0 \in P
  BY <1>8
<1>10. ASSUME NEW k \in P PROVE k + 1 \in P
  <2> SUFFICES ASSUME k + 1 <= Len(ms) PROVE VowelAt(ms, k + 1) >= k + 1
    OBVIOUS
  <2>1. k \in Nat /\ k + 1 \in 1..Len(ms) /\ (k + 1) - 1 = k /\ k <= Len(ms) /\ k \in 0..Len(ms)
    BY <1>3
  <2>2. VowelAt(ms, k + 1) = VowelAt(ms, k) + (IF ms[k + 1].consonant = "" THEN 1 ELSE 2)
    BY <1>7, <2>1
  <2>3. PICK n \in Nat : n = VowelAt(ms, k) /\ n >= k
    BY <1>6, <2>1
  <2>4. VowelAt(ms, k + 1) = n + 1 \/ VowelAt(ms, k + 1) = n + 2
    BY <2>2, <2>3
  <2> QED BY <2>1, <2>3, <2>4
<1>11. \A k \in Nat : k \in P
  <2> HIDE DEF P
  <2> QED BY <1>9, <1>10, Induction
<1>12. \A k \in 0..Len(ms) : VowelAt(ms, k) \in Nat /\ VowelAt(ms, k) >= k
  BY <1>3, <1>6, <1>11
<1> QED BY <1>7, <1>8, <1>12

ConsonantAt(ms, m) == ms[m].consonant # ""

\* Every phoneme is the vowel of a mora or the consonant before it.
LEMMA EachPhoneme ==
  ASSUME NEW ms \in Seq(Mora), NEW j \in 1..Len(Phonemes(ms))
  PROVE  \E m \in 1..Len(ms) :
           \/ j = VowelAt(ms, m)
           \/ j = VowelAt(ms, m) - 1 /\ ConsonantAt(ms, m)
<1> DEFINE Is(x, m) == x = VowelAt(ms, m) \/ (x = VowelAt(ms, m) - 1 /\ ConsonantAt(ms, m))
           P == {k \in Nat : k <= Len(ms) =>
                   \A x \in 1..VowelAt(ms, k) : \E m \in 1..k : Is(x, m)}
<1>1. /\ VowelAt(ms, 0) = 0 /\ VowelAt(ms, Len(ms)) = Len(Phonemes(ms))
      /\ \A k \in 0..Len(ms) : VowelAt(ms, k) \in Nat
      /\ \A k \in 1..Len(ms) :
           VowelAt(ms, k) = VowelAt(ms, k - 1) + (IF ConsonantAt(ms, k) THEN 2 ELSE 1)
  BY VowelsAt DEF ConsonantAt
<1> HIDE DEF Mora
<1>2. Len(ms) \in Nat
  OBVIOUS
<1>3. P \in SUBSET Nat /\ 0 \in P
  BY <1>1
<1>4. ASSUME NEW k \in P PROVE k + 1 \in P
  <2> SUFFICES ASSUME k + 1 <= Len(ms), NEW x \in 1..VowelAt(ms, k + 1)
               PROVE  \E m \in 1..(k + 1) : Is(x, m)
    OBVIOUS
  <2>1. k \in Nat /\ k + 1 \in 1..Len(ms) /\ (k + 1) - 1 = k /\ k <= Len(ms) /\ k \in 0..Len(ms)
    BY <1>2
  <2>2. PICK n \in Nat : n = VowelAt(ms, k)
    BY <1>1, <2>1
  <2>3. VowelAt(ms, k + 1) = n + (IF ConsonantAt(ms, k + 1) THEN 2 ELSE 1)
    BY <1>1, <2>1, <2>2
  <2>4. CASE x <= n
    <3>1. PICK m \in 1..k : Is(x, m)
      BY <2>1, <2>2, <2>4
    <3> HIDE DEF Is
    <3> QED BY <2>1, <3>1
  <2>5. CASE x > n
    <3>1. Is(x, k + 1)
      <4>1. PICK at \in Nat : at = VowelAt(ms, k + 1)
        BY <1>1, <1>2, <2>1
      <4>2. x \in 1..at /\ x > n
        BY <2>5, <4>1
      <4>3. CASE ConsonantAt(ms, k + 1)
        <5>1. at = n + 2
          BY <2>3, <4>1, <4>3
        <5>2. x = at \/ x = at - 1
          BY <4>2, <5>1
        <5> QED BY <4>1, <4>3, <5>2
      <4>4. CASE ~ConsonantAt(ms, k + 1)
        <5>1. at = n + 1
          BY <2>3, <4>1, <4>4
        <5>2. x = at
          BY <4>2, <5>1
        <5> QED BY <4>1, <5>2
      <4> QED BY <4>3, <4>4
    <3> HIDE DEF Is
    <3> QED BY <2>1, <3>1
  <2> QED BY <2>2, <2>4, <2>5
<1>5. \A k \in Nat : k \in P
  <2> HIDE DEF P
  <2> QED BY <1>3, <1>4, Induction
<1>6. Len(ms) \in P /\ j \in 1..VowelAt(ms, Len(ms))
  BY <1>1, <1>2, <1>5
<1> QED BY <1>2, <1>6

\* There are as many phonemes as moras exactly where there is no consonant.
LEMMA NoConsonants ==
  ASSUME NEW ms \in Seq(Mora), NEW k \in 0..Len(ms)
  PROVE  VowelAt(ms, k) = k <=> \A m \in 1..k : ~ConsonantAt(ms, m)
<1> DEFINE None(n) == \A m \in 1..n : ~ConsonantAt(ms, m)
           P == {n \in Nat : n <= Len(ms) => (VowelAt(ms, n) = n <=> None(n))}
<1>1. /\ VowelAt(ms, 0) = 0
      /\ \A n \in 0..Len(ms) : VowelAt(ms, n) \in Nat /\ VowelAt(ms, n) >= n
      /\ \A n \in 1..Len(ms) :
           VowelAt(ms, n) = VowelAt(ms, n - 1) + (IF ConsonantAt(ms, n) THEN 2 ELSE 1)
  BY VowelsAt DEF ConsonantAt
<1> HIDE DEF Mora
<1>2. Len(ms) \in Nat
  OBVIOUS
<1>3. P \in SUBSET Nat /\ 0 \in P
  BY <1>1
<1>4. ASSUME NEW n \in P PROVE n + 1 \in P
  <2> SUFFICES ASSUME n + 1 <= Len(ms) PROVE VowelAt(ms, n + 1) = n + 1 <=> None(n + 1)
    OBVIOUS
  <2>1. n \in Nat /\ n + 1 \in 1..Len(ms) /\ (n + 1) - 1 = n /\ n <= Len(ms) /\ n \in 0..Len(ms)
    BY <1>2
  <2>2. PICK v \in Nat : v = VowelAt(ms, n) /\ v >= n
    BY <1>1, <2>1
  <2>3. VowelAt(ms, n + 1) = v + (IF ConsonantAt(ms, n + 1) THEN 2 ELSE 1)
    BY <1>1, <2>1, <2>2
  <2>4. v = n <=> None(n)
    BY <2>1, <2>2
  <2>5. None(n + 1) <=> None(n) /\ ~ConsonantAt(ms, n + 1)
    <3>1. \A m : m \in 1..(n + 1) <=> m \in 1..n \/ m = n + 1
      BY <2>1
    <3> QED BY <3>1
  <2> HIDE DEF None
  <2>6. VowelAt(ms, n + 1) = n + 1 <=> v = n /\ ~ConsonantAt(ms, n + 1)
    BY <2>1, <2>2, <2>3
  <2> QED BY <2>4, <2>5, <2>6
<1>5. \A n \in Nat : n \in P
  <2> HIDE DEF P
  <2> QED BY <1>3, <1>4, Induction
<1>6. k \in P /\ k <= Len(ms)
  BY <1>2, <1>5
<1> QED BY <1>6

\* Phoneme number j is of mora number j exactly as long as no consonant has come
\* before mora number j.
LEMMA MeetsItsMora ==
  ASSUME NEW ms \in Seq(Mora), NEW j \in 1..Len(Phonemes(ms))
  PROVE  /\ Phonemes(ms)[j][1] \in 1..Len(ms)
         /\ Phonemes(ms)[j][1] = j <=>
              (j <= Len(ms) /\ \A m \in 1..(j - 1) : ms[m].consonant = "")
<1> DEFINE None(n) == \A m \in 1..n : ~ConsonantAt(ms, m)
<1>1. PICK m \in 1..Len(ms) :
        \/ j = VowelAt(ms, m)
        \/ j = VowelAt(ms, m) - 1 /\ ConsonantAt(ms, m)
  BY EachPhoneme
<1>2. /\ VowelAt(ms, 0) = 0 /\ VowelAt(ms, Len(ms)) = Len(Phonemes(ms))
      /\ \A k \in 0..Len(ms) : VowelAt(ms, k) \in Nat /\ VowelAt(ms, k) >= k
      /\ VowelAt(ms, m) = VowelAt(ms, m - 1) + (IF ConsonantAt(ms, m) THEN 2 ELSE 1)
      /\ Phonemes(ms)[VowelAt(ms, m)] = <<m, "vowel">>
      /\ ConsonantAt(ms, m) => Phonemes(ms)[VowelAt(ms, m) - 1] = <<m, "consonant">>
  BY VowelsAt DEF ConsonantAt
<1>3. \A k \in 0..Len(ms) : VowelAt(ms, k) = k <=> None(k)
  BY NoConsonants
<1> HIDE DEF Mora
<1>4. Len(ms) \in Nat /\ m \in 0..Len(ms) /\ m - 1 \in 0..Len(ms) /\ m \in Nat
  OBVIOUS
<1>5. j \in Nat /\ j >= 1
  <2>1. Len(Phonemes(ms)) \in Nat
    BY <1>2, <1>4
  <2> QED BY <2>1
<1>6. Phonemes(ms)[j][1] = m
  BY <1>1, <1>2
<1>7. PICK before \in Nat : before = VowelAt(ms, m - 1) /\ before >= m - 1
  BY <1>2, <1>4
<1>8. PICK at \in Nat : at = VowelAt(ms, m)
  BY <1>2, <1>4
<1>9. \/ ~ConsonantAt(ms, m) /\ at = before + 1 /\ j = at
      \/ ConsonantAt(ms, m) /\ at = before + 2 /\ (j = at \/ j = at - 1)
  BY <1>1, <1>2, <1>7, <1>8
<1>10. j = before + 1 \/ j = before + 2
  BY <1>7, <1>8, <1>9
<1>11. ASSUME m = j PROVE j <= Len(ms) /\ None(j - 1)
  <2>1. before = m - 1 /\ j <= Len(ms)
    BY <1>4, <1>7, <1>10, <1>11
  <2>2. None(m - 1)
    BY <1>3, <1>4, <1>7, <2>1
  <2> HIDE DEF None
  <2> QED BY <1>11, <2>1, <2>2
<1>12. ASSUME j <= Len(ms), None(j - 1) PROVE m = j
  <2>1. m <= j
    BY <1>4, <1>5, <1>7, <1>10
  <2>2. ASSUME m < j PROVE FALSE
    <3>1. m \in 1..(j - 1)
      BY <1>4, <1>5, <2>2
    <3>2. ~ConsonantAt(ms, m)
      BY <1>12, <3>1
    <3>3. None(m)
      <4>1. \A n \in 1..m : n \in 1..(j - 1)
        BY <1>4, <1>5, <3>1
      <4> QED BY <1>12, <4>1
    <3>4. VowelAt(ms, m) = m /\ j = VowelAt(ms, m)
      BY <1>3, <1>4, <1>8, <1>9, <3>2, <3>3
    <3> QED BY <1>4, <2>2, <3>4
  <2> QED BY <1>4, <1>5, <2>1, <2>2
<1> QED BY <1>6, <1>11, <1>12 DEF ConsonantAt

LEMMA PhonemePlaces ==
  ASSUME NEW ps \in Seq(AccentPhrase), NEW p \in 1..Len(ps), NEW k \in 1..Size(ps, p)
  PROVE  PhonemePlace(ps, <<p, k>>) = VowelAt(Flat(ps), Before(ps, p) + k)
<1> DEFINE ms == Flat(ps)
           C == {t \in Slots(ps) : AtSlot(ps, t).consonant # ""}
           f == [m \in 0..Len(ms) |-> VowelAt(ms, m) - m]
<1>1. /\ ms \in Seq(Mora)
      /\ \A q \in 1..(Len(ps) + 1) : Before(ps, q) \in Nat
      /\ \A q \in 1..Len(ps) : \A x \in 1..Size(ps, q) :
           /\ Before(ps, q) + x \in 1..Len(ms)
           /\ ms[Before(ps, q) + x] = AtSlot(ps, <<q, x>>)
  BY FlatShape
<1>2. Len(ps) \in Nat /\ \A q \in 1..Len(ps) : Size(ps, q) \in Nat
  BY PieceShape
<1> HIDE DEF ms
<1>3. /\ VowelAt(ms, 0) = 0 /\ VowelAt(ms, Len(ms)) = Len(Phonemes(ms))
      /\ \A m \in 0..Len(ms) : VowelAt(ms, m) \in Nat /\ VowelAt(ms, m) >= m
      /\ \A m \in 1..Len(ms) :
           VowelAt(ms, m) = VowelAt(ms, m - 1) + (IF ms[m].consonant = "" THEN 1 ELSE 2)
  BY <1>1, VowelsAt
<1>4. C \in SUBSET Slots(ps)
  OBVIOUS
<1> HIDE DEF Mora, AccentPhrase
<1>5. Len(ms) \in Nat
  BY <1>1
<1>6. Counts(ps, C, f)
  <2>1. f \in [0..Len(ms) -> Nat]
    <3>1. ASSUME NEW m \in 0..Len(ms) PROVE VowelAt(ms, m) - m \in Nat
      <4>1. PICK v \in Nat : v = VowelAt(ms, m) /\ v >= m
        BY <1>3
      <4> QED BY <1>5, <4>1
    <3> QED BY <3>1
  <2>2. f[0] = 0
    <3>1. 0 \in 0..Len(ms) /\ 0 - 0 = 0
      BY <1>5
    <3> QED BY <1>3, <3>1
  <2>3. ASSUME NEW q \in 1..Len(ps), NEW x \in 1..Size(ps, q)
        PROVE  f[Before(ps, q) + x] = f[Before(ps, q) + x - 1] + (IF <<q, x>> \in C THEN 1 ELSE 0)
    <3>1. PICK m : m = Before(ps, q) + x
      OBVIOUS
    <3>2. m \in 1..Len(ms) /\ m \in 0..Len(ms) /\ m - 1 \in 0..Len(ms) /\ ms[m] = AtSlot(ps, <<q, x>>)
      BY <1>1, <1>5, <3>1
    <3>3. <<q, x>> \in C <=> ms[m].consonant # ""
      <4>1. <<q, x>> \in Slots(ps)
        BY SlotsAre
      <4> QED BY <3>2, <4>1
    <3>4. f[m] = VowelAt(ms, m) - m /\ f[m - 1] = VowelAt(ms, m - 1) - (m - 1)
      BY <3>2
    <3>5. PICK v \in Nat : v = VowelAt(ms, m - 1)
      BY <1>3, <3>2
    <3>6. VowelAt(ms, m) = v + (IF ms[m].consonant = "" THEN 1 ELSE 2)
      BY <1>3, <3>2, <3>5
    <3> HIDE DEF f, C
    <3>9. Before(ps, q) + x - 1 = m - 1
      <4>1. PICK b \in Nat : b = Before(ps, q)
        <5>1. q \in 1..(Len(ps) + 1)
          BY <1>2
        <5> QED BY <1>1, <5>1
      <4>2. x \in Nat
        BY <1>2
      <4> QED BY <3>1, <4>1, <4>2
    <3>7. CASE ms[m].consonant = ""
      <4>1. VowelAt(ms, m) = v + 1 /\ ~(<<q, x>> \in C)
        BY <3>3, <3>6, <3>7
      <4>2. f[m] = f[m - 1]
        BY <3>2, <3>4, <3>5, <4>1
      <4>3. f[m - 1] \in Int
        BY <3>2, <3>4, <3>5
      <4>4. f[m] = f[m - 1] + 0
        BY <4>2, <4>3
      <4> QED BY <3>1, <3>9, <4>1, <4>4
    <3>8. CASE ms[m].consonant # ""
      <4>1. VowelAt(ms, m) = v + 2 /\ <<q, x>> \in C
        BY <3>3, <3>6, <3>8
      <4>2. f[m] = f[m - 1] + 1
        BY <3>2, <3>4, <3>5, <4>1
      <4> QED BY <3>1, <3>9, <4>1, <4>2
    <3> QED BY <3>7, <3>8
  <2> HIDE DEF f, C
  <2> QED BY <2>1, <2>2, <2>3 DEF Counts, ms
<1>7. Cardinality(Chosen(ps, C, p, k)) = f[Before(ps, p) + k]
  <2>1. k \in 0..Size(ps, p)
    BY <1>2
  <2> HIDE DEF C, f
  <2> QED BY <1>4, <1>6, <2>1, Counted
<1>8. {t \in UpTo(ps, <<p, k>>) : AtSlot(ps, t).consonant # ""} = Chosen(ps, C, p, k)
  BY DEF Chosen, UpTo
<1>9. PlaceOf(ps, <<p, k>>) = Before(ps, p) + k
  <2>1. k \in 0..Size(ps, p)
    BY <1>2
  <2> QED BY <2>1, Places
<1>10. PICK m : m = Before(ps, p) + k
  OBVIOUS
<1>11. m \in 0..Len(ms) /\ m \in Nat /\ VowelAt(ms, m) \in Nat
  <2>1. m \in 1..Len(ms)
    BY <1>1, <1>10
  <2>2. m \in 0..Len(ms) /\ m \in Nat
    BY <1>5, <2>1
  <2> QED BY <1>3, <2>2
<1>12. f[m] = VowelAt(ms, m) - m
  BY <1>11
<1> HIDE DEF C, f
<1>13. PhonemePlace(ps, <<p, k>>) = m + (VowelAt(ms, m) - m)
  <2>1. PhonemePlace(ps, <<p, k>>) = PlaceOf(ps, <<p, k>>)
           + Cardinality({t \in UpTo(ps, <<p, k>>) : AtSlot(ps, t).consonant # ""})
    BY DEF PhonemePlace
  <2> QED BY <1>7, <1>8, <1>9, <1>10, <1>12, <2>1
<1> QED BY <1>10, <1>11, <1>13 DEF ms

\* The indexes of the vowels, picked out one by one, are where the vowels are.
Tails(ms) == [x \in DOMAIN Phonemes(ms) |-> IF Phonemes(ms)[x][2] = "vowel" THEN <<x>> ELSE <<>>]

LEMMA VowelIndexesAre ==
  ASSUME NEW ms \in Seq(Mora), NEW k \in 1..Len(ms)
  PROVE  VowelIndexes(ms)[k] = VowelAt(ms, k)
<1>1. PICK ph \in Seq(Sound) : ph = Phonemes(ms)
  BY SoundsShape
<1>2. Len(ph) \in Nat /\ DOMAIN ph = 1..Len(ph) /\ Len(ms) \in Nat
  OBVIOUS
<1>3. /\ VowelAt(ms, 0) = 0
      /\ \A n \in 0..Len(ms) : VowelAt(ms, n) \in Nat
      /\ \A n \in 1..Len(ms) :
           /\ VowelAt(ms, n) = VowelAt(ms, n - 1) + (IF ms[n].consonant = "" THEN 1 ELSE 2)
           /\ VowelAt(ms, n) \in 1..Len(ph)
           /\ ph[VowelAt(ms, n)] = <<n, "vowel">>
           /\ ms[n].consonant # "" =>
                /\ VowelAt(ms, n) - 1 \in 1..Len(ph)
                /\ ph[VowelAt(ms, n) - 1] = <<n, "consonant">>
  BY <1>1, VowelsAt
<1> HIDE DEF Mora, Sound
<1>4. PICK ts : ts = Tails(ms)
  OBVIOUS
<1>5. \A x \in 1..Len(ph) : ts[x] = IF ph[x][2] = "vowel" THEN <<x>> ELSE <<>>
  BY <1>1, <1>2, <1>4 DEF Tails
<1>6. ts \in Seq(Seq(Nat)) /\ Len(ts) = Len(ph)
  <2>1. \A x \in 1..Len(ph) : <<x>> \in Seq(Nat) /\ <<>> \in Seq(Nat)
    OBVIOUS
  <2>2. ts = [x \in 1..Len(ph) |-> IF ph[x][2] = "vowel" THEN <<x>> ELSE <<>>]
    BY <1>1, <1>2, <1>4 DEF Tails
  <2>3. ts \in [1..Len(ph) -> Seq(Nat)]
    BY <2>1, <2>2
  <2> QED BY <1>2, <2>3
<1>7. VowelIndexes(ms) = FlattenSeq(ts)
  BY <1>4 DEF VowelIndexes, Tails
<1>8. /\ \A n \in 0..Len(ts) : Joint(ts, n) \in Seq(Nat)
      /\ Joint(ts, 0) = <<>> /\ Joint(ts, Len(ts)) = FlattenSeq(ts)
      /\ \A n \in 1..Len(ts) : Joint(ts, n) = Joint(ts, n - 1) \o ts[n]
  BY <1>6, JointStep
<1> DEFINE Picked(n) == Len(Joint(ts, VowelAt(ms, n))) = n
<1>9. ASSUME NEW n \in 1..Len(ms), Picked(n - 1)
      PROVE  /\ Len(Joint(ts, VowelAt(ms, n) - 1)) = n - 1 /\ Picked(n)
             /\ ts[VowelAt(ms, n)] = <<VowelAt(ms, n)>>
  <2>1. PICK v : v = VowelAt(ms, n)
    OBVIOUS
  <2>2. /\ v \in 1..Len(ts) /\ v - 1 \in 0..Len(ts) /\ ph[v] = <<n, "vowel">>
        /\ n - 1 \in 0..Len(ms) /\ n \in Nat
    <3>1. v \in 1..Len(ph) /\ ph[v] = <<n, "vowel">>
      BY <1>3, <2>1
    <3>2. v - 1 \in 0..Len(ph) /\ n - 1 \in 0..Len(ms) /\ n \in Nat
      BY <1>2, <3>1
    <3> QED BY <1>6, <3>1, <3>2
  <2>3. ts[v] = <<v>>
    <3>1. ph[v][2] = "vowel"
      BY <2>2
    <3> QED BY <1>5, <1>6, <2>2, <3>1
  <2>4. Len(Joint(ts, v - 1)) = n - 1
    <3>1. CASE ms[n].consonant = ""
      <4>1. PICK u \in Nat : u = VowelAt(ms, n - 1)
        BY <1>3, <2>2
      <4>2. v = u + 1
        BY <1>3, <2>1, <3>1, <4>1
      <4>3. v - 1 = u
        BY <4>2
      <4> QED BY <1>9, <4>1, <4>3
    <3>2. CASE ms[n].consonant # ""
      <4>1. PICK u \in Nat : u = VowelAt(ms, n - 1)
        BY <1>3, <2>2
      <4>2. v = u + 2
        BY <1>3, <2>1, <3>2, <4>1
      <4>3. /\ v - 1 \in 1..Len(ts) /\ ph[v - 1] = <<n, "consonant">>
            /\ (v - 1) - 1 = u
        <5>1. v - 1 \in 1..Len(ph) /\ ph[v - 1] = <<n, "consonant">>
          BY <1>3, <2>1, <3>2
        <5> QED BY <1>6, <4>2, <5>1
      <4>4. ts[v - 1] = <<>>
        <5>1. ph[v - 1][2] # "vowel"
          BY <4>3
        <5> QED BY <1>5, <1>6, <4>3, <5>1
      <4>5. PICK j \in Seq(Nat) : j = Joint(ts, u)
        BY <1>8, <4>3
      <4>6. Joint(ts, v - 1) = j \o <<>>
        BY <1>8, <4>3, <4>4, <4>5
      <4>7. j \o <<>> = j
        OBVIOUS
      <4> QED BY <1>9, <4>1, <4>5, <4>6, <4>7
    <3> QED BY <3>1, <3>2
  <2>5. Len(Joint(ts, v)) = n
    <3>1. PICK j \in Seq(Nat) : j = Joint(ts, v - 1)
      BY <1>8, <2>2
    <3>2. Joint(ts, v) = j \o <<v>>
      BY <1>8, <2>2, <2>3, <3>1
    <3>3. Len(j \o <<v>>) = Len(j) + 1
      <4>1. v \in Nat
        BY <2>2
      <4> QED BY <4>1
    <3> QED BY <2>2, <2>4, <3>1, <3>2, <3>3
  <2> QED BY <2>1, <2>3, <2>4, <2>5
<1> DEFINE P == {n \in Nat : n <= Len(ms) => Picked(n)}
<1>10. P \in SUBSET Nat /\ 0 \in P
  <2>1. Len(<<>>) = 0 /\ Joint(ts, 0) = <<>> /\ VowelAt(ms, 0) = 0
    BY <1>3, <1>8
  <2>2. Picked(0)
    BY <2>1
  <2> HIDE DEF Picked
  <2> QED BY <2>2
<1>11. ASSUME NEW n \in P PROVE n + 1 \in P
  <2> SUFFICES ASSUME n + 1 <= Len(ms) PROVE Picked(n + 1)
    OBVIOUS
  <2>1. n + 1 \in 1..Len(ms) /\ (n + 1) - 1 = n /\ Picked(n)
    BY <1>2
  <2>2. Picked((n + 1) - 1)
    BY <2>1
  <2> HIDE DEF Picked
  <2> QED BY <1>9, <2>1, <2>2
<1>12. \A n \in Nat : n \in P
  <2> HIDE DEF P
  <2> QED BY <1>10, <1>11, Induction
<1>13. Picked(k - 1)
  <2>1. k - 1 \in Nat /\ k - 1 <= Len(ms)
    BY <1>2
  <2> QED BY <1>12, <2>1
<1>14. /\ Len(Joint(ts, VowelAt(ms, k) - 1)) = k - 1 /\ ts[VowelAt(ms, k)] = <<VowelAt(ms, k)>>
       /\ VowelAt(ms, k) \in 1..Len(ts)
  BY <1>3, <1>6, <1>9, <1>13
<1>15. PICK v : v = VowelAt(ms, k)
  OBVIOUS
<1>16. 1 \in 1..Len(ts[v]) /\ ts[v][1] = v
  <2>1. ts[v] = <<v>>
    BY <1>14, <1>15
  <2>2. Len(<<v>>) = 1 /\ <<v>>[1] = v
    OBVIOUS
  <2> QED BY <2>1, <2>2
<1>17. FlattenSeq(ts)[Len(Joint(ts, v - 1)) + 1] = ts[v][1]
  <2>1. \A q \in 1..Len(ts) : \A x \in 1..Len(ts[q]) :
          FlattenSeq(ts)[Len(Joint(ts, q - 1)) + x] = ts[q][x]
    BY <1>6, JointPlaces
  <2> QED BY <1>14, <1>15, <1>16, <2>1
<1>18. Len(Joint(ts, v - 1)) + 1 = k
  BY <1>2, <1>14, <1>15
<1> QED BY <1>7, <1>15, <1>16, <1>17, <1>18

-----------------------------------------------------------------------------
(* Writing flat moras back.                                                *)

\* No pause is written over with what stands for none.
KeepsPauses(ps, flat) ==
  \A p \in 1..Len(ps) :
    HasPause(ps[p]) => flat[Before(ps, p) + Len(ps[p].moras) + 1] # no_pause

Written(phrase, flat, b) ==
  [phrase EXCEPT
     !.moras = [k \in 1..Len(phrase.moras) |-> flat[b + k]],
     !.pause = IF HasPause(phrase) THEN flat[b + Len(phrase.moras) + 1] ELSE @]

LEMMA WrittenPhrase ==
  ASSUME NEW ps \in Seq(AccentPhrase), NEW flat \in Seq(Mora), Len(flat) = Len(Flat(ps)),
         KeepsPauses(ps, flat), NEW p \in 1..Len(ps), NEW q, q = WriteBack(ps, flat)[p]
  PROVE  /\ q \in AccentPhrase
         /\ Len(q.moras) = Len(ps[p].moras) /\ (HasPause(q) <=> HasPause(ps[p]))
         /\ q.accent = ps[p].accent
         /\ \A k \in 1..Len(q.moras) : q.moras[k] = flat[Before(ps, p) + k]
         /\ HasPause(q) => q.pause = flat[Before(ps, p) + Len(ps[p].moras) + 1]
<1>1. PICK phrase : phrase = ps[p]
  OBVIOUS
<1>2. phrase \in AccentPhrase
  BY <1>1
<1>3. PICK ms : ms = phrase.moras
  OBVIOUS
<1>4. ms \in Seq(Mora) /\ phrase.pause \in Mora
  BY <1>1, <1>3, PieceShape
<1> HIDE DEF Mora
<1>5. Len(ms) \in Nat
  BY <1>4
<1>6. PICK b \in Nat : b = Before(ps, p)
  <2>1. p \in 1..(Len(ps) + 1)
    OBVIOUS
  <2> QED BY <2>1, FlatShape
<1>7. \A k \in 1..Size(ps, p) : flat[b + k] \in Mora
  <2>1. \A k \in 1..Size(ps, p) : b + k \in 1..Len(flat)
    BY <1>6, FlatShape
  <2> QED BY <2>1
<1>8. /\ \A k \in 1..Len(ms) : flat[b + k] \in Mora
      /\ HasPause(phrase) => flat[b + (Len(ms) + 1)] \in Mora
  <2>1. Size(ps, p) = Len(ms) + IF HasPause(phrase) THEN 1 ELSE 0
    BY <1>1, <1>3 DEF Size
  <2> QED BY <1>5, <1>7, <2>1
<1>9. PICK new : new = [k \in 1..Len(ms) |-> flat[b + k]]
  OBVIOUS
<1>10. new \in Seq(Mora) /\ Len(new) = Len(ms) /\ \A k \in 1..Len(ms) : new[k] = flat[b + k]
  BY <1>5, <1>8, <1>9
<1>11. PICK pause : pause = IF HasPause(phrase) THEN flat[b + (Len(ms) + 1)] ELSE phrase.pause
  OBVIOUS
<1>12. pause \in Mora
  BY <1>4, <1>8, <1>11
<1>13. b + Len(ms) + 1 = b + (Len(ms) + 1)
  BY <1>5, <1>6
<1>14. q = [phrase EXCEPT !.moras = new, !.pause = pause]
  <2>1. q = Written(phrase, flat, b)
    <3>1. p \in DOMAIN ps
      OBVIOUS
    <3>2. WriteBack(ps, flat)[p] = Written(ps[p], flat, Before(ps, p))
      BY <3>1, Zenon DEF WriteBack, Written
    <3> QED BY <1>1, <1>6, <3>2
  <2> QED BY <1>3, <1>9, <1>11, <1>13, <2>1 DEF Written
<1>15. q \in AccentPhrase /\ q.moras = new /\ q.pause = pause /\ q.accent = phrase.accent
  BY <1>2, <1>10, <1>12, <1>14 DEF AccentPhrase
<1>16. HasPause(q) <=> HasPause(phrase)
  <2>1. HasPause(phrase) => flat[b + (Len(ms) + 1)] # no_pause
    BY <1>1, <1>3, <1>6, <1>13 DEF KeepsPauses
  <2>2. HasPause(q) <=> pause # no_pause
    BY <1>15 DEF HasPause
  <2>3. ~HasPause(phrase) => phrase.pause = no_pause
    BY DEF HasPause
  <2> QED BY <1>11, <2>1, <2>2, <2>3
<1> QED BY <1>1, <1>3, <1>6, <1>10, <1>11, <1>13, <1>15, <1>16

\* The same sizes make the same places.
LEMMA SameBefore ==
  ASSUME NEW ps \in Seq(AccentPhrase), NEW qs \in Seq(AccentPhrase), Len(qs) = Len(ps),
         \A p \in 1..Len(ps) : Size(qs, p) = Size(ps, p)
  PROVE  \A p \in 1..(Len(ps) + 1) : Before(qs, p) = Before(ps, p)
<1> DEFINE P == {n \in Nat : n <= Len(ps) => Before(qs, n + 1) = Before(ps, n + 1)}
<1>1. /\ Before(ps, 1) = 0 /\ Before(qs, 1) = 0
      /\ \A p \in 1..Len(ps) : Before(ps, p + 1) = Before(ps, p) + Size(ps, p)
      /\ \A p \in 1..Len(ps) : Before(qs, p + 1) = Before(qs, p) + Size(qs, p)
  BY FlatShape
<1>2. Len(ps) \in Nat
  OBVIOUS
<1> HIDE DEF AccentPhrase
<1>3. P \in SUBSET Nat /\ 0 \in P
  BY <1>1
<1>4. ASSUME NEW n \in P PROVE n + 1 \in P
  <2> SUFFICES ASSUME n + 1 <= Len(ps) PROVE Before(qs, (n + 1) + 1) = Before(ps, (n + 1) + 1)
    OBVIOUS
  <2>1. n + 1 \in 1..Len(ps) /\ Before(qs, n + 1) = Before(ps, n + 1)
    BY <1>2
  <2> QED BY <1>1, <2>1
<1>5. \A n \in Nat : n \in P
  <2> HIDE DEF P
  <2> QED BY <1>3, <1>4, Induction
<1>6. ASSUME NEW p \in 1..(Len(ps) + 1) PROVE Before(qs, p) = Before(ps, p)
  <2>1. p - 1 \in Nat /\ p - 1 <= Len(ps) /\ (p - 1) + 1 = p
    BY <1>2
  <2> QED BY <1>5, <2>1
<1> QED BY <1>6

\* What is written back is what is read again, slot by slot.
LEMMA WriteBackKeeps ==
  ASSUME NEW ps \in Seq(AccentPhrase), NEW flat \in Seq(Mora), Len(flat) = Len(Flat(ps)),
         KeepsPauses(ps, flat), NEW qs, qs = WriteBack(ps, flat)
  PROVE  /\ qs \in Seq(AccentPhrase) /\ Len(qs) = Len(ps) /\ Flat(qs) = flat
         /\ \A p \in 1..Len(ps) :
              /\ Size(qs, p) = Size(ps, p) /\ Len(qs[p].moras) = Len(ps[p].moras)
              /\ (HasPause(qs[p]) <=> HasPause(ps[p])) /\ qs[p].accent = ps[p].accent
         /\ \A p \in 1..(Len(ps) + 1) : Before(qs, p) = Before(ps, p)
         /\ \A p \in 1..Len(ps) : \A k \in 1..Size(ps, p) :
              AtSlot(qs, <<p, k>>) = flat[Before(ps, p) + k]
<1>1. ASSUME NEW p \in 1..Len(ps)
      PROVE  /\ qs[p] \in AccentPhrase
             /\ Len(qs[p].moras) = Len(ps[p].moras) /\ (HasPause(qs[p]) <=> HasPause(ps[p]))
             /\ qs[p].accent = ps[p].accent
             /\ \A k \in 1..Len(qs[p].moras) : qs[p].moras[k] = flat[Before(ps, p) + k]
             /\ HasPause(qs[p]) => qs[p].pause = flat[Before(ps, p) + Len(ps[p].moras) + 1]
  <2>1. PICK q : q = qs[p]
    OBVIOUS
  <2>2. q = WriteBack(ps, flat)[p]
    BY <2>1
  <2> QED BY <2>1, <2>2, WrittenPhrase
<1>2. Len(ps) \in Nat /\ DOMAIN ps = 1..Len(ps)
  OBVIOUS
<1>3. qs \in Seq(AccentPhrase) /\ Len(qs) = Len(ps)
  <2> HIDE DEF AccentPhrase
  <2>1. DOMAIN qs = 1..Len(ps) /\ qs = [p \in 1..Len(ps) |-> qs[p]]
    BY <1>2 DEF WriteBack
  <2>2. qs \in [1..Len(ps) -> AccentPhrase]
    BY <1>1, <2>1
  <2> QED BY <1>2, <2>1, <2>2
<1>4. ASSUME NEW p \in 1..Len(ps) PROVE Size(qs, p) = Size(ps, p)
  BY <1>1 DEF Size
<1>5. \A p \in 1..(Len(ps) + 1) : Before(qs, p) = Before(ps, p)
  BY <1>3, <1>4, SameBefore
<1>6. ASSUME NEW p \in 1..Len(ps), NEW k \in 1..Size(ps, p)
      PROVE  AtSlot(qs, <<p, k>>) = flat[Before(ps, p) + k]
  <2>1. PICK n : n = Len(ps[p].moras)
    OBVIOUS
  <2>2. n \in Nat /\ Size(ps, p) = n + (IF HasPause(ps[p]) THEN 1 ELSE 0)
    <3>1. ps[p].moras \in Seq(Mora)
      BY PieceShape
    <3> HIDE DEF Mora
    <3> QED BY <2>1, <3>1 DEF Size
  <2>3. PICK b \in Nat : b = Before(ps, p)
    <3>1. p \in 1..(Len(ps) + 1)
      BY <1>2
    <3> QED BY <3>1, FlatShape
  <2>4. AtSlot(qs, <<p, k>>) = IF k <= n THEN qs[p].moras[k] ELSE qs[p].pause
    BY <1>1, <2>1 DEF AtSlot
  <2>5. CASE k <= n
    <3>1. k \in 1..Len(qs[p].moras)
      BY <1>1, <2>1, <2>2, <2>5
    <3> QED BY <1>1, <2>4, <2>5, <3>1
  <2>6. CASE ~(k <= n)
    <3>1. HasPause(ps[p]) /\ k = n + 1
      BY <2>2, <2>6
    <3>2. qs[p].pause = flat[b + n + 1]
      BY <1>1, <2>1, <2>3, <3>1
    <3>3. b + n + 1 = b + k
      BY <2>2, <2>3, <3>1
    <3> QED BY <2>3, <2>4, <2>6, <3>2, <3>3
  <2> QED BY <2>5, <2>6
<1>7. Flat(qs) = flat
  <2>1. /\ Flat(qs) \in Seq(Mora)
        /\ Before(qs, Len(qs) + 1) = Len(Flat(qs))
        /\ \A p \in 1..Len(qs) : \A k \in 1..Size(qs, p) :
              Flat(qs)[Before(qs, p) + k] = AtSlot(qs, <<p, k>>)
        /\ \A x \in 1..Len(Flat(qs)) :
              \E p \in 1..Len(qs) : \E k \in 1..Size(qs, p) : x = Before(qs, p) + k
    BY <1>3, FlatShape
  <2>2. Len(Flat(qs)) = Len(flat)
    <3>1. Before(ps, Len(ps) + 1) = Len(Flat(ps)) /\ Len(ps) + 1 \in 1..(Len(ps) + 1)
      BY <1>2, FlatShape
    <3> QED BY <1>3, <1>5, <2>1, <3>1
  <2>3. ASSUME NEW x \in 1..Len(flat) PROVE Flat(qs)[x] = flat[x]
    <3>1. PICK p \in 1..Len(qs) : \E k \in 1..Size(qs, p) : x = Before(qs, p) + k
      BY <2>1, <2>2
    <3>3. PICK k \in 1..Size(qs, p) : x = Before(qs, p) + k
      BY <3>1
    <3>2. p \in 1..Len(ps) /\ k \in 1..Size(ps, p) /\ p \in 1..(Len(ps) + 1)
      BY <1>2, <1>3, <1>4
    <3> QED BY <1>5, <1>6, <2>1, <3>2, <3>3
  <2> HIDE DEF Mora
  <2>4. PICK other \in Seq(Mora) : other = Flat(qs)
    BY <2>1
  <2> QED BY <2>2, <2>3, <2>4
<1> QED BY <1>1, <1>3, <1>4, <1>5, <1>6, <1>7

-----------------------------------------------------------------------------
(* What a core answers, without its edges.                                 *)

LEMMA EdgesDropped ==
  ASSUME NEW answer \in Seq(Nat), NEW n \in Nat, Len(answer) >= n + 2,
         NEW output, output = SubSeq(answer, 1, n + 2)
  PROVE  /\ output \in Seq(Nat) /\ DropEdge(output) \in Seq(Nat) /\ Len(DropEdge(output)) = n
         /\ \A j \in 1..n : DropEdge(output)[j] = output[j + 1]
<1>1. \A j \in 1..(n + 2) : answer[j] \in Nat
  <2>1. \A j \in 1..(n + 2) : j \in 1..Len(answer)
    OBVIOUS
  <2> QED BY <2>1
<1>2. output \in Seq(Nat) /\ Len(output) = n + 2
  <2>1. 1 \in Int /\ n + 2 \in Int /\ (n + 2) - 1 + 1 = n + 2 /\ ~(1 > n + 2)
    OBVIOUS
  <2>2. SubSeq(answer, 1, n + 2) \in Seq(Nat) /\ Len(SubSeq(answer, 1, n + 2)) = n + 2
    BY <1>1, SubSeqProperties
  <2> QED BY <2>2
<1>3. PICK drop : drop = SubSeq(output, 2, Len(output) - 1)
  OBVIOUS
<1>4. /\ Len(output) - 1 = n + 1 /\ \A k \in 2..(n + 1) : output[k] \in Nat
  <2>1. Len(output) - 1 = n + 1
    BY <1>2
  <2>2. \A k \in 2..(n + 1) : k \in 1..Len(output)
    BY <1>2
  <2> QED BY <1>2, <2>1, <2>2
<1>5. /\ SubSeq(output, 2, n + 1) \in Seq(Nat) /\ Len(SubSeq(output, 2, n + 1)) = n
      /\ \A j \in 1..n : SubSeq(output, 2, n + 1)[j] = output[j + 1]
  <2>1. \A j \in 1..n : 2 + j - 1 = j + 1
    OBVIOUS
  <2> QED BY <1>2, <1>4, <2>1, SubSeqProperties
<1> QED BY <1>2, <1>4, <1>5 DEF DropEdge

\* The same consonants make the same phonemes.
LEMMA SameSounds ==
  ASSUME NEW ms \in Seq(Mora), NEW ns \in Seq(Mora), Len(ns) = Len(ms),
         \A k \in 1..Len(ms) : ns[k].consonant = ms[k].consonant
  PROVE  \A k : VowelAt(ns, k) = VowelAt(ms, k)
<1>1. DOMAIN ms = 1..Len(ms) /\ DOMAIN ns = 1..Len(ms)
  OBVIOUS
<1>2. \A k \in 1..Len(ms) : SoundsOf(ns, k) = SoundsOf(ms, k)
  BY DEF SoundsOf
<1>3. Sounds(ns) = Sounds(ms)
  BY <1>1, <1>2 DEF Sounds
<1> QED BY <1>3 DEF VowelAt

WithLengths(m, c, l) == [m EXCEPT !.consonantLength = c, !.vowelLength = l]

LEMMA LengthsSet ==
  ASSUME NEW m \in Mora, NEW c \in Int, NEW l \in Int, NEW n, n = WithLengths(m, c, l)
  PROVE  /\ n \in Mora /\ n.consonant = m.consonant /\ n.vowel = m.vowel
         /\ n.vowelLength = l /\ n.consonantLength = c /\ n.pitch = m.pitch
BY DEF Mora, WithLengths

LEMMA PitchSet ==
  ASSUME NEW m \in Mora, NEW c \in Int, NEW n, n = [m EXCEPT !.pitch = c]
  PROVE  /\ n \in Mora /\ n.consonant = m.consonant /\ n.vowel = m.vowel
         /\ n.vowelLength = m.vowelLength /\ n.consonantLength = m.consonantLength
         /\ n.pitch = c
BY DEF Mora

HasConsonant(m) == m.consonant # ""

\* What Measured makes of the moras.
IsMeasured(ms, ls, ns) ==
  /\ ns \in Seq(Mora) /\ Len(ns) = Len(ms)
  /\ \A k \in 1..Len(ms) :
       /\ ns[k].consonant = ms[k].consonant /\ ns[k].vowel = ms[k].vowel
       /\ ns[k] # no_pause
       /\ ns[k].vowelLength = ls[VowelAt(ms, k)]
       /\ HasConsonant(ns[k]) => ns[k].consonantLength = ls[VowelAt(ms, k) - 1]

LEMMA MeasuredAre ==
  ASSUME NEW ms \in Seq(Mora), NEW ls \in Seq(Nat), Len(ls) = Len(Phonemes(ms)),
         NEW ns, ns = Measured(ms, ls)
  PROVE  IsMeasured(ms, ls, ns)
<1>1. DOMAIN ms = 1..Len(ms) /\ Len(ms) \in Nat
  OBVIOUS
<1>2. ns = [k \in 1..Len(ms) |->
              [ms[k] EXCEPT
                 !.consonantLength = IF ms[k].consonant = "" THEN 0
                                     ELSE ls[VowelIndexes(ms)[k] - 1],
                 !.vowelLength = ls[VowelIndexes(ms)[k]]]]
  BY <1>1 DEF Measured
<1>3. ASSUME NEW k \in 1..Len(ms)
      PROVE  /\ ns[k] \in Mora
             /\ ns[k].consonant = ms[k].consonant /\ ns[k].vowel = ms[k].vowel
             /\ ns[k] # no_pause
             /\ ns[k].vowelLength = ls[VowelAt(ms, k)]
             /\ ns[k].consonant # "" => ns[k].consonantLength = ls[VowelAt(ms, k) - 1]
  <2>1. PICK v : v = VowelAt(ms, k)
    OBVIOUS
  <2>2. VowelIndexes(ms)[k] = v
    BY <2>1, VowelIndexesAre
  <2>3. ls[v] \in Nat /\ (ms[k].consonant # "" => ls[v - 1] \in Nat)
    <3>1. v \in 1..Len(ls) /\ (ms[k].consonant # "" => v - 1 \in 1..Len(ls))
      BY <2>1, VowelsAt
    <3>2. \A x \in 1..Len(ls) : ls[x] \in Nat
      OBVIOUS
    <3> QED BY <3>1, <3>2
  <2>4. PICK c \in Nat : c = IF ms[k].consonant = "" THEN 0 ELSE ls[v - 1]
    BY <2>3
  <2>5. PICK l \in Nat : l = ls[v]
    BY <2>3
  <2>6. PICK m : m = ms[k]
    OBVIOUS
  <2>10. m \in Mora
    BY <2>6
  <2>7. ns[k] = [m EXCEPT !.consonantLength = c, !.vowelLength = l]
    BY <1>2, <2>2, <2>4, <2>5, <2>6
  <2>8. /\ ns[k] \in Mora /\ ns[k].consonant = m.consonant /\ ns[k].vowel = m.vowel
        /\ ns[k].vowelLength = l /\ ns[k].consonantLength = c
    <3> HIDE DEF Mora
    <3>1. c \in Int /\ l \in Int
      OBVIOUS
    <3>2. PICK n : n = ns[k]
      OBVIOUS
    <3>3. n = WithLengths(m, c, l)
      BY <2>7, <3>2, Zenon DEF WithLengths
    <3>4. /\ n \in Mora /\ n.consonant = m.consonant /\ n.vowel = m.vowel
          /\ n.vowelLength = l /\ n.consonantLength = c
      BY <2>10, <3>1, <3>3, LengthsSet
    <3> QED BY <3>2, <3>4
  <2>9. ns[k] # no_pause
    <3>1. no_pause.consonantLength = -1 /\ c # -1
      BY DEF no_pause
    <3> QED BY <2>8, <3>1
  <2> QED BY <2>1, <2>4, <2>5, <2>6, <2>8, <2>9
<1> HIDE DEF Mora
<1>4. ns \in Seq(Mora) /\ Len(ns) = Len(ms)
  <2>1. DOMAIN ns = 1..Len(ms) /\ ns = [k \in 1..Len(ms) |-> ns[k]]
    BY <1>2
  <2>2. ns \in [1..Len(ms) -> Mora]
    BY <1>3, <2>1
  <2> QED BY <1>1, <2>1, <2>2
<1> QED BY <1>3, <1>4 DEF HasConsonant, IsMeasured

LEMMA PitchedAre ==
  ASSUME NEW ms \in Seq(Mora), NEW f0 \in Seq(Nat), Len(f0) = Len(ms),
         NEW ns, ns = Pitched(ms, f0)
  PROVE  /\ ns \in Seq(Mora) /\ Len(ns) = Len(ms)
         /\ \A k \in 1..Len(ms) :
              /\ ns[k].consonant = ms[k].consonant /\ ns[k].vowel = ms[k].vowel
              /\ ns[k].vowelLength = ms[k].vowelLength
              /\ ns[k].consonantLength = ms[k].consonantLength
              /\ ns[k] # no_pause
              /\ ns[k].pitch = IF ns[k].vowel \in Unvoiced THEN 0 ELSE f0[k]
<1>1. DOMAIN ms = 1..Len(ms) /\ Len(ms) \in Nat
  OBVIOUS
<1>2. ns = [k \in 1..Len(ms) |->
              [ms[k] EXCEPT !.pitch = IF ms[k].vowel \in Unvoiced THEN 0 ELSE f0[k]]]
  BY <1>1 DEF Pitched
<1>3. ASSUME NEW k \in 1..Len(ms)
      PROVE  /\ ns[k] \in Mora
             /\ ns[k].consonant = ms[k].consonant /\ ns[k].vowel = ms[k].vowel
             /\ ns[k].vowelLength = ms[k].vowelLength
             /\ ns[k].consonantLength = ms[k].consonantLength
             /\ ns[k] # no_pause
             /\ ns[k].pitch = IF ns[k].vowel \in Unvoiced THEN 0 ELSE f0[k]
  <2>1. f0[k] \in Nat
    OBVIOUS
  <2>2. PICK c \in Nat : c = IF ms[k].vowel \in Unvoiced THEN 0 ELSE f0[k]
    BY <2>1
  <2>3. PICK m : m = ms[k]
    OBVIOUS
  <2>10. m \in Mora
    BY <2>3
  <2>4. ns[k] = [m EXCEPT !.pitch = c]
    BY <1>2, <2>2, <2>3
  <2>5. /\ ns[k] \in Mora /\ ns[k].consonant = m.consonant /\ ns[k].vowel = m.vowel
        /\ ns[k].vowelLength = m.vowelLength /\ ns[k].consonantLength = m.consonantLength
        /\ ns[k].pitch = c
    BY <2>2, <2>4, <2>10, PitchSet, SMTT(30)
  <2>6. ns[k] # no_pause
    <3>1. no_pause.pitch = -1 /\ c # -1
      BY DEF no_pause
    <3> QED BY <2>5, <3>1
  <2> QED BY <2>2, <2>3, <2>5, <2>6
<1> HIDE DEF Mora
<1>4. ns \in Seq(Mora) /\ Len(ns) = Len(ms)
  <2>1. DOMAIN ns = 1..Len(ms) /\ ns = [k \in 1..Len(ms) |-> ns[k]]
    BY <1>2
  <2>2. ns \in [1..Len(ms) -> Mora]
    BY <1>3, <2>1
  <2> QED BY <1>1, <2>1, <2>2, SMTT(30)
<1> QED BY <1>3, <1>4

-----------------------------------------------------------------------------
(* The marks of the accents.                                               *)

\* Arrays with a single one, phrase by phrase.
OneEach(ps, hot, gs) ==
  /\ gs \in Seq(Seq({0, 1})) /\ Len(gs) = Len(ps)
  /\ \A p \in 1..Len(ps) :
       /\ Len(gs[p]) = Size(ps, p) /\ hot[p] \in 1..Size(ps, p)
       /\ \A k \in 1..Size(ps, p) : gs[p][k] = 1 <=> k = hot[p]

LEMMA OneEachMarks ==
  ASSUME NEW ps \in Seq(AccentPhrase), NEW hot, NEW gs, OneEach(ps, hot, gs)
  PROVE  /\ FlattenSeq(gs) \in Seq({0, 1}) /\ Len(FlattenSeq(gs)) = Len(Flat(ps))
         /\ Ones(FlattenSeq(gs)) = {Before(ps, p) + hot[p] : p \in 1..Len(ps)}
<1> DEFINE P == {n \in Nat : n <= Len(ps) => Len(Joint(gs, n)) = Before(ps, n + 1)}
<1>1. /\ Before(ps, 1) = 0 /\ Before(ps, Len(ps) + 1) = Len(Flat(ps))
      /\ \A p \in 1..Len(ps) : Before(ps, p + 1) = Before(ps, p) + Size(ps, p)
  BY FlatShape
<1>2. Len(ps) \in Nat
  OBVIOUS
<1> HIDE DEF AccentPhrase
<1>3. gs \in Seq(Seq({0, 1})) /\ Len(gs) = Len(ps)
  BY DEF OneEach
<1>4. /\ \A n \in 0..Len(ps) : Joint(gs, n) \in Seq({0, 1})
      /\ Joint(gs, 0) = <<>> /\ Joint(gs, Len(ps)) = FlattenSeq(gs)
      /\ \A n \in 1..Len(ps) : Joint(gs, n) = Joint(gs, n - 1) \o gs[n]
  BY <1>3, JointStep
<1>5. P \in SUBSET Nat /\ 0 \in P
  <2>1. Len(Joint(gs, 0)) = 0
    BY <1>4
  <2> QED BY <1>1, <2>1
<1>6. ASSUME NEW n \in P PROVE n + 1 \in P
  <2> SUFFICES ASSUME n + 1 <= Len(ps) PROVE Len(Joint(gs, n + 1)) = Before(ps, (n + 1) + 1)
    OBVIOUS
  <2>1. /\ n + 1 \in 1..Len(ps) /\ n \in 0..Len(ps) /\ (n + 1) - 1 = n
        /\ Len(Joint(gs, n)) = Before(ps, n + 1)
    BY <1>2
  <2>2. PICK j : j = Joint(gs, n) /\ j \in Seq({0, 1})
    BY <1>4, <2>1
  <2>3. PICK g : g = gs[n + 1] /\ g \in Seq({0, 1})
    <3>1. n + 1 \in 1..Len(gs)
      BY <1>3, <2>1
    <3> QED BY <1>3, <3>1
  <2>4. Joint(gs, n + 1) = j \o g
    BY <1>4, <2>1, <2>2, <2>3
  <2>5. Len(j \o g) = Len(j) + Len(g)
    BY <2>2, <2>3
  <2>6. Len(g) = Size(ps, n + 1)
    BY <2>1, <2>3 DEF OneEach
  <2> QED BY <1>1, <2>1, <2>2, <2>4, <2>5, <2>6
<1>7. \A n \in Nat : n \in P
  <2> HIDE DEF P
  <2> QED BY <1>5, <1>6, Induction
<1>8. ASSUME NEW p \in 1..Len(ps) PROVE Len(Joint(gs, p - 1)) = Before(ps, p)
  <2>1. p - 1 \in Nat /\ p - 1 <= Len(ps) /\ (p - 1) + 1 = p
    BY <1>2
  <2> QED BY <1>7, <2>1
<1>9. PICK all : all = FlattenSeq(gs)
  OBVIOUS
<1>10. Len(all) = Len(Flat(ps))
  BY <1>1, <1>2, <1>4, <1>7, <1>9
<1>11. /\ all \in Seq({0, 1})
       /\ \A p \in 1..Len(ps) : \A k \in 1..Len(gs[p]) :
              /\ Len(Joint(gs, p - 1)) + k \in 1..Len(all)
              /\ all[Len(Joint(gs, p - 1)) + k] = gs[p][k]
       /\ \A x \in 1..Len(all) :
              \E p \in 1..Len(ps) : \E k \in 1..Len(gs[p]) : x = Len(Joint(gs, p - 1)) + k
  <2>1. /\ FlattenSeq(gs) \in Seq({0, 1})
        /\ \A p \in 1..Len(gs) : \A k \in 1..Len(gs[p]) :
              /\ Len(Joint(gs, p - 1)) + k \in 1..Len(FlattenSeq(gs))
              /\ FlattenSeq(gs)[Len(Joint(gs, p - 1)) + k] = gs[p][k]
        /\ \A x \in 1..Len(FlattenSeq(gs)) :
              \E p \in 1..Len(gs) : \E k \in 1..Len(gs[p]) : x = Len(Joint(gs, p - 1)) + k
    BY <1>3, JointPlaces
  <2> QED BY <1>3, <1>9, <2>1
<1>12. \A x : x \in Ones(all) <=> x \in 1..Len(all) /\ all[x] = 1
  <2>1. DOMAIN all = 1..Len(all)
    BY <1>11
  <2> QED BY <2>1 DEF Ones
<1>13. ASSUME NEW x \in Ones(all) PROVE \E p \in 1..Len(ps) : x = Before(ps, p) + hot[p]
  <2>1. x \in 1..Len(all) /\ all[x] = 1
    BY <1>12
  <2>2. PICK p \in 1..Len(ps) : \E k \in 1..Len(gs[p]) : x = Len(Joint(gs, p - 1)) + k
    BY <1>11, <2>1
  <2>3. PICK k \in 1..Len(gs[p]) : x = Len(Joint(gs, p - 1)) + k
    BY <2>2
  <2>4. gs[p][k] = 1
    BY <1>11, <2>1, <2>3
  <2>5. k = hot[p]
    BY <2>4 DEF OneEach
  <2> QED BY <1>8, <2>3, <2>5
<1>14. ASSUME NEW p \in 1..Len(ps) PROVE Before(ps, p) + hot[p] \in Ones(all)
  <2>1. hot[p] \in 1..Len(gs[p]) /\ gs[p][hot[p]] = 1
    BY DEF OneEach
  <2>2. Len(Joint(gs, p - 1)) + hot[p] \in 1..Len(all) /\ all[Len(Joint(gs, p - 1)) + hot[p]] = 1
    BY <1>11, <2>1
  <2> QED BY <1>8, <1>12, <2>2
<1>15. \A x : x \in Ones(all) <=> x \in {Before(ps, p) + hot[p] : p \in 1..Len(ps)}
  BY <1>13, <1>14, Zenon
<1>16. Ones(all) = {Before(ps, p) + hot[p] : p \in 1..Len(ps)}
  BY <1>15, Zenon
<1> QED BY <1>9, <1>10, <1>11, <1>16

\* create_one_hot marks the mora it is asked for.
LEMMA OneHotIs ==
  ASSUME NEW ps \in Seq(AccentPhrase), NEW p \in 1..Len(ps), NEW index \in Int, NEW h \in Int,
         h = (IF index < 0 THEN Len(ps[p].moras) + index ELSE index) + 1,
         h \in 1..Len(ps[p].moras)
  PROVE  /\ OneHot(ps[p], index) \in Seq({0, 1}) /\ Len(OneHot(ps[p], index)) = Size(ps, p)
         /\ h \in 1..Size(ps, p)
         /\ \A k \in 1..Size(ps, p) : OneHot(ps[p], index)[k] = 1 <=> k = h
<1>1. PICK n \in Nat : n = Len(ps[p].moras)
  <2>1. ps[p].moras \in Seq(Mora)
    BY PieceShape
  <2> HIDE DEF Mora
  <2> QED BY <2>1
<1> HIDE DEF AccentPhrase, Mora
<1>2. PICK hot : hot = [k \in 1..n |-> IF k - 1 = (IF index < 0 THEN n + index ELSE index) THEN 1 ELSE 0]
  OBVIOUS
<1>3. /\ hot \in Seq({0, 1}) /\ Len(hot) = n
      /\ \A k \in 1..n : hot[k] = 1 <=> k = h
  <2>1. hot \in [1..n -> {0, 1}]
    BY <1>2
  <2>2. hot \in Seq({0, 1}) /\ Len(hot) = n
    BY <2>1, <1>2
  <2>3. ASSUME NEW k \in 1..n PROVE hot[k] = 1 <=> k = h
    BY <1>1, <1>2
  <2> QED BY <2>2, <2>3
<1>4. OneHot(ps[p], index) = IF HasPause(ps[p]) THEN Append(hot, 0) ELSE hot
  BY <1>1, <1>2 DEF OneHot
<1>5. Size(ps, p) = n + IF HasPause(ps[p]) THEN 1 ELSE 0
  BY <1>1 DEF Size
<1>6. /\ Append(hot, 0) \in Seq({0, 1}) /\ Len(Append(hot, 0)) = n + 1
      /\ \A k \in 1..(n + 1) : Append(hot, 0)[k] = IF k = n + 1 THEN 0 ELSE hot[k]
  BY <1>3
<1>7. h \in 1..n
  BY <1>1
<1>8. CASE HasPause(ps[p])
  <2>1. ASSUME NEW k \in 1..(n + 1) PROVE Append(hot, 0)[k] = 1 <=> k = h
    BY <1>3, <1>6, <1>7
  <2> QED BY <1>4, <1>5, <1>6, <1>7, <1>8, <2>1
<1>9. CASE ~HasPause(ps[p])
  <2>1. Size(ps, p) = n
    BY <1>5, <1>9
  <2> QED BY <1>3, <1>4, <1>7, <1>9, <2>1
<1> QED BY <1>8, <1>9

\* One array of marks.
LEMMA ArrayIs ==
  ASSUME NEW ps \in Seq(AccentPhrase), NEW index \in [1..Len(ps) -> Int],
         NEW hot \in [1..Len(ps) -> Int], NEW gs,
         \A p \in 1..Len(ps) :
           /\ hot[p] = (IF index[p] < 0 THEN Len(ps[p].moras) + index[p] ELSE index[p]) + 1
           /\ hot[p] \in 1..Len(ps[p].moras),
         gs = [p \in 1..Len(ps) |-> OneHot(ps[p], index[p])]
  PROVE  /\ FlattenSeq(gs) \in Seq({0, 1}) /\ Len(FlattenSeq(gs)) = Len(Flat(ps))
         /\ Ones(FlattenSeq(gs)) = {Before(ps, p) + hot[p] : p \in 1..Len(ps)}
<1>1. ASSUME NEW p \in 1..Len(ps)
      PROVE  /\ gs[p] \in Seq({0, 1}) /\ Len(gs[p]) = Size(ps, p)
             /\ hot[p] \in 1..Size(ps, p)
             /\ \A k \in 1..Size(ps, p) : gs[p][k] = 1 <=> k = hot[p]
  <2>1. PICK x \in Int, h \in Int : x = index[p] /\ h = hot[p]
    OBVIOUS
  <2>2. gs[p] = OneHot(ps[p], x)
    BY <2>1
  <2>3. h = (IF x < 0 THEN Len(ps[p].moras) + x ELSE x) + 1 /\ h \in 1..Len(ps[p].moras)
    BY <2>1
  <2> HIDE DEF AccentPhrase
  <2> QED BY <2>1, <2>2, <2>3, OneHotIs
<1>2. gs \in Seq(Seq({0, 1})) /\ Len(gs) = Len(ps)
  <2>1. Len(ps) \in Nat
    OBVIOUS
  <2> HIDE DEF AccentPhrase
  <2>2. DOMAIN gs = 1..Len(ps) /\ gs = [p \in 1..Len(ps) |-> gs[p]]
    OBVIOUS
  <2>3. gs \in [1..Len(ps) -> Seq({0, 1})]
    BY <1>1, <2>2
  <2> QED BY <2>1, <2>2, <2>3
<1>3. OneEach(ps, hot, gs)
  BY <1>1, <1>2 DEF OneEach
<1> QED BY <1>3, OneEachMarks

Accented(ps) == \A p \in DOMAIN ps : ps[p].accent \in 1..Len(ps[p].moras)

\* Where the marks of create_one_hot are, when every accent is on a mora.
Rise(phrase) == IF phrase.accent = 1 THEN 1 ELSE 2

LEMMA MarksAre ==
  ASSUME NEW ps \in Seq(AccentPhrase), Accented(ps), NEW ms, ms = Marks(ps)
  PROVE  /\ ms \in [1..4 -> Seq({0, 1})] /\ \A a \in 1..4 : Len(ms[a]) = Len(Flat(ps))
         /\ Ones(ms[1]) = {Before(ps, p) + Rise(ps[p]) : p \in 1..Len(ps)}
         /\ Ones(ms[2]) = {Before(ps, p) + ps[p].accent : p \in 1..Len(ps)}
         /\ Ones(ms[3]) = {Before(ps, p) + 1 : p \in 1..Len(ps)}
         /\ Ones(ms[4]) = {Before(ps, p) + Len(ps[p].moras) : p \in 1..Len(ps)}
<1>1. DOMAIN ps = 1..Len(ps)
  OBVIOUS
<1>2. ASSUME NEW p \in 1..Len(ps)
      PROVE  /\ Len(ps[p].moras) \in Nat /\ ps[p].accent \in 1..Len(ps[p].moras)
             /\ ps[p].accent \in Int
  <2>1. ps[p].moras \in Seq(Mora)
    BY PieceShape
  <2>2. ps[p].accent \in 1..Len(ps[p].moras)
    BY <1>1 DEF Accented
  <2> HIDE DEF Mora, AccentPhrase
  <2> QED BY <2>1, <2>2
<1> DEFINE Of(index) == [p \in 1..Len(ps) |-> OneHot(ps[p], index[p])]
           x1 == [p \in 1..Len(ps) |-> StartIndex(ps[p])]
           x2 == [p \in 1..Len(ps) |-> ps[p].accent - 1]
           x3 == [p \in 1..Len(ps) |-> 0]
           x4 == [p \in 1..Len(ps) |-> -1]
           h1 == [p \in 1..Len(ps) |-> Rise(ps[p])]
           h2 == [p \in 1..Len(ps) |-> ps[p].accent]
           h3 == [p \in 1..Len(ps) |-> 1]
           h4 == [p \in 1..Len(ps) |-> Len(ps[p].moras)]
           Right(index, hot) ==
             /\ FlattenSeq(Of(index)) \in Seq({0, 1})
             /\ Len(FlattenSeq(Of(index))) = Len(Flat(ps))
             /\ Ones(FlattenSeq(Of(index))) = {Before(ps, p) + hot[p] : p \in 1..Len(ps)}
<1> HIDE DEF AccentPhrase
<1>3. Right(x1, h1)
  <2>1. x1 \in [1..Len(ps) -> Int] /\ h1 \in [1..Len(ps) -> Int]
    BY DEF StartIndex, Rise
  <2>2. ASSUME NEW p \in 1..Len(ps)
        PROVE  /\ h1[p] = (IF x1[p] < 0 THEN Len(ps[p].moras) + x1[p] ELSE x1[p]) + 1
               /\ h1[p] \in 1..Len(ps[p].moras)
    BY <1>2 DEF StartIndex, Rise
  <2> HIDE DEF x1, h1
  <2> QED BY <2>1, <2>2, ArrayIs
<1>4. Right(x2, h2)
  <2>1. x2 \in [1..Len(ps) -> Int] /\ h2 \in [1..Len(ps) -> Int]
    BY <1>2
  <2>2. ASSUME NEW p \in 1..Len(ps)
        PROVE  /\ h2[p] = (IF x2[p] < 0 THEN Len(ps[p].moras) + x2[p] ELSE x2[p]) + 1
               /\ h2[p] \in 1..Len(ps[p].moras)
    BY <1>2
  <2> HIDE DEF x2, h2
  <2> QED BY <2>1, <2>2, ArrayIs
<1>5. Right(x3, h3)
  <2>1. x3 \in [1..Len(ps) -> Int] /\ h3 \in [1..Len(ps) -> Int]
    OBVIOUS
  <2>2. ASSUME NEW p \in 1..Len(ps)
        PROVE  /\ h3[p] = (IF x3[p] < 0 THEN Len(ps[p].moras) + x3[p] ELSE x3[p]) + 1
               /\ h3[p] \in 1..Len(ps[p].moras)
    BY <1>2
  <2> HIDE DEF x3, h3
  <2> QED BY <2>1, <2>2, ArrayIs
<1>6. Right(x4, h4)
  <2>1. x4 \in [1..Len(ps) -> Int] /\ h4 \in [1..Len(ps) -> Int]
    BY <1>2
  <2>2. ASSUME NEW p \in 1..Len(ps)
        PROVE  /\ h4[p] = (IF x4[p] < 0 THEN Len(ps[p].moras) + x4[p] ELSE x4[p]) + 1
               /\ h4[p] \in 1..Len(ps[p].moras)
    BY <1>2
  <2> HIDE DEF x4, h4
  <2> QED BY <2>1, <2>2, ArrayIs
<1>7. ms = <<FlattenSeq(Of(x1)), FlattenSeq(Of(x2)), FlattenSeq(Of(x3)), FlattenSeq(Of(x4))>>
  <2>1. /\ Of(x1) = [p \in DOMAIN ps |-> OneHot(ps[p], StartIndex(ps[p]))]
        /\ Of(x2) = [p \in DOMAIN ps |-> OneHot(ps[p], ps[p].accent - 1)]
        /\ Of(x3) = [p \in DOMAIN ps |-> OneHot(ps[p], 0)]
        /\ Of(x4) = [p \in DOMAIN ps |-> OneHot(ps[p], -1)]
    BY <1>1
  <2> HIDE DEF Of, x1, x2, x3, x4
  <2> QED BY <2>1 DEF Marks
<1>8. PICK a1, a2, a3, a4 : /\ a1 = FlattenSeq(Of(x1)) /\ a2 = FlattenSeq(Of(x2))
                            /\ a3 = FlattenSeq(Of(x3)) /\ a4 = FlattenSeq(Of(x4))
  OBVIOUS
<1>9. /\ Ones(a1) = {Before(ps, p) + Rise(ps[p]) : p \in 1..Len(ps)}
      /\ Ones(a2) = {Before(ps, p) + ps[p].accent : p \in 1..Len(ps)}
      /\ Ones(a3) = {Before(ps, p) + 1 : p \in 1..Len(ps)}
      /\ Ones(a4) = {Before(ps, p) + Len(ps[p].moras) : p \in 1..Len(ps)}
  <2>1. {Before(ps, p) + h1[p] : p \in 1..Len(ps)} = {Before(ps, p) + Rise(ps[p]) : p \in 1..Len(ps)}
    OBVIOUS
  <2>2. {Before(ps, p) + h2[p] : p \in 1..Len(ps)} = {Before(ps, p) + ps[p].accent : p \in 1..Len(ps)}
    OBVIOUS
  <2>3. {Before(ps, p) + h3[p] : p \in 1..Len(ps)} = {Before(ps, p) + 1 : p \in 1..Len(ps)}
    OBVIOUS
  <2>4. {Before(ps, p) + h4[p] : p \in 1..Len(ps)}
          = {Before(ps, p) + Len(ps[p].moras) : p \in 1..Len(ps)}
    OBVIOUS
  <2> HIDE DEF Of, x1, x2, x3, x4, h1, h2, h3, h4
  <2> QED BY <1>3, <1>4, <1>5, <1>6, <1>8, <2>1, <2>2, <2>3, <2>4
<1>10. /\ a1 \in Seq({0, 1}) /\ a2 \in Seq({0, 1}) /\ a3 \in Seq({0, 1}) /\ a4 \in Seq({0, 1})
       /\ Len(a1) = Len(Flat(ps)) /\ Len(a2) = Len(Flat(ps))
       /\ Len(a3) = Len(Flat(ps)) /\ Len(a4) = Len(Flat(ps))
  <2> HIDE DEF Of, x1, x2, x3, x4, h1, h2, h3, h4
  <2> QED BY <1>3, <1>4, <1>5, <1>6, <1>8
<1>11. ms = <<a1, a2, a3, a4>>
  BY <1>7, <1>8
<1> HIDE DEF Of, x1, x2, x3, x4, h1, h2, h3, h4
<1>12. /\ ms[1] = a1 /\ ms[2] = a2 /\ ms[3] = a3 /\ ms[4] = a4 /\ ms = [a \in 1..4 |-> ms[a]]
  BY <1>11
<1>13. \A a \in 1..4 : a = 1 \/ a = 2 \/ a = 3 \/ a = 4
  OBVIOUS
<1>14. \A a \in 1..4 : ms[a] \in Seq({0, 1}) /\ Len(ms[a]) = Len(Flat(ps))
  BY <1>10, <1>12, <1>13
<1>15. ms \in [1..4 -> Seq({0, 1})]
  BY <1>12, <1>14
<1> QED BY <1>9, <1>12, <1>14, <1>15

-----------------------------------------------------------------------------
(* Predictions stay with their moras.                                      *)

RightLength(ps, p, k, output) ==
  /\ AtSlot(ps, <<p, k>>).vowelLength = output[VowelAt(Flat(ps), Before(ps, p) + k) + 1]
  /\ HasConsonant(AtSlot(ps, <<p, k>>)) =>
       AtSlot(ps, <<p, k>>).consonantLength = output[VowelAt(Flat(ps), Before(ps, p) + k)]

RightPitch(ps, p, k, output) ==
  AtSlot(ps, <<p, k>>).pitch =
    IF AtSlot(ps, <<p, k>>).vowel \in Unvoiced THEN 0 ELSE output[(Before(ps, p) + k) + 1]

LengthsOf(ps, output) ==
  \A p \in 1..Len(ps) : \A k \in 1..Size(ps, p) : RightLength(ps, p, k, output)

PitchesOf(ps, output) ==
  \A p \in 1..Len(ps) : \A k \in 1..Size(ps, p) : RightPitch(ps, p, k, output)

LEMMA PausesKept ==
  ASSUME NEW ps \in Seq(AccentPhrase), NEW flat, Len(flat) = Len(Flat(ps)),
         \A k \in 1..Len(flat) : flat[k] # no_pause
  PROVE  KeepsPauses(ps, flat)
<1> SUFFICES ASSUME NEW p \in 1..Len(ps), HasPause(ps[p])
             PROVE  flat[Before(ps, p) + Len(ps[p].moras) + 1] # no_pause
  BY DEF KeepsPauses
<1>1. PICK n \in Nat : n = Len(ps[p].moras)
  <2>1. ps[p].moras \in Seq(Mora)
    BY PieceShape
  <2> HIDE DEF Mora
  <2> QED BY <2>1
<1>2. Size(ps, p) = n + 1 /\ n + 1 \in 1..Size(ps, p)
  BY <1>1 DEF Size
<1>3. PICK b \in Nat : b = Before(ps, p)
  <2>1. p \in 1..(Len(ps) + 1)
    OBVIOUS
  <2> QED BY <2>1, FlatShape
<1>4. b + (n + 1) \in 1..Len(flat)
  BY <1>2, <1>3, FlatShape
<1>5. b + (n + 1) = b + n + 1
  BY <1>1, <1>3
<1> QED BY <1>1, <1>3, <1>4, <1>5

\* What the phrases are after an answer has been written to them.
HasLengths(ps, output, qs) ==
  /\ qs \in Seq(AccentPhrase) /\ Accented(qs) /\ output \in Seq(Nat)
  /\ Len(Flat(qs)) = Len(Flat(ps)) /\ LengthsOf(qs, output)

HasPitches(ps, lengthOutput, output, qs) ==
  /\ qs \in Seq(AccentPhrase) /\ Len(qs) = Len(ps) /\ output \in Seq(Nat)
  /\ \A p \in 1..(Len(ps) + 1) : Before(qs, p) = Before(ps, p)
  /\ \A p \in 1..Len(ps) : /\ Len(qs[p].moras) = Len(ps[p].moras)
                           /\ qs[p].accent = ps[p].accent
  /\ Len(Flat(qs)) = Len(Flat(ps)) /\ Accented(qs)
  /\ LengthsOf(qs, lengthOutput) /\ PitchesOf(qs, output)

IsAnswer(answer, n, output) ==
  answer \in Seq(Nat) /\ Len(answer) >= n + 2 /\ output = SubSeq(answer, 1, n + 2)

LEMMA LengthsWritten ==
  ASSUME NEW ps \in Seq(AccentPhrase), Accented(ps),
         NEW n \in Nat, n = Len(Phonemes(Flat(ps))),
         NEW answer, NEW output, IsAnswer(answer, n, output),
         NEW qs, qs = WriteBack(ps, Measured(Flat(ps), DropEdge(output)))
  PROVE  HasLengths(ps, output, qs)
<1>1. PICK ms : ms = Flat(ps)
  OBVIOUS
<1>2. ms \in Seq(Mora)
  BY <1>1, FlatShape
<1>3. n = Len(Phonemes(ms))
  BY <1>1
<1>4. PICK d : d = DropEdge(output)
  OBVIOUS
<1> HIDE DEF AccentPhrase, Mora
<1>5. /\ output \in Seq(Nat) /\ d \in Seq(Nat) /\ Len(d) = n
      /\ \A j \in 1..n : d[j] = output[j + 1]
  BY <1>1, <1>3, <1>4, EdgesDropped DEF IsAnswer
<1>6. PICK ns : ns = Measured(ms, d)
  OBVIOUS
<1>7. /\ ns \in Seq(Mora) /\ Len(ns) = Len(ms)
      /\ \A k \in 1..Len(ms) :
              /\ ns[k].consonant = ms[k].consonant /\ ns[k].vowel = ms[k].vowel
              /\ ns[k] # no_pause
              /\ ns[k].vowelLength = d[VowelAt(ms, k)]
              /\ HasConsonant(ns[k]) => ns[k].consonantLength = d[VowelAt(ms, k) - 1]
  <2>1. d \in Seq(Nat) /\ Len(d) = Len(Phonemes(ms))
    BY <1>3, <1>5
  <2>2. IsMeasured(ms, d, ns)
    BY <1>2, <1>6, <2>1, MeasuredAre
  <2> QED BY <2>2 DEF IsMeasured
<1>8. KeepsPauses(ps, ns)
  <2>1. Len(ns) = Len(Flat(ps)) /\ \A k \in 1..Len(ns) : ns[k] # no_pause
    BY <1>1, <1>7
  <2> QED BY <2>1, PausesKept
<1>9. qs = WriteBack(ps, ns)
  BY <1>1, <1>4, <1>6
<1>10. /\ qs \in Seq(AccentPhrase) /\ Len(qs) = Len(ps) /\ Flat(qs) = ns
       /\ \A p \in 1..Len(ps) :
              /\ Size(qs, p) = Size(ps, p) /\ Len(qs[p].moras) = Len(ps[p].moras)
              /\ qs[p].accent = ps[p].accent
       /\ \A p \in 1..(Len(ps) + 1) : Before(qs, p) = Before(ps, p)
       /\ \A p \in 1..Len(ps) : \A k \in 1..Size(ps, p) :
              AtSlot(qs, <<p, k>>) = ns[Before(ps, p) + k]
  BY <1>1, <1>7, <1>8, <1>9, WriteBackKeeps
<1>11. Accented(qs)
  <2>1. DOMAIN qs = 1..Len(ps) /\ DOMAIN ps = 1..Len(ps)
    BY <1>10
  <2> QED BY <1>10, <2>1 DEF Accented
<1>12. \A k : VowelAt(ns, k) = VowelAt(ms, k)
  BY <1>2, <1>7, SameSounds
<1>13. ASSUME NEW p \in 1..Len(qs), NEW k \in 1..Size(qs, p)
       PROVE  RightLength(qs, p, k, output)
  <2>1. p \in 1..Len(ps) /\ k \in 1..Size(ps, p) /\ p \in 1..(Len(ps) + 1)
    <3>1. Len(ps) \in Nat /\ p \in 1..Len(ps)
      BY <1>10
    <3> QED BY <1>10, <3>1
  <2>2. PICK x : x = Before(ps, p) + k
    OBVIOUS
  <2>3. x \in 1..Len(ms)
    BY <1>1, <2>1, <2>2, FlatShape
  <2>4. AtSlot(qs, <<p, k>>) = ns[x] /\ Before(qs, p) + k = x
    BY <1>10, <2>1, <2>2
  <2>5. PICK v : v = VowelAt(ms, x)
    OBVIOUS
  <2>6. v \in 1..n /\ (HasConsonant(ms[x]) => v - 1 \in 1..n)
    BY <1>2, <1>3, <2>3, <2>5, VowelsAt DEF HasConsonant
  <2>7. VowelAt(Flat(qs), Before(qs, p) + k) = v
    BY <1>10, <1>12, <2>4, <2>5
  <2>8. ns[x].vowelLength = output[v + 1]
    BY <1>5, <1>7, <2>3, <2>5, <2>6
  <2>9. HasConsonant(ns[x]) => ns[x].consonantLength = output[v]
    <3> SUFFICES ASSUME HasConsonant(ns[x]) PROVE ns[x].consonantLength = output[v]
      OBVIOUS
    <3>4. ns[x].consonantLength = d[VowelAt(ms, x) - 1] /\ HasConsonant(ms[x])
      BY <1>7, <2>3 DEF HasConsonant
    <3>1. ns[x].consonantLength = d[v - 1] /\ v - 1 \in 1..n
      BY <2>5, <2>6, <3>4
    <3>2. (v - 1) + 1 = v
      <4>1. v \in Nat
        BY <2>6
      <4> QED BY <4>1
    <3> QED BY <1>5, <3>1, <3>2
  <2> QED BY <2>4, <2>7, <2>8, <2>9 DEF RightLength
<1>14. LengthsOf(qs, output)
  BY <1>13 DEF LengthsOf
<1> QED BY <1>1, <1>5, <1>7, <1>10, <1>11, <1>14 DEF HasLengths

LEMMA PitchesWritten ==
  ASSUME NEW ps \in Seq(AccentPhrase), Accented(ps), NEW lengthOutput, LengthsOf(ps, lengthOutput),
         NEW answer, NEW output, IsAnswer(answer, Len(Flat(ps)), output),
         NEW qs, qs = WriteBack(ps, Pitched(Flat(ps), DropEdge(output)))
  PROVE  HasPitches(ps, lengthOutput, output, qs)
<1>1. PICK ms : ms = Flat(ps)
  OBVIOUS
<1>2. ms \in Seq(Mora)
  BY <1>1, FlatShape
<1>3. PICK d : d = DropEdge(output)
  OBVIOUS
<1> HIDE DEF AccentPhrase, Mora
<1>4. PICK n \in Nat : n = Len(ms)
  BY <1>2
<1>5. /\ output \in Seq(Nat) /\ d \in Seq(Nat) /\ Len(d) = n
      /\ \A j \in 1..n : d[j] = output[j + 1]
  BY <1>1, <1>3, <1>4, EdgesDropped, ZenonT(50) DEF IsAnswer
<1>6. PICK ns : ns = Pitched(ms, d)
  OBVIOUS
<1>7. /\ ns \in Seq(Mora) /\ Len(ns) = Len(ms)
      /\ \A k \in 1..Len(ms) :
              /\ ns[k].consonant = ms[k].consonant /\ ns[k].vowel = ms[k].vowel
              /\ ns[k].vowelLength = ms[k].vowelLength
              /\ ns[k].consonantLength = ms[k].consonantLength
              /\ ns[k] # no_pause
              /\ ns[k].pitch = IF ns[k].vowel \in Unvoiced THEN 0 ELSE d[k]
  BY <1>2, <1>4, <1>5, <1>6, PitchedAre
<1>8. KeepsPauses(ps, ns)
  <2>1. Len(ns) = Len(Flat(ps)) /\ \A k \in 1..Len(ns) : ns[k] # no_pause
    BY <1>1, <1>7
  <2> QED BY <2>1, PausesKept
<1>9. qs = WriteBack(ps, ns)
  BY <1>1, <1>3, <1>6
<1>10. /\ qs \in Seq(AccentPhrase) /\ Len(qs) = Len(ps) /\ Flat(qs) = ns
       /\ \A p \in 1..Len(ps) :
              /\ Size(qs, p) = Size(ps, p) /\ Len(qs[p].moras) = Len(ps[p].moras)
              /\ qs[p].accent = ps[p].accent
       /\ \A p \in 1..(Len(ps) + 1) : Before(qs, p) = Before(ps, p)
       /\ \A p \in 1..Len(ps) : \A k \in 1..Size(ps, p) :
              AtSlot(qs, <<p, k>>) = ns[Before(ps, p) + k]
  BY <1>1, <1>7, <1>8, <1>9, WriteBackKeeps
<1>11. Accented(qs)
  <2>1. DOMAIN qs = 1..Len(ps) /\ DOMAIN ps = 1..Len(ps)
    BY <1>10
  <2> QED BY <1>10, <2>1 DEF Accented
<1>12. \A k : VowelAt(ns, k) = VowelAt(ms, k)
  BY <1>2, <1>7, SameSounds
<1>13. ASSUME NEW p \in 1..Len(qs), NEW k \in 1..Size(qs, p)
       PROVE  RightLength(qs, p, k, lengthOutput) /\ RightPitch(qs, p, k, output)
  <2>1. p \in 1..Len(ps) /\ k \in 1..Size(ps, p) /\ p \in 1..(Len(ps) + 1)
    <3>1. Len(ps) \in Nat /\ p \in 1..Len(ps)
      BY <1>10
    <3> QED BY <1>10, <3>1
  <2>2. PICK x : x = Before(ps, p) + k
    OBVIOUS
  <2>3. x \in 1..Len(ms) /\ ms[x] = AtSlot(ps, <<p, k>>)
    BY <1>1, <2>1, <2>2, FlatShape
  <2>4. AtSlot(qs, <<p, k>>) = ns[x] /\ Before(qs, p) + k = x
    BY <1>10, <2>1, <2>2
  <2>5. /\ ms[x].vowelLength = lengthOutput[VowelAt(ms, x) + 1]
        /\ HasConsonant(ms[x]) => ms[x].consonantLength = lengthOutput[VowelAt(ms, x)]
    BY <1>1, <2>1, <2>2, <2>3 DEF LengthsOf, RightLength
  <2>6. VowelAt(Flat(qs), Before(qs, p) + k) = VowelAt(ms, x)
    BY <1>10, <1>12, <2>4
  <2>7. ns[x].pitch = IF ns[x].vowel \in Unvoiced THEN 0 ELSE output[x + 1]
    BY <1>4, <1>5, <1>7, <2>3
  <2>8. /\ ns[x].vowelLength = ms[x].vowelLength /\ (HasConsonant(ns[x]) <=> HasConsonant(ms[x]))
        /\ ns[x].consonantLength = ms[x].consonantLength
    BY <1>7, <2>3 DEF HasConsonant
  <2>9. RightLength(qs, p, k, lengthOutput)
    BY <2>4, <2>5, <2>6, <2>8 DEF RightLength
  <2>10. RightPitch(qs, p, k, output)
    BY <2>4, <2>7 DEF RightPitch
  <2> QED BY <2>9, <2>10
<1>14. LengthsOf(qs, lengthOutput)
  BY <1>13 DEF LengthsOf
<1>15. PitchesOf(qs, output)
  BY <1>13, Zenon DEF PitchesOf
<1> QED BY <1>1, <1>5, <1>7, <1>10, <1>11, <1>14, <1>15 DEF HasPitches

LEMMA LengthsAre ==
  ASSUME NEW ps \in Seq(AccentPhrase), NEW output, LengthsOf(ps, output), NEW s \in Slots(ps)
  PROVE  /\ AtSlot(ps, s).vowelLength = output[PhonemePlace(ps, s) + 1]
         /\ AtSlot(ps, s).consonant # "" =>
              AtSlot(ps, s).consonantLength = output[(PhonemePlace(ps, s) + 1) - 1]
<1>1. PICK p \in 1..Len(ps) : \E k \in 1..Size(ps, p) : s = <<p, k>>
  BY SlotsAre
<1>2. PICK k \in 1..Size(ps, p) : s = <<p, k>>
  BY <1>1
<1>3. PhonemePlace(ps, s) = VowelAt(Flat(ps), Before(ps, p) + k)
  BY <1>2, PhonemePlaces
<1>4. PICK v \in Nat : v = VowelAt(Flat(ps), Before(ps, p) + k)
  <2>1. PICK ms \in Seq(Mora) : ms = Flat(ps)
    BY FlatShape
  <2>2. PICK x \in 1..Len(ms) : x = Before(ps, p) + k
    BY <2>1, FlatShape
  <2> HIDE DEF AccentPhrase, Mora
  <2>3. x \in 0..Len(ms)
    OBVIOUS
  <2>4. VowelAt(ms, x) \in Nat
    BY <2>3, VowelsAt
  <2> QED BY <2>1, <2>2, <2>4
<1> HIDE DEF AccentPhrase, Mora
<1>5. RightLength(ps, p, k, output)
  BY DEF LengthsOf
<1>6. (v + 1) - 1 = v
  OBVIOUS
<1>7. /\ AtSlot(ps, s).vowelLength = output[v + 1]
      /\ HasConsonant(AtSlot(ps, s)) => AtSlot(ps, s).consonantLength = output[v]
  BY <1>2, <1>4, <1>5 DEF RightLength
<1>8. PhonemePlace(ps, s) = v
  BY <1>3, <1>4
<1> QED BY <1>6, <1>7, <1>8 DEF HasConsonant

LEMMA PitchesAre ==
  ASSUME NEW ps \in Seq(AccentPhrase), NEW output, PitchesOf(ps, output), NEW s \in Slots(ps)
  PROVE  AtSlot(ps, s).pitch =
           IF AtSlot(ps, s).vowel \in Unvoiced THEN 0 ELSE output[PlaceOf(ps, s) + 1]
<1>1. PICK p \in 1..Len(ps) : \E k \in 1..Size(ps, p) : s = <<p, k>>
  BY SlotsAre
<1>2. PICK k \in 1..Size(ps, p) : s = <<p, k>>
  BY <1>1
<1>3. Size(ps, p) \in Nat
  BY PieceShape
<1>4. PlaceOf(ps, s) = Before(ps, p) + k
  <2>1. k \in 0..Size(ps, p)
    BY <1>3
  <2> QED BY <1>2, <2>1, Places
<1> HIDE DEF AccentPhrase, Mora
<1>5. RightPitch(ps, p, k, output)
  BY DEF PitchesOf
<1> QED BY <1>2, <1>4, <1>5 DEF RightPitch

MarksRight(ps, arrays) ==
  /\ \A a \in 1..4 : Len(arrays[a]) = Len(Flat(ps))
  /\ Ones(arrays[1]) = {Before(ps, p) + Rise(ps[p]) : p \in 1..Len(ps)}
  /\ Ones(arrays[2]) = {Before(ps, p) + ps[p].accent : p \in 1..Len(ps)}
  /\ Ones(arrays[3]) = {Before(ps, p) + 1 : p \in 1..Len(ps)}
  /\ Ones(arrays[4]) = {Before(ps, p) + Len(ps[p].moras) : p \in 1..Len(ps)}

-----------------------------------------------------------------------------
(* The invariant of a request for speech.                                  *)

\* What the phrases are between the steps that write to them.
PhrasesReady ==
  /\ speechStatus = "length" => phrases \in Texts
  /\ speechStatus \in {"pitch", "reply"} =>
       Accented(phrases) /\ LengthsOf(phrases, answered.lengths)
  /\ speechStatus = "pitch" =>
       \A answer \in PitchAnswers : Len(answer) >= Len(Flat(phrases)) + 2
  /\ speechStatus \in {"reply", "edit"} => PitchesOf(phrases, answered.pitches)
  /\ speechStatus = "reply" /\ phrases # <<>> => MarksRight(phrases, marks)

SpeechInv == SpeechTypeOK /\ PhrasesReady

LEMMA SpeechInvEnough == SpeechInv => PredictionsBelong
<1> SUFFICES ASSUME SpeechInv PROVE LengthsBelong /\ PitchesBelong /\ AccentsMarked
  BY DEF SpeechInv, PredictionsBelong
<1>1. phrases \in Seq(AccentPhrase)
  BY DEF SpeechInv, SpeechTypeOK
<1> HIDE DEF AccentPhrase, Mora
<1>2. LengthsBelong
  <2> SUFFICES ASSUME speechStatus \in {"pitch", "reply"}, NEW s \in Slots(phrases)
               PROVE  /\ AtSlot(phrases, s).vowelLength
                           = answered.lengths[PhonemePlace(phrases, s) + 1]
                      /\ AtSlot(phrases, s).consonant # "" =>
                           AtSlot(phrases, s).consonantLength
                             = answered.lengths[(PhonemePlace(phrases, s) + 1) - 1]
    BY Zenon DEF LengthsBelong
  <2>1. LengthsOf(phrases, answered.lengths)
    BY DEF SpeechInv, PhrasesReady
  <2> QED BY <1>1, <2>1, LengthsAre
<1>3. PitchesBelong
  <2> SUFFICES ASSUME speechStatus \in {"reply", "edit"}, NEW s \in Slots(phrases)
               PROVE  AtSlot(phrases, s).pitch =
                        IF AtSlot(phrases, s).vowel \in Unvoiced THEN 0
                        ELSE answered.pitches[PlaceOf(phrases, s) + 1]
    BY Zenon DEF PitchesBelong
  <2>1. PitchesOf(phrases, answered.pitches)
    BY DEF SpeechInv, PhrasesReady
  <2> QED BY <1>1, <2>1, PitchesAre
<1>4. AccentsMarked
  <2> SUFFICES ASSUME speechStatus = "reply", phrases # <<>>
               PROVE  /\ \A a \in 1..4 : Len(marks[a]) = Cardinality(Slots(phrases))
                      /\ Ones(marks[1]) = {PlaceOf(phrases, <<p, Rise(phrases[p])>>) : p \in DOMAIN phrases}
                      /\ Ones(marks[2]) = {PlaceOf(phrases, <<p, phrases[p].accent>>) : p \in DOMAIN phrases}
                      /\ Ones(marks[3]) = {PlaceOf(phrases, <<p, 1>>) : p \in DOMAIN phrases}
                      /\ Ones(marks[4]) = {PlaceOf(phrases, <<p, Len(phrases[p].moras)>>) : p \in DOMAIN phrases}
    BY Zenon DEF AccentsMarked, Rise
  <2>1. Accented(phrases) /\ MarksRight(phrases, marks)
    BY DEF SpeechInv, PhrasesReady
  <2>2. DOMAIN phrases = 1..Len(phrases)
    BY <1>1
  <2>3. ASSUME NEW p \in 1..Len(phrases)
        PROVE  /\ PlaceOf(phrases, <<p, Rise(phrases[p])>>) = Before(phrases, p) + Rise(phrases[p])
               /\ PlaceOf(phrases, <<p, phrases[p].accent>>) = Before(phrases, p) + phrases[p].accent
               /\ PlaceOf(phrases, <<p, 1>>) = Before(phrases, p) + 1
               /\ PlaceOf(phrases, <<p, Len(phrases[p].moras)>>)
                    = Before(phrases, p) + Len(phrases[p].moras)
    <3>1. PICK n : n = Len(phrases[p].moras)
      OBVIOUS
    <3>2. PICK a : a = phrases[p].accent
      OBVIOUS
    <3>3. n \in Nat
      <4>1. phrases[p].moras \in Seq(Mora)
        BY <1>1, PieceShape
      <4> QED BY <3>1, <4>1
    <3>4. a \in 1..n
      BY <2>1, <2>2, <3>1, <3>2 DEF Accented
    <3>5. Size(phrases, p) = n \/ Size(phrases, p) = n + 1
      <4>1. Size(phrases, p) = n + (IF HasPause(phrases[p]) THEN 1 ELSE 0)
        BY <3>1 DEF Size
      <4>2. PICK z : z = Size(phrases, p)
        OBVIOUS
      <4> QED BY <3>3, <4>1, <4>2
    <3>6. Rise(phrases[p]) = IF a = 1 THEN 1 ELSE 2
      BY <3>2 DEF Rise
    <3>7. PICK r : r = Rise(phrases[p])
      OBVIOUS
    <3>8. /\ r \in 0..Size(phrases, p) /\ a \in 0..Size(phrases, p) /\ 1 \in 0..Size(phrases, p)
          /\ n \in 0..Size(phrases, p)
      BY <3>3, <3>4, <3>5, <3>6, <3>7
    <3> QED BY <1>1, <3>1, <3>2, <3>7, <3>8, Places
  <2>4. Cardinality(Slots(phrases)) = Len(Flat(phrases))
    BY <1>1, Places
  <2>5. /\ {PlaceOf(phrases, <<p, Rise(phrases[p])>>) : p \in DOMAIN phrases}
             = {Before(phrases, p) + Rise(phrases[p]) : p \in 1..Len(phrases)}
        /\ {PlaceOf(phrases, <<p, phrases[p].accent>>) : p \in DOMAIN phrases}
             = {Before(phrases, p) + phrases[p].accent : p \in 1..Len(phrases)}
        /\ {PlaceOf(phrases, <<p, 1>>) : p \in DOMAIN phrases}
             = {Before(phrases, p) + 1 : p \in 1..Len(phrases)}
        /\ {PlaceOf(phrases, <<p, Len(phrases[p].moras)>>) : p \in DOMAIN phrases}
             = {Before(phrases, p) + Len(phrases[p].moras) : p \in 1..Len(phrases)}
    BY <2>2, <2>3
  <2> QED BY <2>1, <2>4, <2>5, Zenon DEF MarksRight
<1> QED BY <1>2, <1>3, <1>4

-----------------------------------------------------------------------------
(* Sums.                                                                   *)

PartialSums(seq, f) ==
  /\ f \in [0..Len(seq) -> Int] /\ f[0] = 0
  /\ \A n \in 1..Len(seq) : f[n] = f[n - 1] + seq[n]

LEMMA SumExists ==
  ASSUME NEW seq \in Seq(Int)
  PROVE  \E f : PartialSums(seq, f) /\ Sum(seq) = f[Len(seq)]
<1> DEFINE N == Len(seq)
           next == [x \in Nat \X Int |-> IF x[1] \in 1..N THEN x[2] + seq[x[1]] ELSE 0]
           Is(f) == f = [n \in 0..N |-> IF n = 0 THEN 0 ELSE f[n - 1] + seq[n]]
<1>1. N \in Nat /\ \A n \in 1..N : seq[n] \in Int
  OBVIOUS
<1>2. next \in [Nat \X Int -> Int]
  BY <1>1
<1>3. PICK g : Recurs(g, Int, 0, next, N)
  <2>1. 0 \in Int /\ N \in Nat
    BY <1>1
  <2> HIDE DEF next, N
  <2> QED BY <1>2, <2>1, RecursionUpTo, Zenon
<1>4. g \in [0..N -> Int] /\ g[0] = 0 /\ \A n \in 1..N : g[n] = g[n - 1] + seq[n]
  <2>1. g \in [0..N -> Int] /\ g[0] = 0 /\ \A n \in 1..N : g[n] = next[<<n, g[n - 1]>>]
    <3> HIDE DEF next
    <3> QED BY <1>3 DEF Recurs
  <2>2. ASSUME NEW n \in 1..N PROVE g[n] = g[n - 1] + seq[n]
    <3>1. n - 1 \in 0..N /\ n \in Nat
      BY <1>1
    <3>2. <<n, g[n - 1]>> \in Nat \X Int
      BY <2>1, <3>1
    <3>3. next[<<n, g[n - 1]>>] = g[n - 1] + seq[n]
      BY <3>2
    <3> QED BY <2>1, <3>3
  <2> QED BY <2>1, <2>2
<1>5. Is(g)
  <2>1. \A n \in 0..N : g[n] = IF n = 0 THEN 0 ELSE g[n - 1] + seq[n]
    <3> SUFFICES ASSUME NEW n \in 0..N PROVE g[n] = IF n = 0 THEN 0 ELSE g[n - 1] + seq[n]
      OBVIOUS
    <3>1. n = 0 \/ n \in 1..N
      BY <1>1
    <3> QED BY <1>4, <3>1
  <2> QED BY <1>4, <2>1
<1> DEFINE sum == CHOOSE f : Is(f)
<1>6. Is(sum)
  BY <1>5
<1>7. Sum(seq) = sum[N]
  BY DEF Sum
<1> HIDE DEF sum
<1>8. \A n \in 0..N : sum[n] = IF n = 0 THEN 0 ELSE sum[n - 1] + seq[n]
  BY <1>6
<1> HIDE DEF Is
<1> DEFINE P == {n \in Nat : n <= N => sum[n] = g[n]}
<1>9. P \in SUBSET Nat /\ 0 \in P
  <2>1. 0 \in 0..N
    BY <1>1
  <2> QED BY <1>4, <1>8, <2>1
<1>10. ASSUME NEW n \in P PROVE n + 1 \in P
  <2> SUFFICES ASSUME n + 1 <= N PROVE sum[n + 1] = g[n + 1]
    OBVIOUS
  <2>1. n + 1 \in 0..N /\ n + 1 \in 1..N /\ (n + 1) - 1 = n /\ n + 1 # 0 /\ n <= N
    BY <1>1
  <2> QED BY <1>4, <1>8, <2>1
<1>11. N \in P
  <2> HIDE DEF P
  <2> QED BY <1>1, <1>9, <1>10, Induction
<1>12. Sum(seq) = g[N]
  BY <1>7, <1>11
<1> QED BY <1>4, <1>12 DEF PartialSums

LEMMA SumIsInt ==
  ASSUME NEW seq \in Seq(Int)
  PROVE  Sum(seq) \in Int
<1>1. PICK f : PartialSums(seq, f) /\ Sum(seq) = f[Len(seq)]
  BY SumExists
<1>2. Len(seq) \in 0..Len(seq)
  OBVIOUS
<1> QED BY <1>1, <1>2 DEF PartialSums

-----------------------------------------------------------------------------
(* Every step leaves records of the right type.                            *)

Edited(ps, p, k) == [ps EXCEPT ![p].moras[k].consonantLength = -1]
Muted(ps, p, k) == [ps EXCEPT ![p].moras[k].pitch = 0]

\* Another mora in place of one.
LEMMA MoraPut ==
  ASSUME NEW ps \in Seq(AccentPhrase), NEW p \in 1..Len(ps), NEW k \in 1..Len(ps[p].moras),
         NEW m \in Mora, NEW qs,
         qs = [ps EXCEPT ![p] = [ps[p] EXCEPT !.moras = [ps[p].moras EXCEPT ![k] = m]]]
  PROVE  qs \in Seq(AccentPhrase)
<1>1. PICK phrase : phrase = ps[p]
  OBVIOUS
<1>2. phrase \in AccentPhrase
  BY <1>1
<1>3. PICK ms : ms = phrase.moras
  OBVIOUS
<1>4. ms \in Seq(Mora)
  BY <1>1, <1>3, PieceShape
<1> HIDE DEF Mora
<1>5. PICK ns : ns = [ms EXCEPT ![k] = m]
  OBVIOUS
<1>6. ns \in Seq(Mora)
  <2>1. k \in 1..Len(ms)
    BY <1>1, <1>3
  <2> QED BY <1>4, <1>5, <2>1
<1>7. PICK new : new = [phrase EXCEPT !.moras = ns]
  OBVIOUS
<1>8. new \in AccentPhrase
  BY <1>2, <1>6, <1>7 DEF AccentPhrase
<1> HIDE DEF AccentPhrase
<1>9. qs = [ps EXCEPT ![p] = new]
  BY <1>1, <1>3, <1>5, <1>7
<1> QED BY <1>8, <1>9, SMTT(30)

WithConsonantLength(m, c) == [m EXCEPT !.consonantLength = c]
WithVowelLength(m, l) == [m EXCEPT !.vowelLength = l]
WithPitch(m, c) == [m EXCEPT !.pitch = c]

LEMMA FieldsSet ==
  ASSUME NEW m \in Mora, NEW x \in Int
  PROVE  WithConsonantLength(m, x) \in Mora /\ WithVowelLength(m, x) \in Mora
         /\ WithPitch(m, x) \in Mora
BY DEF Mora, WithConsonantLength, WithVowelLength, WithPitch

LEMMA EditsTyped ==
  ASSUME NEW ps \in Seq(AccentPhrase), NEW p \in DOMAIN ps, NEW k \in DOMAIN ps[p].moras
  PROVE  Edited(ps, p, k) \in Seq(AccentPhrase) /\ Muted(ps, p, k) \in Seq(AccentPhrase)
<1>1. p \in 1..Len(ps)
  OBVIOUS
<1>2. ps[p].moras \in Seq(Mora)
  BY <1>1, PieceShape
<1> HIDE DEF AccentPhrase, Mora
<1>3. k \in 1..Len(ps[p].moras) /\ ps[p].moras[k] \in Mora
  BY <1>2
<1>4. -1 \in Int /\ 0 \in Int
  OBVIOUS
<1>5. /\ WithConsonantLength(ps[p].moras[k], -1) \in Mora
      /\ WithPitch(ps[p].moras[k], 0) \in Mora
  BY <1>3, <1>4, FieldsSet
<1>6. Edited(ps, p, k) = [ps EXCEPT ![p] = [ps[p] EXCEPT !.moras =
        [ps[p].moras EXCEPT ![k] = WithConsonantLength(ps[p].moras[k], -1)]]]
  BY Zenon DEF Edited, WithConsonantLength
<1>7. Muted(ps, p, k) = [ps EXCEPT ![p] = [ps[p] EXCEPT !.moras =
        [ps[p].moras EXCEPT ![k] = WithPitch(ps[p].moras[k], 0)]]]
  BY Zenon DEF Muted, WithPitch
<1>8. ASSUME NEW m \in Mora, NEW qs,
             qs = [ps EXCEPT ![p] = [ps[p] EXCEPT !.moras = [ps[p].moras EXCEPT ![k] = m]]]
      PROVE  qs \in Seq(AccentPhrase)
  BY <1>1, <1>3, <1>8, MoraPut
<1>9. Edited(ps, p, k) \in Seq(AccentPhrase)
  BY <1>5, <1>6, <1>8, Zenon
<1>10. Muted(ps, p, k) \in Seq(AccentPhrase)
  BY <1>5, <1>7, <1>8, Zenon
<1> QED BY <1>9, <1>10

LEMMA MoraMade ==
  ASSUME NEW c \in Consonants, NEW v \in Vowels, NEW x \in Int, NEW y \in Int, NEW z \in Int
  PROVE  [consonant |-> c, vowel |-> v, consonantLength |-> x, vowelLength |-> y, pitch |-> z] \in Mora
BY DEF Mora

LEMMA UpspeakTyped ==
  ASSUME NEW phrase \in AccentPhrase
  PROVE  WithUpspeak(phrase) \in AccentPhrase
<1>1. CASE ~AsksUp(phrase)
  BY <1>1 DEF WithUpspeak
<1>2. CASE AsksUp(phrase)
  <2>1. PICK ms : ms = phrase.moras
    OBVIOUS
  <2> HIDE DEF Mora
  <2>2. ms \in Seq(Mora) /\ ms # <<>>
    BY <1>2, <2>1 DEF AccentPhrase, AsksUp
  <2>3. PICK last : last = Last(ms)
    OBVIOUS
  <2>4. last \in Mora
    <3>1. Len(ms) \in 1..Len(ms)
      BY <2>2
    <3> QED BY <2>2, <2>3, <3>1 DEF Last
  <2>5. UpspeakMora(last) \in Mora
    <3>1. last.vowel \in Vowels /\ last.vowelLength \in Int /\ last.pitch \in Int
      BY <2>4 DEF Mora
    <3>2. PICK high : high = LowerOf(last.pitch + UpspeakPitchAdd, UpspeakPitchMax)
      OBVIOUS
    <3>3. high \in Int
      BY <3>1, <3>2 DEF LowerOf, UpspeakPitchAdd, UpspeakPitchMax
    <3>4. "" \in Consonants
      BY DEF Consonants
    <3>5. UpspeakMora(last) = [consonant |-> "", vowel |-> last.vowel, consonantLength |-> -1,
                               vowelLength |-> last.vowelLength, pitch |-> high]
      BY <3>2 DEF UpspeakMora
    <3>6. -1 \in Int
      OBVIOUS
    <3> QED BY <3>1, <3>3, <3>4, <3>5, <3>6, MoraMade
  <2>6. PICK ns : ns = Append(ms, UpspeakMora(last))
    OBVIOUS
  <2>7. ns \in Seq(Mora)
    BY <2>2, <2>5, <2>6
  <2>8. WithUpspeak(phrase) = [phrase EXCEPT !.moras = ns]
    BY <1>2, <2>1, <2>3, <2>6 DEF WithUpspeak
  <2> QED BY <2>7, <2>8 DEF AccentPhrase
<1> QED BY <1>1, <1>2

FasterBy(m, speed) ==
  [m EXCEPT !.vowelLength = @ \div speed,
            !.consonantLength = IF @ = -1 THEN -1 ELSE @ \div speed]

LEMMA FasterTyped ==
  ASSUME NEW m \in Mora, NEW speed \in Nat \ {0}
  PROVE  FasterBy(m, speed) \in Mora
<1>1. m.vowelLength \in Int /\ m.consonantLength \in Int
  BY DEF Mora
<1>2. m.vowelLength \div speed \in Int /\ m.consonantLength \div speed \in Int
  BY <1>1
<1>3. PICK l, c : /\ l = m.vowelLength \div speed
                  /\ c = IF m.consonantLength = -1 THEN -1 ELSE m.consonantLength \div speed
  OBVIOUS
<1>4. l \in Int /\ c \in Int
  BY <1>2, <1>3
<1>5. FasterBy(m, speed) = WithConsonantLength(WithVowelLength(m, l), c)
  BY <1>3 DEF FasterBy, WithConsonantLength, WithVowelLength, Mora
<1> HIDE DEF Mora
<1> QED BY <1>4, <1>5, FieldsSet

\* The steps of a synthesis that change the flat moras one by one.
LEMMA EachTyped ==
  ASSUME NEW ms \in Seq(Mora), NEW ns, DOMAIN ns = DOMAIN ms, ns = [k \in DOMAIN ns |-> ns[k]],
         \A k \in 1..Len(ms) : ns[k] \in Mora
  PROVE  ns \in Seq(Mora)
<1>1. DOMAIN ms = 1..Len(ms) /\ Len(ms) \in Nat
  OBVIOUS
<1> HIDE DEF Mora
<1>2. ns \in [1..Len(ms) -> Mora]
  BY <1>1
<1> QED BY <1>1, <1>2

LEMMA ScaleFields ==
  ASSUME SpeechTypeOK
  PROVE  /\ scales.speed \in Nat \ {0} /\ scales.pitch \in Nat \ {0} /\ scales.intonation \in Nat
         /\ scales.pauseLength \in Int /\ scales.pauseScale \in Nat /\ scales.upspeak \in BOOLEAN
<1>1. scales \in ScaleType
  BY QueryAssumption DEF SpeechTypeOK
<1> QED BY <1>1 DEF ScaleType

LEMMA PauseTyped ==
  ASSUME SpeechTypeOK, PauseLength
  PROVE  moras' \in Seq(Mora)
<1>1. /\ moras \in Seq(Mora) /\ scales.pauseLength \in Int /\ scales.pauseScale \in Nat
  BY ScaleFields DEF SpeechTypeOK
<1> DEFINE asked(k) == IF scales.pauseLength # -1 THEN scales.pauseLength ELSE moras[k].vowelLength
<1>2. moras' = [k \in DOMAIN moras |->
                  IF moras[k].vowel = "pau"
                  THEN WithVowelLength(moras[k], asked(k) * scales.pauseScale) ELSE moras[k]]
  BY Zenon DEF PauseLength, Change, WithVowelLength
<1>3. ASSUME NEW k \in 1..Len(moras) PROVE moras'[k] \in Mora
  <2>1. k \in DOMAIN moras /\ moras[k] \in Mora
    BY <1>1
  <2>2. moras[k].vowelLength \in Int
    BY <2>1 DEF Mora
  <2>3. asked(k) * scales.pauseScale \in Int
    BY <1>1, <2>2
  <2> HIDE DEF asked, Mora
  <2>4. WithVowelLength(moras[k], asked(k) * scales.pauseScale) \in Mora
    BY <2>1, <2>3, FieldsSet
  <2> QED BY <1>2, <2>1, <2>4
<1> HIDE DEF asked, Mora
<1> QED BY <1>1, <1>2, <1>3, EachTyped

LEMMA SpeedTyped ==
  ASSUME SpeechTypeOK, SpeedScale
  PROVE  moras' \in Seq(Mora)
<1>1. moras \in Seq(Mora) /\ scales.speed \in Nat \ {0}
  BY ScaleFields DEF SpeechTypeOK
<1>2. moras' = [k \in DOMAIN moras |-> FasterBy(moras[k], scales.speed)]
  BY Zenon DEF SpeedScale, Change, FasterBy
<1> HIDE DEF Mora
<1>3. ASSUME NEW k \in 1..Len(moras) PROVE moras'[k] \in Mora
  <2>1. k \in DOMAIN moras /\ moras[k] \in Mora
    BY <1>1
  <2> QED BY <1>1, <1>2, <2>1, FasterTyped
<1> QED BY <1>1, <1>2, <1>3, EachTyped

LEMMA PitchTyped ==
  ASSUME SpeechTypeOK, PitchScale
  PROVE  moras' \in Seq(Mora)
<1>1. moras \in Seq(Mora) /\ scales.pitch \in Nat \ {0}
  BY ScaleFields DEF SpeechTypeOK
<1>2. moras' = [k \in DOMAIN moras |-> WithPitch(moras[k], moras[k].pitch * scales.pitch)]
  BY Zenon DEF PitchScale, Change, WithPitch
<1>3. ASSUME NEW k \in 1..Len(moras) PROVE moras'[k] \in Mora
  <2>1. k \in DOMAIN moras /\ moras[k] \in Mora
    BY <1>1
  <2>2. moras[k].pitch \in Int
    BY <2>1 DEF Mora
  <2>3. moras[k].pitch * scales.pitch \in Int
    BY <1>1, <2>2
  <2> HIDE DEF Mora
  <2>4. WithPitch(moras[k], moras[k].pitch * scales.pitch) \in Mora
    BY <2>1, <2>3, FieldsSet
  <2> QED BY <1>2, <2>1, <2>4
<1> HIDE DEF Mora
<1> QED BY <1>1, <1>2, <1>3, EachTyped

\* The moras that have a pitch.
VoicedOnly(ms) == [k \in DOMAIN ms |-> IF ms[k].pitch > 0 THEN <<ms[k]>> ELSE <<>>]

LEMMA VoicedAre ==
  ASSUME NEW ms \in Seq(Mora)
  PROVE  /\ Voiced(ms) = FlattenSeq(VoicedOnly(ms))
         /\ VoicedOnly(ms) \in Seq(Seq(Mora)) /\ Len(VoicedOnly(ms)) = Len(ms)
         /\ \A k \in 1..Len(ms) : VoicedOnly(ms)[k] = IF ms[k].pitch > 0 THEN <<ms[k]>> ELSE <<>>
         /\ Voiced(ms) \in Seq(Mora)
         /\ \A k \in 1..Len(ms) : ms[k].pitch > 0 => Len(Voiced(ms)) > 0
<1>1. DOMAIN ms = 1..Len(ms) /\ Len(ms) \in Nat /\ \A k \in 1..Len(ms) : ms[k] \in Mora
  OBVIOUS
<1> HIDE DEF Mora
<1>2. PICK vs : vs = VoicedOnly(ms)
  OBVIOUS
<1>3. \A k \in 1..Len(ms) : vs[k] = IF ms[k].pitch > 0 THEN <<ms[k]>> ELSE <<>>
  BY <1>1, <1>2 DEF VoicedOnly
<1>4. vs \in Seq(Seq(Mora)) /\ Len(vs) = Len(ms)
  <2>1. \A k \in 1..Len(ms) : <<ms[k]>> \in Seq(Mora) /\ <<>> \in Seq(Mora)
    BY <1>1
  <2>2. vs = [k \in 1..Len(ms) |-> vs[k]] /\ DOMAIN vs = 1..Len(ms)
    BY <1>1, <1>2 DEF VoicedOnly
  <2>3. \A k \in 1..Len(ms) : vs[k] \in Seq(Mora)
    BY <1>3, <2>1
  <2>4. vs \in [1..Len(ms) -> Seq(Mora)]
    BY <2>2, <2>3
  <2> QED BY <1>1, <2>2, <2>4
<1>5. Voiced(ms) = FlattenSeq(vs)
  BY <1>2 DEF Voiced, VoicedOnly
<1>6. PICK all : all = Voiced(ms)
  OBVIOUS
<1>7. /\ all \in Seq(Mora)
      /\ \A p \in 1..Len(vs) : \A k \in 1..Len(vs[p]) : Len(Joint(vs, p - 1)) + k \in 1..Len(all)
  BY <1>4, <1>5, <1>6, JointPlaces
<1>8. ASSUME NEW k \in 1..Len(ms), ms[k].pitch > 0 PROVE Len(all) > 0
  <2>1. vs[k] = <<ms[k]>>
    BY <1>3, <1>8
  <2>2. 1 \in 1..Len(vs[k]) /\ k \in 1..Len(vs)
    BY <1>4, <2>1
  <2>3. Len(Joint(vs, k - 1)) + 1 \in 1..Len(all)
    BY <1>7, <2>2
  <2>4. Len(all) \in Nat
    BY <1>7
  <2> QED BY <2>3, <2>4
<1> QED BY <1>2, <1>3, <1>4, <1>5, <1>6, <1>7, <1>8

LEMMA PitchesInt ==
  ASSUME NEW ms \in Seq(Mora)
  PROVE  /\ [k \in DOMAIN ms |-> ms[k].pitch] \in Seq(Int)
         /\ Len([k \in DOMAIN ms |-> ms[k].pitch]) = Len(ms)
         /\ PitchSum(ms) \in Int
<1>1. DOMAIN ms = 1..Len(ms) /\ Len(ms) \in Nat
  OBVIOUS
<1>2. \A k \in 1..Len(ms) : ms[k].pitch \in Int
  <2>1. \A m \in Mora : m.pitch \in Int
    BY DEF Mora
  <2> HIDE DEF Mora
  <2> QED BY <2>1
<1> HIDE DEF Mora
<1>3. PICK ps : ps = [k \in DOMAIN ms |-> ms[k].pitch]
  OBVIOUS
<1>4. ps \in [1..Len(ms) -> Int]
  BY <1>1, <1>2, <1>3
<1>5. ps \in Seq(Int) /\ Len(ps) = Len(ms)
  BY <1>1, <1>4
<1>6. PitchSum(ms) = Sum(ps)
  BY <1>3 DEF PitchSum
<1> QED BY <1>3, <1>5, <1>6, SumIsInt

LEMMA IntonationTyped ==
  ASSUME SpeechTypeOK, Intonation
  PROVE  moras' \in Seq(Mora)
<1>1. moras \in Seq(Mora) /\ scales.intonation \in Nat
  BY ScaleFields DEF SpeechTypeOK
<1> DEFINE mean == PitchSum(Voiced(moras)) \div Len(Voiced(moras))
           to(k) == (moras[k].pitch - mean) * scales.intonation + mean
<1>2. moras' = [k \in DOMAIN moras |->
                  IF moras[k].pitch > 0 THEN WithPitch(moras[k], to(k)) ELSE moras[k]]
  BY Zenon DEF Intonation, Change, WithPitch
<1>3. ASSUME NEW k \in 1..Len(moras) PROVE moras'[k] \in Mora
  <2>1. k \in DOMAIN moras /\ moras[k] \in Mora
    BY <1>1
  <2>2. moras[k].pitch \in Int
    BY <2>1 DEF Mora
  <2> HIDE DEF Mora
  <2>3. CASE moras[k].pitch > 0
    <3>1. PICK n : n = Len(Voiced(moras))
      OBVIOUS
    <3>2. n \in Nat /\ n > 0 /\ Voiced(moras) \in Seq(Mora)
      BY <1>1, <2>3, <3>1, VoicedAre
    <3>3. PICK total \in Int : total = PitchSum(Voiced(moras))
      BY <3>2, PitchesInt
    <3>4. total \div n \in Int
      BY <3>2
    <3>5. PICK m \in Int : m = mean
      BY <3>1, <3>3, <3>4
    <3>6. PICK c : c = moras[k].pitch /\ c \in Int
      BY <2>2
    <3>7. (c - m) * scales.intonation + m \in Int
      BY <1>1, <3>6
    <3>8. to(k) \in Int
      BY <3>5, <3>6, <3>7
    <3> HIDE DEF to
    <3>9. WithPitch(moras[k], to(k)) \in Mora
      BY <2>1, <3>8, FieldsSet
    <3> QED BY <1>2, <2>1, <2>3, <3>9
  <2>4. CASE ~(moras[k].pitch > 0)
    <3> HIDE DEF to
    <3> QED BY <1>2, <2>1, <2>4
  <2> QED BY <2>3, <2>4
<1> HIDE DEF to, mean, Mora
<1> QED BY <1>1, <1>2, <1>3, EachTyped

\* What the steps after the reply leave to type.
Later == {"upspeak", "flatten", "pause", "speed", "tune", "intonation", "decode",
          "done", "thrown", "undefined"}

LEMMA LaterReady == ASSUME speechStatus' \in Later PROVE PhrasesReady'
BY DEF PhrasesReady, Later

LEMMA SpeechStart == SpeechInit => SpeechInv
<1> SUFFICES ASSUME SpeechInit PROVE SpeechTypeOK /\ PhrasesReady
  BY DEF SpeechInv
<1>1. PhrasesReady
  BY DEF SpeechInit, PhrasesReady
<1>2. SpeechTypeOK
  <2>1. <<>> \in Seq(AccentPhrase) /\ <<>> \in Seq(Mora) /\ <<>> \in Seq(Nat) /\ <<>> \in Seq(Int)
        /\ <<>> \in Seq({0, 1}) /\ <<>> \in Seq(Sound)
    OBVIOUS
  <2>2. /\ [lengths |-> <<>>, pitches |-> <<>>] \in [lengths : Seq(Nat), pitches : Seq(Nat)]
        /\ [phonemes |-> <<>>, pitches |-> <<>>] \in [phonemes : Seq(Sound), pitches : Seq(Int)]
        /\ [a \in 1..4 |-> <<>>] \in [1..4 -> Seq({0, 1})]
    BY <2>1
  <2> QED BY <2>1, <2>2 DEF SpeechInit, SpeechTypeOK
<1> QED BY <1>1, <1>2

LEMMA AnalyzeReady == ASSUME SpeechInv, AnalyzeText PROVE SpeechInv'
<1>1. phrases' \in Seq(AccentPhrase)
  BY QueryAssumption DEF AnalyzeText
<1>2. SpeechTypeOK'
  BY <1>1 DEF SpeechInv, SpeechTypeOK, AnalyzeText
<1>3. PhrasesReady'
  BY DEF AnalyzeText, PhrasesReady
<1> QED BY <1>2, <1>3 DEF SpeechInv

LEMMA LengthReady == ASSUME SpeechInv, UpdateLength PROVE SpeechInv'
<1>1. phrases \in Seq(AccentPhrase) /\ phrases \in Texts
  BY DEF SpeechInv, SpeechTypeOK, PhrasesReady, UpdateLength
<1>2. PICK answer \in LengthAnswers :
        LET output == SubSeq(answer, 1, Len(Phonemes(Flat(phrases))) + 2) IN
        /\ answered' = [answered EXCEPT !.lengths = output]
        /\ phrases' = WriteBack(phrases, Measured(Flat(phrases), DropEdge(output)))
  BY Zenon DEF UpdateLength
<1>3. PICK ps : ps = phrases
  OBVIOUS
<1>4. PICK qs : qs = phrases'
  OBVIOUS
<1>5. ps \in Seq(AccentPhrase) /\ ps \in Texts
  BY <1>1, <1>3
<1>6. PICK n : n = Len(Phonemes(Flat(ps)))
  OBVIOUS
<1>7. n \in Nat
  <2>1. PICK ms \in Seq(Mora) : ms = Flat(ps)
    BY <1>5, FlatShape
  <2>2. PICK ph \in Seq(Sound) : ph = Phonemes(ms)
    BY SoundsShape
  <2> HIDE DEF Mora, Sound
  <2> QED BY <1>6, <2>1, <2>2
<1> HIDE DEF AccentPhrase, Mora
<1>8. PICK output : output = SubSeq(answer, 1, n + 2)
  OBVIOUS
<1>9. answer \in Seq(Nat) /\ Len(answer) >= n + 2
  BY <1>5, <1>6, QueryAssumption, AnalyzedAssumption
<1>10. Accented(ps) /\ \A other \in PitchAnswers : Len(other) >= Len(Flat(ps)) + 2
  BY <1>5, AnalyzedAssumption DEF Accented
<1>11. /\ answered' = [answered EXCEPT !.lengths = output]
       /\ qs = WriteBack(ps, Measured(Flat(ps), DropEdge(output)))
  BY <1>2, <1>3, <1>4, <1>6, <1>8
<1>12. /\ qs \in Seq(AccentPhrase) /\ Accented(qs) /\ output \in Seq(Nat)
       /\ Len(Flat(qs)) = Len(Flat(ps)) /\ LengthsOf(qs, output)
  <2>1. qs = WriteBack(ps, Measured(Flat(ps), DropEdge(output)))
    BY <1>11
  <2>2. IsAnswer(answer, n, output)
    BY <1>8, <1>9 DEF IsAnswer
  <2>3. HasLengths(ps, output, qs)
    BY <1>5, <1>6, <1>7, <1>10, <2>1, <2>2, LengthsWritten
  <2> QED BY <2>3 DEF HasLengths
<1>13. answered \in [lengths : Seq(Nat), pitches : Seq(Nat)]
  BY DEF SpeechInv, SpeechTypeOK
<1>14. /\ answered' \in [lengths : Seq(Nat), pitches : Seq(Nat)]
       /\ answered'.lengths = output
  BY <1>11, <1>12, <1>13
<1>15. SpeechTypeOK'
  BY <1>4, <1>12, <1>14 DEF SpeechInv, SpeechTypeOK, UpdateLength
<1>16. speechStatus' = "pitch"
  BY DEF UpdateLength
<1>17. LengthsOf(phrases', answered'.lengths) /\ Accented(phrases')
       /\ \A other \in PitchAnswers : Len(other) >= Len(Flat(phrases')) + 2
  BY <1>4, <1>10, <1>12, <1>14
<1>18. PhrasesReady'
  BY <1>16, <1>17 DEF PhrasesReady
<1> QED BY <1>15, <1>18 DEF SpeechInv

LEMMA PitchReady == ASSUME SpeechInv, UpdatePitch PROVE SpeechInv'
<1>1. /\ phrases \in Seq(AccentPhrase) /\ Accented(phrases)
      /\ LengthsOf(phrases, answered.lengths)
      /\ \A answer \in PitchAnswers : Len(answer) >= Len(Flat(phrases)) + 2
  BY DEF SpeechInv, SpeechTypeOK, PhrasesReady, UpdatePitch
<1>2. PICK answer \in PitchAnswers :
        LET output == SubSeq(answer, 1, Len(Flat(phrases)) + 2) IN
        /\ answered' = [answered EXCEPT !.pitches = output]
        /\ phrases' = WriteBack(phrases, Pitched(Flat(phrases), DropEdge(output)))
  BY Zenon DEF UpdatePitch
<1>3. PICK ps : ps = phrases
  OBVIOUS
<1>4. PICK qs : qs = phrases'
  OBVIOUS
<1>5. PICK asked : asked = answered.lengths
  OBVIOUS
<1> HIDE DEF AccentPhrase, Mora
<1>6. ps \in Seq(AccentPhrase) /\ Accented(ps) /\ LengthsOf(ps, asked)
  BY <1>1, <1>3, <1>5
<1>7. PICK output : output = SubSeq(answer, 1, Len(Flat(ps)) + 2)
  OBVIOUS
<1>8. answer \in Seq(Nat) /\ Len(answer) >= Len(Flat(ps)) + 2
  BY <1>1, <1>3, QueryAssumption
<1>9. /\ answered' = [answered EXCEPT !.pitches = output]
      /\ qs = WriteBack(ps, Pitched(Flat(ps), DropEdge(output)))
  BY <1>2, <1>3, <1>4, <1>7
<1>10. /\ qs \in Seq(AccentPhrase) /\ Len(qs) = Len(ps) /\ output \in Seq(Nat)
       /\ \A p \in 1..(Len(ps) + 1) : Before(qs, p) = Before(ps, p)
       /\ \A p \in 1..Len(ps) : /\ Len(qs[p].moras) = Len(ps[p].moras)
                                /\ qs[p].accent = ps[p].accent
       /\ Len(Flat(qs)) = Len(Flat(ps)) /\ Accented(qs)
       /\ LengthsOf(qs, asked) /\ PitchesOf(qs, output)
  <2>1. qs = WriteBack(ps, Pitched(Flat(ps), DropEdge(output)))
    BY <1>9
  <2>2. IsAnswer(answer, Len(Flat(ps)), output)
    BY <1>7, <1>8 DEF IsAnswer
  <2>3. HasPitches(ps, asked, output, qs)
    BY <1>6, <2>1, <2>2, PitchesWritten
  <2> QED BY <2>3 DEF HasPitches
<1>11. answered \in [lengths : Seq(Nat), pitches : Seq(Nat)]
  BY DEF SpeechInv, SpeechTypeOK
<1>12. /\ answered' \in [lengths : Seq(Nat), pitches : Seq(Nat)]
       /\ answered'.pitches = output /\ answered'.lengths = asked
  BY <1>5, <1>9, <1>10, <1>11
<1>13. PICK arrays : arrays = Marks(ps)
  OBVIOUS
<1>14. marks' = arrays
  BY <1>3, <1>13 DEF UpdatePitch
<1>15. arrays \in [1..4 -> Seq({0, 1})] /\ MarksRight(ps, arrays)
  BY <1>6, <1>13, MarksAre DEF MarksRight
<1>16. MarksRight(qs, arrays)
  <2>1. Len(ps) \in Nat
    BY <1>6
  <2>2. \A p \in 1..Len(ps) : p \in 1..(Len(ps) + 1)
    BY <2>1
  <2>3. \A p \in 1..Len(ps) :
          /\ Before(qs, p) + Rise(qs[p]) = Before(ps, p) + Rise(ps[p])
          /\ Before(qs, p) + qs[p].accent = Before(ps, p) + ps[p].accent
          /\ Before(qs, p) + 1 = Before(ps, p) + 1
          /\ Before(qs, p) + Len(qs[p].moras) = Before(ps, p) + Len(ps[p].moras)
    BY <1>10, <2>2 DEF Rise
  <2>4. /\ {Before(qs, p) + Rise(qs[p]) : p \in 1..Len(qs)}
             = {Before(ps, p) + Rise(ps[p]) : p \in 1..Len(ps)}
        /\ {Before(qs, p) + qs[p].accent : p \in 1..Len(qs)}
             = {Before(ps, p) + ps[p].accent : p \in 1..Len(ps)}
        /\ {Before(qs, p) + 1 : p \in 1..Len(qs)} = {Before(ps, p) + 1 : p \in 1..Len(ps)}
        /\ {Before(qs, p) + Len(qs[p].moras) : p \in 1..Len(qs)}
             = {Before(ps, p) + Len(ps[p].moras) : p \in 1..Len(ps)}
    BY <1>10, <2>3
  <2> QED BY <1>10, <1>15, <2>4 DEF MarksRight
<1>17. SpeechTypeOK'
  BY <1>4, <1>10, <1>12, <1>14, <1>15 DEF SpeechInv, SpeechTypeOK, UpdatePitch
<1>18. speechStatus' = "reply"
  BY DEF UpdatePitch
<1>19. /\ LengthsOf(phrases', answered'.lengths) /\ Accented(phrases')
       /\ PitchesOf(phrases', answered'.pitches) /\ MarksRight(phrases', marks')
  BY <1>4, <1>10, <1>12, <1>14, <1>16
<1>20. PhrasesReady'
  BY <1>18, <1>19 DEF PhrasesReady
<1> QED BY <1>17, <1>20 DEF SpeechInv

LEMMA EditReady == ASSUME SpeechInv, EditMora PROVE SpeechInv'
<1>1. phrases \in Seq(AccentPhrase)
  BY DEF SpeechInv, SpeechTypeOK
<1>2. PICK p \in DOMAIN phrases : \E k \in DOMAIN phrases[p].moras :
        phrases' = Edited(phrases, p, k) \/ phrases' = Muted(phrases, p, k)
  BY Zenon DEF EditMora, Edited, Muted
<1>3. PICK k \in DOMAIN phrases[p].moras :
        phrases' = Edited(phrases, p, k) \/ phrases' = Muted(phrases, p, k)
  BY <1>2
<1> HIDE DEF AccentPhrase, Mora
<1>4. phrases' \in Seq(AccentPhrase)
  BY <1>1, <1>3, EditsTyped
<1>5. SpeechTypeOK' /\ speechStatus' \in Later
  BY <1>4 DEF SpeechInv, SpeechTypeOK, EditMora, Later
<1> QED BY <1>5, LaterReady DEF SpeechInv

LEMMA UpspeakReady == ASSUME SpeechInv, Upspeak PROVE SpeechInv'
<1>1. phrases \in Seq(AccentPhrase)
  BY DEF SpeechInv, SpeechTypeOK
<1>2. phrases' = IF scales.upspeak THEN [p \in DOMAIN phrases |-> WithUpspeak(phrases[p])]
                 ELSE phrases
  BY Zenon DEF Upspeak
<1>3. PICK ps : ps = [p \in DOMAIN phrases |-> WithUpspeak(phrases[p])]
  OBVIOUS
<1>4. ps \in Seq(AccentPhrase)
  <2>1. DOMAIN phrases = 1..Len(phrases) /\ Len(phrases) \in Nat
    BY <1>1
  <2> HIDE DEF AccentPhrase
  <2>2. \A p \in 1..Len(phrases) : WithUpspeak(phrases[p]) \in AccentPhrase
    BY <1>1, UpspeakTyped
  <2>3. ps \in [1..Len(phrases) -> AccentPhrase]
    BY <1>3, <2>1, <2>2
  <2> QED BY <2>1, <2>3
<1> HIDE DEF AccentPhrase, Mora
<1>5. phrases' \in Seq(AccentPhrase)
  BY <1>1, <1>2, <1>3, <1>4
<1>6. SpeechTypeOK' /\ speechStatus' \in Later
  BY <1>5 DEF SpeechInv, SpeechTypeOK, Upspeak, Later
<1> QED BY <1>6, LaterReady DEF SpeechInv

\* The steps that only change the flat moras.
LEMMA MorasReady ==
  ASSUME SpeechInv, moras' \in Seq(Mora), speechStatus' \in Later,
         UNCHANGED <<phrases, answered, marks, scales, given>>
  PROVE  SpeechInv'
<1> HIDE DEF AccentPhrase, Mora
<1>1. SpeechTypeOK'
  BY DEF SpeechInv, SpeechTypeOK, Later
<1> QED BY <1>1, LaterReady DEF SpeechInv

\* What the decoder is called with.
Handed(ms) == [phonemes |-> Phonemes(ms), pitches |-> [k \in DOMAIN ms |-> ms[k].pitch]]

LEMMA DecodeReady ==
  ASSUME SpeechInv, Decode
  PROVE  /\ SpeechInv' /\ given' = Handed(moras) /\ moras' = moras
         /\ phrases' = phrases /\ scales' = scales /\ speechStatus' \in {"done", "undefined"}
<1>1. moras \in Seq(Mora)
  BY DEF SpeechInv, SpeechTypeOK
<1> HIDE DEF AccentPhrase, Mora
<1>2. given' = Handed(moras)
  BY Zenon DEF Decode, Handed
<1>3. /\ moras' = moras /\ phrases' = phrases /\ scales' = scales /\ answered' = answered
      /\ marks' = marks /\ speechStatus' \in {"done", "undefined"}
  BY DEF Decode
<1>4. Phonemes(moras) \in Seq(Sound) /\ [k \in DOMAIN moras |-> moras[k].pitch] \in Seq(Int)
  BY <1>1, SoundsShape, PitchesInt
<1>5. given' \in [phonemes : Seq(Sound), pitches : Seq(Int)]
  BY <1>2, <1>4, Zenon DEF Handed
<1> HIDE DEF Sound
<1>6. SpeechTypeOK' /\ speechStatus' \in Later
  BY <1>3, <1>5 DEF SpeechInv, SpeechTypeOK, Later
<1> QED BY <1>2, <1>3, <1>6, LaterReady DEF SpeechInv

LEMMA SpeechStep == SpeechInv /\ [SpeechNext]_speechVars => SpeechInv'
<1> SUFFICES ASSUME SpeechInv, [SpeechNext]_speechVars PROVE SpeechInv'
  OBVIOUS
<1> HIDE DEF AccentPhrase, Mora
<1>1. CASE AnalyzeText
  BY <1>1, AnalyzeReady
<1>2. CASE UpdateLength
  BY <1>2, LengthReady
<1>3. CASE UpdatePitch
  BY <1>3, PitchReady
<1>4. CASE UpdatePitchEmpty
  <2>1. SpeechTypeOK'
    BY <1>4 DEF SpeechInv, SpeechTypeOK, UpdatePitchEmpty, End
  <2>2. phrases = <<>> /\ LengthsOf(phrases, answered.lengths) /\ Accented(phrases)
    BY <1>4 DEF SpeechInv, PhrasesReady, UpdatePitchEmpty
  <2>3. PitchesOf(phrases, answered.pitches)
    <3>1. Len(<<>>) = 0 /\ 1..0 = {}
      OBVIOUS
    <3> QED BY <2>2, <3>1 DEF PitchesOf
  <2>4. PhrasesReady'
    BY <1>4, <2>2, <2>3 DEF PhrasesReady, UpdatePitchEmpty, End
  <2> QED BY <2>1, <2>4 DEF SpeechInv
<1>5. CASE CoreFails
  <2>1. SpeechTypeOK' /\ speechStatus' \in Later
    BY <1>5 DEF SpeechInv, SpeechTypeOK, CoreFails, End, Later
  <2> QED BY <2>1, LaterReady DEF SpeechInv
<1>6. CASE Reply
  <2>1. SpeechTypeOK'
    BY <1>6 DEF SpeechInv, SpeechTypeOK, Reply, End
  <2>2. PhrasesReady'
    BY <1>6 DEF SpeechInv, PhrasesReady, Reply, End
  <2> QED BY <2>1, <2>2 DEF SpeechInv
<1>7. CASE Keep
  <2>1. SpeechTypeOK' /\ speechStatus' \in Later
    BY <1>7 DEF SpeechInv, SpeechTypeOK, Keep, End, Later
  <2> QED BY <2>1, LaterReady DEF SpeechInv
<1>8. CASE EditMora
  BY <1>8, EditReady
<1>9. CASE Upspeak
  BY <1>9, UpspeakReady
<1>10. CASE Flatten
  <2>1. moras' \in Seq(Mora)
    BY <1>10, FlatShape DEF SpeechInv, SpeechTypeOK, Flatten
  <2> QED BY <1>10, <2>1, MorasReady DEF Flatten, Later
<1>11. CASE PauseLength
  <2>1. moras' \in Seq(Mora)
    BY <1>11, PauseTyped DEF SpeechInv
  <2>2. speechStatus' \in Later /\ UNCHANGED <<phrases, answered, marks, scales, given>>
    BY <1>11 DEF PauseLength, Change, Later
  <2> QED BY <2>1, <2>2, MorasReady
<1>12. CASE SpeedScale
  <2>1. moras' \in Seq(Mora)
    BY <1>12, SpeedTyped DEF SpeechInv
  <2>2. speechStatus' \in Later /\ UNCHANGED <<phrases, answered, marks, scales, given>>
    BY <1>12 DEF SpeedScale, Change, Later
  <2> QED BY <2>1, <2>2, MorasReady
<1>13. CASE PitchScale
  <2>1. moras' \in Seq(Mora)
    BY <1>13, PitchTyped DEF SpeechInv
  <2>2. speechStatus' \in Later /\ UNCHANGED <<phrases, answered, marks, scales, given>>
    BY <1>13 DEF PitchScale, Change, Later
  <2> QED BY <2>1, <2>2, MorasReady
<1>14. CASE Intonation
  <2>1. moras' \in Seq(Mora)
    BY <1>14, IntonationTyped DEF SpeechInv
  <2>2. speechStatus' \in Later /\ UNCHANGED <<phrases, answered, marks, scales, given>>
    BY <1>14 DEF Intonation, Change, Later
  <2> QED BY <2>1, <2>2, MorasReady
<1>15. CASE Decode
  BY <1>15, DecodeReady
<1>16. CASE UNCHANGED speechVars
  <2>1. SpeechTypeOK'
    BY <1>16 DEF SpeechInv, SpeechTypeOK, speechVars
  <2>2. PhrasesReady'
    BY <1>16 DEF SpeechInv, PhrasesReady, speechVars
  <2> QED BY <2>1, <2>2 DEF SpeechInv
<1> QED BY <1>1, <1>2, <1>3, <1>4, <1>5, <1>6, <1>7, <1>8, <1>9, <1>10, <1>11, <1>12, <1>13,
           <1>14, <1>15, <1>16 DEF SpeechNext

\* What a core answers stays with the mora it was computed for, and a core is
\* asked with the accents of the phrases, for every text whose phrases have an
\* accent on one of their moras (update_length and update_pitch, tts_engine.cc).
THEOREM PredictionsStay == SpeechSpec => []PredictionsBelong
<1>1. SpeechSpec => []SpeechInv
  BY SpeechStart, SpeechStep, PTL DEF SpeechSpec
<1> QED BY <1>1, SpeechInvEnough, PTL

-----------------------------------------------------------------------------
(* Sums of what is laid end to end.                                        *)

LEMMA SumJoin ==
  ASSUME NEW a \in Seq(Int), NEW b \in Seq(Int)
  PROVE  Sum(a \o b) = Sum(a) + Sum(b)
<1>1. PICK c : c = a \o b
  OBVIOUS
<1>2. /\ c \in Seq(Int) /\ Len(c) = Len(a) + Len(b) /\ Len(a) \in Nat /\ Len(b) \in Nat
      /\ \A n \in 1..Len(a) : c[n] = a[n]
      /\ \A n \in 1..Len(b) : c[Len(a) + n] = b[n]
  BY <1>1
<1>3. PICK f : PartialSums(c, f) /\ Sum(c) = f[Len(c)]
  BY <1>2, SumExists
<1>4. PICK g : PartialSums(a, g) /\ Sum(a) = g[Len(a)]
  BY SumExists
<1>5. PICK h : PartialSums(b, h) /\ Sum(b) = h[Len(b)]
  BY SumExists
<1>6. /\ f[0] = 0 /\ \A n \in 1..Len(c) : f[n] = f[n - 1] + c[n]
      /\ g \in [0..Len(a) -> Int] /\ g[0] = 0 /\ \A n \in 1..Len(a) : g[n] = g[n - 1] + a[n]
      /\ h \in [0..Len(b) -> Int] /\ h[0] = 0 /\ \A n \in 1..Len(b) : h[n] = h[n - 1] + b[n]
  BY <1>3, <1>4, <1>5 DEF PartialSums
<1> DEFINE P == {n \in Nat : n <= Len(a) => f[n] = g[n]}
           Q == {n \in Nat : n <= Len(b) => f[Len(a) + n] = g[Len(a)] + h[n]}
<1>7. P \in SUBSET Nat /\ 0 \in P
  BY <1>6
<1>8. ASSUME NEW n \in P PROVE n + 1 \in P
  <2> SUFFICES ASSUME n + 1 <= Len(a) PROVE f[n + 1] = g[n + 1]
    OBVIOUS
  <2>1. /\ n + 1 \in 1..Len(a) /\ n + 1 \in 1..Len(c) /\ (n + 1) - 1 = n /\ n <= Len(a)
    BY <1>2
  <2>2. f[n + 1] = f[n] + c[n + 1] /\ g[n + 1] = g[n] + a[n + 1] /\ c[n + 1] = a[n + 1]
    BY <1>2, <1>6, <2>1
  <2> QED BY <2>1, <2>2
<1>9. Len(a) \in P
  <2> HIDE DEF P
  <2> QED BY <1>2, <1>7, <1>8, Induction
<1>10. f[Len(a)] = g[Len(a)] /\ g[Len(a)] \in Int
  <2>1. Len(a) \in 0..Len(a)
    BY <1>2
  <2>2. g[Len(a)] \in Int
    BY <1>6, <2>1
  <2>3. f[Len(a)] = g[Len(a)]
    BY <1>2, <1>9
  <2> QED BY <2>2, <2>3
<1>11. Q \in SUBSET Nat /\ 0 \in Q
  <2>1. Len(a) + 0 = Len(a) /\ g[Len(a)] + 0 = g[Len(a)]
    BY <1>2, <1>10
  <2> QED BY <1>6, <1>10, <2>1
<1>12. ASSUME NEW n \in Q PROVE n + 1 \in Q
  <2> SUFFICES ASSUME n + 1 <= Len(b) PROVE f[Len(a) + (n + 1)] = g[Len(a)] + h[n + 1]
    OBVIOUS
  <2>1. /\ n + 1 \in 1..Len(b) /\ n \in 0..Len(b) /\ (n + 1) - 1 = n /\ n <= Len(b)
        /\ Len(a) + (n + 1) \in 1..Len(c) /\ (Len(a) + (n + 1)) - 1 = Len(a) + n
    <3>1. PICK la \in Nat : la = Len(a)
      BY <1>2
    <3>2. PICK lb \in Nat : lb = Len(b)
      BY <1>2
    <3>3. n \in Nat /\ Len(c) = la + lb
      BY <1>2, <3>1, <3>2
    <3>4. n + 1 <= lb
      BY <3>2
    <3>5. /\ n + 1 \in 1..lb /\ n \in 0..lb /\ (n + 1) - 1 = n /\ n <= lb
          /\ la + (n + 1) \in 1..(la + lb) /\ (la + (n + 1)) - 1 = la + n
      BY <3>1, <3>2, <3>3, <3>4
    <3> QED BY <3>1, <3>2, <3>3, <3>5
  <2>2. f[Len(a) + (n + 1)] = f[Len(a) + n] + b[n + 1] /\ h[n + 1] = h[n] + b[n + 1]
    BY <1>2, <1>6, <2>1
  <2>3. f[Len(a) + n] = g[Len(a)] + h[n]
    BY <2>1
  <2>4. PICK x \in Int : x = g[Len(a)]
    BY <1>10
  <2>5. PICK y \in Int : y = h[n]
    BY <1>6, <2>1
  <2>6. PICK z \in Int : z = b[n + 1]
    <3>1. \A k \in 1..Len(b) : b[k] \in Int
      OBVIOUS
    <3> QED BY <2>1, <3>1
  <2> QED BY <2>2, <2>3, <2>4, <2>5, <2>6
<1>13. Len(b) \in Q
  <2> HIDE DEF Q
  <2> QED BY <1>2, <1>11, <1>12, Induction
<1>14. f[Len(a) + Len(b)] = g[Len(a)] + h[Len(b)]
  BY <1>2, <1>13
<1> QED BY <1>1, <1>2, <1>3, <1>4, <1>5, <1>14

LEMMA SmallSums ==
  ASSUME NEW x \in Int, NEW y \in Int
  PROVE  Sum(<<>>) = 0 /\ Sum(<<x>>) = x /\ Sum(<<x, y>>) = x + y
<1>1. Sum(<<>>) = 0
  <2>1. <<>> \in Seq(Int) /\ Len(<<>>) = 0
    OBVIOUS
  <2>2. PICK f : PartialSums(<<>>, f) /\ Sum(<<>>) = f[Len(<<>>)]
    BY <2>1, SumExists
  <2> QED BY <2>1, <2>2 DEF PartialSums
<1>2. Sum(<<x>>) = x
  <2>1. PICK s : s = <<x>>
    OBVIOUS
  <2>2. s \in Seq(Int) /\ Len(s) = 1 /\ s[1] = x
    BY <2>1
  <2>3. PICK f : PartialSums(s, f) /\ Sum(s) = f[Len(s)]
    BY <2>2, SumExists
  <2>4. f[0] = 0 /\ \A n \in 1..1 : f[n] = f[n - 1] + s[n]
    BY <2>2, <2>3 DEF PartialSums
  <2>5. f[1] = f[0] + s[1]
    BY <2>4
  <2> QED BY <2>1, <2>2, <2>3, <2>4, <2>5
<1>3. Sum(<<x, y>>) = x + y
  <2>1. PICK s : s = <<x, y>>
    OBVIOUS
  <2>2. s \in Seq(Int) /\ Len(s) = 2 /\ s[1] = x /\ s[2] = y
    BY <2>1
  <2>3. PICK f : PartialSums(s, f) /\ Sum(s) = f[Len(s)]
    BY <2>2, SumExists
  <2>4. f[0] = 0 /\ \A n \in 1..2 : f[n] = f[n - 1] + s[n]
    BY <2>2, <2>3 DEF PartialSums
  <2>5. f[1] = f[0] + s[1] /\ f[2] = f[1] + s[2]
    BY <2>4
  <2> QED BY <2>1, <2>2, <2>3, <2>4, <2>5
<1> QED BY <1>1, <1>2, <1>3

-----------------------------------------------------------------------------
(* Sums of pitches.                                                        *)

LEMMA PitchSumExists ==
  ASSUME NEW ms \in Seq(Mora)
  PROVE  \E f : /\ f \in [0..Len(ms) -> Int] /\ f[0] = 0
                /\ \A n \in 1..Len(ms) : f[n] = f[n - 1] + ms[n].pitch
                /\ PitchSum(ms) = f[Len(ms)]
<1>1. DOMAIN ms = 1..Len(ms) /\ Len(ms) \in Nat
  OBVIOUS
<1> HIDE DEF Mora
<1>2. PICK ps : ps = [k \in DOMAIN ms |-> ms[k].pitch]
  OBVIOUS
<1>3. ps \in Seq(Int) /\ Len(ps) = Len(ms) /\ PitchSum(ms) = Sum(ps)
  BY <1>2, PitchesInt DEF PitchSum
<1>4. \A n \in 1..Len(ms) : ps[n] = ms[n].pitch
  BY <1>1, <1>2
<1>5. PICK f : PartialSums(ps, f) /\ Sum(ps) = f[Len(ps)]
  BY <1>3, SumExists
<1>6. /\ f \in [0..Len(ms) -> Int] /\ f[0] = 0
      /\ \A n \in 1..Len(ms) : f[n] = f[n - 1] + ms[n].pitch
      /\ PitchSum(ms) = f[Len(ms)]
  BY <1>3, <1>4, <1>5 DEF PartialSums
<1> QED BY <1>6, Zenon

LEMMA SamePitchSum ==
  ASSUME NEW ms \in Seq(Mora), NEW ns \in Seq(Mora), Len(ns) = Len(ms),
         \A k \in 1..Len(ms) : ns[k].pitch = ms[k].pitch
  PROVE  PitchSum(ns) = PitchSum(ms)
<1>1. DOMAIN ms = 1..Len(ms) /\ DOMAIN ns = 1..Len(ms)
  OBVIOUS
<1> HIDE DEF Mora
<1>2. [k \in DOMAIN ns |-> ns[k].pitch] = [k \in DOMAIN ms |-> ms[k].pitch]
  BY <1>1
<1> QED BY <1>2 DEF PitchSum

LEMMA ScaledPitchSum ==
  ASSUME NEW ms \in Seq(Mora), NEW ns \in Seq(Mora), Len(ns) = Len(ms), NEW c \in Int,
         \A k \in 1..Len(ms) : ns[k].pitch = ms[k].pitch * c
  PROVE  PitchSum(ns) = c * PitchSum(ms)
<1>1. Len(ms) \in Nat
  OBVIOUS
<1>2. \A n \in 1..Len(ms) : ms[n].pitch \in Int
  <2>1. \A m \in Mora : m.pitch \in Int
    BY DEF Mora
  <2> HIDE DEF Mora
  <2> QED BY <2>1
<1> HIDE DEF Mora
<1>3. PICK f : /\ f \in [0..Len(ms) -> Int] /\ f[0] = 0
               /\ \A n \in 1..Len(ms) : f[n] = f[n - 1] + ms[n].pitch
               /\ PitchSum(ms) = f[Len(ms)]
  BY PitchSumExists
<1>4. PICK g : /\ g \in [0..Len(ns) -> Int] /\ g[0] = 0
               /\ \A n \in 1..Len(ns) : g[n] = g[n - 1] + ns[n].pitch
               /\ PitchSum(ns) = g[Len(ns)]
  BY PitchSumExists
<1> DEFINE P == {n \in Nat : n <= Len(ms) => g[n] = c * f[n]}
<1>5. P \in SUBSET Nat /\ 0 \in P
  BY <1>3, <1>4
<1>6. ASSUME NEW n \in P PROVE n + 1 \in P
  <2> SUFFICES ASSUME n + 1 <= Len(ms) PROVE g[n + 1] = c * f[n + 1]
    OBVIOUS
  <2>1. n + 1 \in 1..Len(ms) /\ (n + 1) - 1 = n /\ n \in 0..Len(ms) /\ n <= Len(ms)
    BY <1>1
  <2>2. PICK x \in Int : x = f[n]
    BY <1>3, <2>1
  <2>3. PICK p \in Int : p = ms[n + 1].pitch
    BY <1>2, <2>1
  <2>4. f[n + 1] = x + p /\ g[n + 1] = c * x + p * c
    BY <1>3, <1>4, <2>1, <2>2, <2>3
  <2>5. c * x + p * c = c * (x + p)
    OBVIOUS
  <2> QED BY <2>4, <2>5
<1>7. Len(ms) \in P
  <2> HIDE DEF P
  <2> QED BY <1>1, <1>5, <1>6, Induction
<1> QED BY <1>1, <1>3, <1>4, <1>7

LEMMA PitchSumAppend ==
  ASSUME NEW j \in Seq(Mora), NEW m \in Mora
  PROVE  /\ j \o <<m>> \in Seq(Mora) /\ Len(j \o <<m>>) = Len(j) + 1 /\ Len(j) \in Nat
         /\ PitchSum(j) \in Int /\ PitchSum(j \o <<m>>) = PitchSum(j) + m.pitch
<1>1. PICK k : k = j \o <<m>>
  OBVIOUS
<1>2. /\ k \in Seq(Mora) /\ Len(k) = Len(j) + 1 /\ Len(j) \in Nat
      /\ \A n \in 1..Len(j) : k[n] = j[n]
      /\ k[Len(j) + 1] = m
  BY <1>1
<1>3. m.pitch \in Int
  BY DEF Mora
<1>4. PICK x \in Seq(Int) : x = [n \in DOMAIN j |-> j[n].pitch]
  BY PitchesInt
<1>5. [n \in DOMAIN k |-> k[n].pitch] = x \o <<m.pitch>>
  <2>1. /\ DOMAIN j = 1..Len(j) /\ DOMAIN k = 1..(Len(j) + 1) /\ Len(x) = Len(j)
        /\ \A n \in 1..Len(j) : x[n] = j[n].pitch
    BY <1>2, <1>4
  <2>2. PICK y : y = [n \in DOMAIN k |-> k[n].pitch]
    OBVIOUS
  <2>3. \A n \in 1..(Len(j) + 1) : n \in 1..Len(j) \/ n = Len(j) + 1
    BY <1>2
  <2>4. /\ y \in Seq(Int) /\ Len(y) = Len(j) + 1
        /\ \A n \in 1..Len(j) : y[n] = x[n]
        /\ y[Len(j) + 1] = m.pitch
    <3>1. \A n \in 1..(Len(j) + 1) : y[n] = k[n].pitch
      BY <2>1, <2>2
    <3>2. 1..Len(j) \subseteq 1..(Len(j) + 1) /\ Len(j) + 1 \in 1..(Len(j) + 1)
      BY <1>2
    <3>3. y \in Seq(Int) /\ Len(y) = Len(k)
      BY <1>2, <2>2, PitchesInt
    <3> QED BY <1>2, <2>1, <3>1, <3>2, <3>3
  <2>5. y = x \o <<m.pitch>>
    <3>1. PICK z \in Int : z = m.pitch
      BY <1>3
    <3>2. PICK w : w = x \o <<z>>
      OBVIOUS
    <3>3. /\ w \in Seq(Int) /\ Len(w) = Len(x) + 1 /\ w[Len(x) + 1] = z
          /\ \A n \in 1..Len(x) : w[n] = x[n]
      BY <3>2
    <3>4. Len(w) = Len(y) /\ \A n \in 1..Len(y) : w[n] = y[n]
      BY <1>2, <2>1, <2>3, <2>4, <3>1, <3>3
    <3>5. w = y
      <4> HIDE DEF Mora
      <4>1. w \in Seq(Int) /\ y \in Seq(Int)
        BY <2>4, <3>3
      <4>2. \A n \in 1..Len(w) : w[n] = y[n]
        BY <3>4
      <4> QED BY <3>4, <4>1, <4>2, SeqEqual, Zenon
    <3> QED BY <3>1, <3>2, <3>5
  <2> QED BY <2>2, <2>5
<1>6. Sum(x \o <<m.pitch>>) = Sum(x) + m.pitch
  <2>1. PICK z \in Int : z = m.pitch
    BY <1>3
  <2>2. <<z>> \in Seq(Int)
    OBVIOUS
  <2>3. Sum(x \o <<z>>) = Sum(x) + Sum(<<z>>)
    BY <2>2, SumJoin
  <2>4. Sum(<<z>>) = z
    BY SmallSums
  <2> QED BY <2>1, <2>3, <2>4
<1>7. PitchSum(k) = PitchSum(j) + m.pitch
  BY <1>4, <1>5, <1>6 DEF PitchSum
<1>8. PitchSum(j) \in Int
  BY PitchesInt
<1> QED BY <1>1, <1>2, <1>7, <1>8

IsStretched(ms, ns, mean, c) ==
  /\ Len(ns) = Len(ms) /\ Len(Voiced(ms)) * mean = PitchSum(Voiced(ms))
  /\ \A k \in 1..Len(ms) :
       ns[k].pitch = IF ms[k].pitch > 0 THEN (ms[k].pitch - mean) * c + mean ELSE ms[k].pitch

\* The voiced moras are turned about their mean; the sum stays.
LEMMA StretchedPitchSum ==
  ASSUME NEW ms \in Seq(Mora), NEW ns \in Seq(Mora), NEW c \in Int, NEW mean \in Int,
         IsStretched(ms, ns, mean, c)
  PROVE  PitchSum(ns) = PitchSum(ms)
<1>16. /\ Len(ns) = Len(ms) /\ Len(Voiced(ms)) * mean = PitchSum(Voiced(ms))
       /\ \A k \in 1..Len(ms) :
            ns[k].pitch = IF ms[k].pitch > 0 THEN (ms[k].pitch - mean) * c + mean ELSE ms[k].pitch
  BY DEF IsStretched
<1>1. Len(ms) \in Nat
  OBVIOUS
<1>2. \A n \in 1..Len(ms) : ms[n].pitch \in Int /\ ms[n] \in Mora
  <2>1. \A m \in Mora : m.pitch \in Int
    BY DEF Mora
  <2> HIDE DEF Mora
  <2> QED BY <2>1
<1> HIDE DEF Mora
<1>3. PICK f : /\ f \in [0..Len(ms) -> Int] /\ f[0] = 0
               /\ \A n \in 1..Len(ms) : f[n] = f[n - 1] + ms[n].pitch
               /\ PitchSum(ms) = f[Len(ms)]
  BY PitchSumExists
<1>4. PICK g : /\ g \in [0..Len(ns) -> Int] /\ g[0] = 0
               /\ \A n \in 1..Len(ns) : g[n] = g[n - 1] + ns[n].pitch
               /\ PitchSum(ns) = g[Len(ns)]
  BY PitchSumExists
<1>5. PICK vs : vs = VoicedOnly(ms)
  OBVIOUS
<1>6. /\ vs \in Seq(Seq(Mora)) /\ Len(vs) = Len(ms) /\ Voiced(ms) = FlattenSeq(vs)
      /\ \A k \in 1..Len(ms) : vs[k] = IF ms[k].pitch > 0 THEN <<ms[k]>> ELSE <<>>
  BY <1>5, VoicedAre
<1>7. /\ \A n \in 0..Len(ms) : Joint(vs, n) \in Seq(Mora)
      /\ Joint(vs, 0) = <<>> /\ Joint(vs, Len(ms)) = Voiced(ms)
      /\ \A n \in 1..Len(ms) : Joint(vs, n) = Joint(vs, n - 1) \o vs[n]
  BY <1>6, JointStep
<1> DEFINE over(n) == PitchSum(Joint(vs, n)) - Len(Joint(vs, n)) * mean
           P == {n \in Nat : n <= Len(ms) => g[n] = f[n] + over(n) * c - over(n)}
<1>8. ASSUME NEW j \in Seq(Mora), NEW m \in Mora
      PROVE  /\ j \o <<m>> \in Seq(Mora) /\ Len(j \o <<m>>) = Len(j) + 1 /\ Len(j) \in Nat
             /\ PitchSum(j) \in Int /\ PitchSum(j \o <<m>>) = PitchSum(j) + m.pitch
  BY PitchSumAppend
<1>9. PitchSum(<<>>) = 0
  <2>1. Len(<<>>) = 0 /\ <<>> \in Seq(Mora)
    OBVIOUS
  <2>2. PICK e : e = <<>>
    OBVIOUS
  <2>3. PICK h : /\ h \in [0..Len(e) -> Int] /\ h[0] = 0
                 /\ PitchSum(e) = h[Len(e)]
    BY <2>1, <2>2, PitchSumExists
  <2> QED BY <2>1, <2>2, <2>3
<1>10. P \in SUBSET Nat /\ 0 \in P
  <2>1. Len(<<>>) = 0 /\ 0 * mean = 0 /\ 0 - 0 = 0 /\ 0 * c = 0
    OBVIOUS
  <2>2. over(0) = 0
    BY <1>7, <1>9, <2>1
  <2>3. f[0] + over(0) * c - over(0) = 0
    BY <1>3, <2>1, <2>2
  <2> HIDE DEF over
  <2> QED BY <1>4, <2>3
<1>11. ASSUME NEW n \in P PROVE n + 1 \in P
  <2> SUFFICES ASSUME n + 1 <= Len(ms) PROVE g[n + 1] = f[n + 1] + over(n + 1) * c - over(n + 1)
    OBVIOUS
  <2>1. n + 1 \in 1..Len(ms) /\ (n + 1) - 1 = n /\ n \in 0..Len(ms) /\ n <= Len(ms)
    BY <1>1
  <2>2. PICK x \in Int : x = f[n]
    BY <1>3, <2>1
  <2>3. PICK m \in Mora : m = ms[n + 1]
    BY <1>2, <2>1
  <2>4. PICK p \in Int : p = m.pitch
    BY <1>2, <2>1, <2>3
  <2>5. PICK j \in Seq(Mora) : j = Joint(vs, n)
    BY <1>7, <2>1
  <2>6. Joint(vs, n + 1) = j \o vs[n + 1]
    BY <1>7, <2>1, <2>5
  <2>7. PICK s \in Int : s = PitchSum(j)
    BY <1>8, <2>3, <2>5
  <2>14. PICK l \in Nat : l = Len(j)
    BY <1>8, <2>3, <2>5
  <2>8. PICK d \in Int : d = s - l * mean
    OBVIOUS
  <2>9. over(n) = d
    BY <2>5, <2>7, <2>8, <2>14
  <2>10. g[n] = x + d * c - d
    BY <2>1, <2>2, <2>9
  <2>11. f[n + 1] = x + p /\ g[n + 1] = g[n] + ns[n + 1].pitch
    BY <1>3, <1>4, <1>16, <2>1, <2>2, <2>3, <2>4
  <2>12. CASE p > 0
    <3>1. Joint(vs, n + 1) = j \o <<m>>
      BY <1>6, <2>1, <2>3, <2>4, <2>6, <2>12
    <3>2. over(n + 1) = (s + p) - (l + 1) * mean
      <4>1. PitchSum(j \o <<m>>) = s + p /\ Len(j \o <<m>>) = l + 1
        BY <1>8, <2>3, <2>4, <2>5, <2>7, <2>14
      <4> QED BY <3>1, <4>1
    <3>3. (s + p) - (l + 1) * mean = d + (p - mean)
      BY <2>8
    <3>4. ns[n + 1].pitch = (p - mean) * c + mean
      BY <1>16, <2>1, <2>3, <2>4, <2>12
    <3>5. (x + d * c - d) + ((p - mean) * c + mean)
            = (x + p) + (d + (p - mean)) * c - (d + (p - mean))
      <4>1. PICK e \in Int : e = p - mean
        OBVIOUS
      <4>2. (d + e) * c = d * c + e * c
        OBVIOUS
      <4>3. PICK u \in Int, v \in Int : u = d * c /\ v = e * c
        OBVIOUS
      <4>4. (x + u - d) + (v + mean) = (x + p) + (u + v) - (d + e)
        BY <4>1
      <4> QED BY <4>1, <4>2, <4>3, <4>4
    <3> QED BY <2>10, <2>11, <3>2, <3>3, <3>4, <3>5
  <2>13. CASE ~(p > 0)
    <3>1. j \o <<>> = j
      OBVIOUS
    <3>2. Joint(vs, n + 1) = j
      BY <1>6, <2>1, <2>3, <2>4, <2>6, <2>13, <3>1
    <3>3. over(n + 1) = d
      BY <2>5, <2>9, <3>2
    <3>4. ns[n + 1].pitch = p
      BY <1>16, <2>1, <2>3, <2>4, <2>13
    <3>5. PICK u \in Int : u = d * c
      OBVIOUS
    <3>6. (x + u - d) + p = (x + p) + u - d
      OBVIOUS
    <3> QED BY <2>10, <2>11, <3>3, <3>4, <3>5, <3>6
  <2> QED BY <2>12, <2>13
<1>12. Len(ms) \in P
  <2> HIDE DEF P
  <2> QED BY <1>1, <1>10, <1>11, Induction
<1>13. over(Len(ms)) = 0
  <2>1. PICK j \in Seq(Mora) : j = Voiced(ms)
    BY VoicedAre
  <2>2. PICK s \in Int : s = PitchSum(j)
    BY PitchesInt
  <2>3. Len(j) * mean = s
    BY <1>16, <2>1, <2>2
  <2> QED BY <1>7, <2>1, <2>2, <2>3
<1>14. g[Len(ms)] = f[Len(ms)] + over(Len(ms)) * c - over(Len(ms))
  BY <1>1, <1>12
<1>15. f[Len(ms)] \in Int /\ 0 * c = 0
  <2>1. Len(ms) \in 0..Len(ms)
    BY <1>1
  <2> QED BY <1>3, <2>1
<1> HIDE DEF over
<1> QED BY <1>3, <1>4, <1>13, <1>14, <1>15, <1>16

-----------------------------------------------------------------------------
(* What is whispered, and how high the rest is, on the way to the decoder. *)

Mute(m) == m.vowel \in Unvoiced => m.pitch = 0
MuteMoras(ms) == \A k \in 1..Len(ms) : Mute(ms[k])
MutePhrase(phrase) ==
  MuteMoras(phrase.moras) /\ (HasPause(phrase) => Mute(phrase.pause))
MutePhrases(ps) == \A p \in 1..Len(ps) : MutePhrase(ps[p])

LEMMA SizeIs ==
  ASSUME NEW ps, NEW p, NEW n \in Nat, n = Len(ps[p].moras)
  PROVE  /\ HasPause(ps[p]) => Size(ps, p) = n + 1
         /\ ~HasPause(ps[p]) => Size(ps, p) = n
         /\ 1..n \subseteq 1..Size(ps, p)
<1>1. CASE HasPause(ps[p])
  <2>1. Size(ps, p) = n + 1
    BY <1>1 DEF Size
  <2> QED BY <1>1, <2>1
<1>2. CASE ~HasPause(ps[p])
  <2>1. Size(ps, p) = n
    BY <1>2 DEF Size
  <2> QED BY <1>2, <2>1
<1> QED BY <1>1, <1>2

LEMMA MuteFlat ==
  ASSUME NEW ps \in Seq(AccentPhrase), MutePhrases(ps)
  PROVE  MuteMoras(Flat(ps))
<1> SUFFICES ASSUME NEW x \in 1..Len(Flat(ps)) PROVE Mute(Flat(ps)[x])
  BY DEF MuteMoras
<1>1. PICK p \in 1..Len(ps) : \E k \in 1..Size(ps, p) : x = Before(ps, p) + k
  BY FlatShape
<1>2. PICK k \in 1..Size(ps, p) : x = Before(ps, p) + k
  BY <1>1
<1>3. Flat(ps)[x] = AtSlot(ps, <<p, k>>)
  BY <1>2, FlatShape
<1>4. ps[p].moras \in Seq(Mora)
  BY PieceShape
<1> HIDE DEF AccentPhrase, Mora
<1>5. MuteMoras(ps[p].moras) /\ (HasPause(ps[p]) => Mute(ps[p].pause))
  BY DEF MutePhrases, MutePhrase
<1>6. PICK n \in Nat : n = Len(ps[p].moras)
  BY <1>4
<1>7. CASE k <= n
  <2>1. AtSlot(ps, <<p, k>>) = ps[p].moras[k]
    BY <1>6, <1>7 DEF AtSlot
  <2>2. k \in 1..Len(ps[p].moras)
    BY <1>6, <1>7
  <2> QED BY <1>3, <1>5, <2>1, <2>2 DEF MuteMoras
<1>8. CASE ~(k <= n)
  <2>1. AtSlot(ps, <<p, k>>) = ps[p].pause
    BY <1>6, <1>8 DEF AtSlot
  <2>2. HasPause(ps[p])
    BY <1>6, <1>8, SizeIs
  <2> QED BY <1>3, <1>5, <2>1, <2>2
<1> QED BY <1>7, <1>8

LEMMA PitchesMute ==
  ASSUME NEW ps \in Seq(AccentPhrase), NEW output, PitchesOf(ps, output)
  PROVE  MutePhrases(ps)
<1> SUFFICES ASSUME NEW p \in 1..Len(ps) PROVE MutePhrase(ps[p])
  BY DEF MutePhrases
<1>1. ps[p].moras \in Seq(Mora)
  BY PieceShape
<1> HIDE DEF AccentPhrase, Mora
<1>2. PICK n \in Nat : n = Len(ps[p].moras)
  BY <1>1
<1>3. ASSUME NEW k \in 1..Size(ps, p) PROVE Mute(AtSlot(ps, <<p, k>>))
  <2>1. RightPitch(ps, p, k, output)
    BY DEF PitchesOf
  <2> QED BY <2>1 DEF RightPitch, Mute
<1>4. ASSUME NEW k \in 1..n PROVE Mute(ps[p].moras[k])
  <2>1. k \in 1..Size(ps, p)
    BY <1>2, SizeIs
  <2>2. AtSlot(ps, <<p, k>>) = ps[p].moras[k]
    BY <1>2 DEF AtSlot
  <2> QED BY <1>3, <2>1, <2>2
<1>5. ASSUME HasPause(ps[p]) PROVE Mute(ps[p].pause)
  <2>1. n + 1 \in 1..Size(ps, p)
    BY <1>2, <1>5, SizeIs
  <2>2. AtSlot(ps, <<p, n + 1>>) = ps[p].pause
    BY <1>2 DEF AtSlot
  <2> QED BY <1>3, <2>1, <2>2
<1> QED BY <1>2, <1>4, <1>5 DEF MutePhrase, MuteMoras

LEMMA MutePut ==
  ASSUME NEW ps \in Seq(AccentPhrase), MutePhrases(ps),
         NEW p \in 1..Len(ps), NEW k \in 1..Len(ps[p].moras),
         NEW m \in Mora, Mute(m), NEW qs,
         qs = [ps EXCEPT ![p] = [ps[p] EXCEPT !.moras = [ps[p].moras EXCEPT ![k] = m]]]
  PROVE  MutePhrases(qs)
<1>1. PICK phrase : phrase = ps[p]
  OBVIOUS
<1>2. phrase \in AccentPhrase
  BY <1>1
<1>3. PICK ms : ms = phrase.moras
  OBVIOUS
<1>4. ms \in Seq(Mora)
  BY <1>1, <1>3, PieceShape
<1> HIDE DEF Mora
<1>5. PICK ns : ns = [ms EXCEPT ![k] = m]
  OBVIOUS
<1>6. Len(ns) = Len(ms) /\ \A n \in 1..Len(ms) : ns[n] = IF n = k THEN m ELSE ms[n]
  <2>1. k \in 1..Len(ms)
    BY <1>1, <1>3
  <2> QED BY <1>4, <1>5, <2>1
<1>7. PICK new : new = [phrase EXCEPT !.moras = ns]
  OBVIOUS
<1>8. new.moras = ns /\ new.pause = phrase.pause
  BY <1>2, <1>7 DEF AccentPhrase
<1> HIDE DEF AccentPhrase
<1>9. qs = [ps EXCEPT ![p] = new]
  BY <1>1, <1>3, <1>5, <1>7
<1>10. MuteMoras(ms) /\ (HasPause(phrase) => Mute(phrase.pause))
  BY <1>1, <1>3 DEF MutePhrases, MutePhrase
<1>11. MuteMoras(ns)
  BY <1>6, <1>10 DEF MuteMoras
<1>12. MutePhrase(new)
  BY <1>8, <1>10, <1>11 DEF MutePhrase, HasPause
<1>13. Len(qs) = Len(ps) /\ \A q \in 1..Len(ps) : qs[q] = IF q = p THEN new ELSE ps[q]
  <2>1. DOMAIN ps = 1..Len(ps) /\ Len(ps) \in Nat
    OBVIOUS
  <2>2. DOMAIN qs = DOMAIN ps /\ \A q \in DOMAIN ps : qs[q] = IF q = p THEN new ELSE ps[q]
    BY <1>9, Zenon
  <2> QED BY <2>1, <2>2
<1> QED BY <1>12, <1>13 DEF MutePhrases

\* One field set and the others kept.
LEMMA FieldsKept ==
  ASSUME NEW m \in Mora, NEW x \in Int
  PROVE  /\ WithConsonantLength(m, x).vowel = m.vowel /\ WithConsonantLength(m, x).pitch = m.pitch
         /\ WithVowelLength(m, x).vowel = m.vowel /\ WithVowelLength(m, x).pitch = m.pitch
         /\ WithPitch(m, x).vowel = m.vowel /\ WithPitch(m, x).pitch = x
BY DEF Mora, WithConsonantLength, WithVowelLength, WithPitch

LEMMA EditsMute ==
  ASSUME NEW ps \in Seq(AccentPhrase), MutePhrases(ps),
         NEW p \in DOMAIN ps, NEW k \in DOMAIN ps[p].moras
  PROVE  MutePhrases(Edited(ps, p, k)) /\ MutePhrases(Muted(ps, p, k))
<1>1. p \in 1..Len(ps)
  OBVIOUS
<1>2. ps[p].moras \in Seq(Mora)
  BY <1>1, PieceShape
<1> HIDE DEF AccentPhrase, Mora
<1>3. k \in 1..Len(ps[p].moras) /\ ps[p].moras[k] \in Mora
  BY <1>2
<1>4. -1 \in Int /\ 0 \in Int
  OBVIOUS
<1>5. Mute(ps[p].moras[k])
  BY <1>1, <1>3 DEF MutePhrases, MutePhrase, MuteMoras
<1>6. PICK x : x = WithConsonantLength(ps[p].moras[k], -1)
  OBVIOUS
<1>7. PICK y : y = WithPitch(ps[p].moras[k], 0)
  OBVIOUS
<1>8. x \in Mora /\ y \in Mora /\ Mute(x) /\ Mute(y)
  BY <1>3, <1>4, <1>5, <1>6, <1>7, FieldsSet, FieldsKept DEF Mute
<1>9. Edited(ps, p, k) = [ps EXCEPT ![p] = [ps[p] EXCEPT !.moras =
        [ps[p].moras EXCEPT ![k] = x]]]
  BY <1>6, Zenon DEF Edited, WithConsonantLength
<1>10. Muted(ps, p, k) = [ps EXCEPT ![p] = [ps[p] EXCEPT !.moras =
        [ps[p].moras EXCEPT ![k] = y]]]
  BY <1>7, Zenon DEF Muted, WithPitch
<1>11. ASSUME NEW m \in Mora, Mute(m), NEW qs,
              qs = [ps EXCEPT ![p] = [ps[p] EXCEPT !.moras = [ps[p].moras EXCEPT ![k] = m]]]
       PROVE  MutePhrases(qs)
  BY <1>1, <1>3, <1>11, MutePut
<1>12. MutePhrases(Edited(ps, p, k))
  BY <1>8, <1>9, <1>11, Zenon
<1>13. MutePhrases(Muted(ps, p, k))
  BY <1>8, <1>10, <1>11, Zenon
<1> QED BY <1>12, <1>13

LEMMA UpspeakMute ==
  ASSUME NEW phrase \in AccentPhrase, MutePhrase(phrase)
  PROVE  MutePhrase(WithUpspeak(phrase))
<1>1. CASE ~AsksUp(phrase)
  BY <1>1 DEF WithUpspeak
<1>2. CASE AsksUp(phrase)
  <2>1. PICK ms : ms = phrase.moras
    OBVIOUS
  <2>2. ms \in Seq(Mora) /\ ms # <<>>
    <3> HIDE DEF Mora
    <3> QED BY <1>2, <2>1 DEF AccentPhrase, AsksUp
  <2>3. PICK last : last = Last(ms)
    OBVIOUS
  <2>4. last \in Mora /\ Mute(last) /\ last.pitch > 0
    <3> HIDE DEF Mora, AccentPhrase
    <3>1. Len(ms) \in 1..Len(ms)
      BY <2>2
    <3>2. last = ms[Len(ms)]
      BY <2>3 DEF Last
    <3>3. Mute(last)
      BY <2>1, <3>1, <3>2 DEF MutePhrase, MuteMoras
    <3>4. last.pitch > 0
      BY <1>2, <2>1, <2>3 DEF AsksUp
    <3> QED BY <2>2, <3>1, <3>2, <3>3, <3>4
  <2>5. PICK high : high = UpspeakMora(last)
    OBVIOUS
  <2>6. high.vowel = last.vowel
    BY <2>5, Zenon DEF UpspeakMora
  <2>7. Mute(high)
    <3>1. last.vowel \notin Unvoiced
      <4>1. ~(0 > 0)
        OBVIOUS
      <4> QED BY <2>4, <4>1 DEF Mute
    <3> QED BY <2>6, <3>1 DEF Mute
  <2>8. PICK ns : ns = Append(ms, high)
    OBVIOUS
  <2>9. WithUpspeak(phrase) = [phrase EXCEPT !.moras = ns]
    BY <1>2, <2>1, <2>3, <2>5, <2>8 DEF WithUpspeak
  <2>10. WithUpspeak(phrase).moras = ns /\ WithUpspeak(phrase).pause = phrase.pause
    BY <2>9 DEF AccentPhrase
  <2> HIDE DEF Mora, AccentPhrase
  <2>11. Len(ms) \in Nat /\ Len(ns) = Len(ms) + 1 /\ ns[Len(ms) + 1] = high
         /\ \A n \in 1..Len(ms) : ns[n] = ms[n]
    BY <2>2, <2>8
  <2>12. MuteMoras(ns)
    <3>1. \A n \in 1..Len(ns) : n \in 1..Len(ms) \/ n = Len(ms) + 1
      BY <2>11
    <3>2. MuteMoras(ms)
      BY <2>1 DEF MutePhrase
    <3> QED BY <2>7, <2>11, <3>1, <3>2 DEF MuteMoras
  <2>13. HasPause(WithUpspeak(phrase)) => Mute(WithUpspeak(phrase).pause)
    BY <2>10 DEF MutePhrase, HasPause
  <2> QED BY <2>10, <2>12, <2>13 DEF MutePhrase
<1> QED BY <1>1, <1>2

\* The same moras with the same pitches.
SamePitches(ms, ns) ==
  /\ Len(ns) = Len(ms)
  /\ \A k \in 1..Len(ms) : ns[k].vowel = ms[k].vowel /\ ns[k].pitch = ms[k].pitch

LEMMA PauseSame ==
  ASSUME SpeechTypeOK, PauseLength
  PROVE  SamePitches(moras, moras')
<1>1. /\ moras \in Seq(Mora) /\ scales.pauseLength \in Int /\ scales.pauseScale \in Nat
  BY ScaleFields DEF SpeechTypeOK
<1> DEFINE asked(k) == IF scales.pauseLength # -1 THEN scales.pauseLength ELSE moras[k].vowelLength
<1>2. moras' = [k \in DOMAIN moras |->
                  IF moras[k].vowel = "pau"
                  THEN WithVowelLength(moras[k], asked(k) * scales.pauseScale) ELSE moras[k]]
  BY Zenon DEF PauseLength, Change, WithVowelLength
<1>3. ASSUME NEW k \in 1..Len(moras)
      PROVE  moras'[k].vowel = moras[k].vowel /\ moras'[k].pitch = moras[k].pitch
  <2>1. k \in DOMAIN moras /\ moras[k] \in Mora
    BY <1>1
  <2>2. moras[k].vowelLength \in Int
    BY <2>1 DEF Mora
  <2>3. asked(k) * scales.pauseScale \in Int
    BY <1>1, <2>2
  <2> HIDE DEF asked, Mora
  <2>4. PICK m : m = WithVowelLength(moras[k], asked(k) * scales.pauseScale)
    OBVIOUS
  <2>5. m.vowel = moras[k].vowel /\ m.pitch = moras[k].pitch
    BY <2>1, <2>3, <2>4, FieldsKept
  <2>6. moras'[k] = m \/ moras'[k] = moras[k]
    BY <1>2, <2>1, <2>4
  <2> QED BY <2>5, <2>6
<1> HIDE DEF asked, Mora
<1>4. Len(moras') = Len(moras)
  BY <1>1, <1>2
<1> QED BY <1>3, <1>4 DEF SamePitches

LEMMA SpeedSame ==
  ASSUME SpeechTypeOK, SpeedScale
  PROVE  SamePitches(moras, moras')
<1>1. moras \in Seq(Mora) /\ scales.speed \in Nat \ {0}
  BY ScaleFields DEF SpeechTypeOK
<1>2. moras' = [k \in DOMAIN moras |-> FasterBy(moras[k], scales.speed)]
  BY Zenon DEF SpeedScale, Change, FasterBy
<1>3. ASSUME NEW m \in Mora
      PROVE  FasterBy(m, scales.speed).vowel = m.vowel /\ FasterBy(m, scales.speed).pitch = m.pitch
  BY DEF FasterBy, Mora
<1> HIDE DEF Mora
<1>4. DOMAIN moras = 1..Len(moras) /\ \A k \in 1..Len(moras) : moras[k] \in Mora
  BY <1>1
<1>5. Len(moras') = Len(moras)
  BY <1>1, <1>2
<1> QED BY <1>2, <1>3, <1>4, <1>5 DEF SamePitches

LEMMA PitchScaled ==
  ASSUME SpeechTypeOK, PitchScale
  PROVE  /\ Len(moras') = Len(moras)
         /\ \A k \in 1..Len(moras) : /\ moras'[k].vowel = moras[k].vowel
                                     /\ moras'[k].pitch = moras[k].pitch * scales.pitch
<1>1. moras \in Seq(Mora) /\ scales.pitch \in Nat \ {0}
  BY ScaleFields DEF SpeechTypeOK
<1>2. moras' = [k \in DOMAIN moras |-> WithPitch(moras[k], moras[k].pitch * scales.pitch)]
  BY Zenon DEF PitchScale, Change, WithPitch
<1>3. ASSUME NEW k \in 1..Len(moras)
      PROVE  /\ moras'[k].vowel = moras[k].vowel
             /\ moras'[k].pitch = moras[k].pitch * scales.pitch
  <2>1. k \in DOMAIN moras /\ moras[k] \in Mora
    BY <1>1
  <2>2. moras[k].pitch \in Int
    BY <2>1 DEF Mora
  <2>3. PICK x \in Int : x = moras[k].pitch * scales.pitch
    BY <1>1, <2>2
  <2> HIDE DEF Mora
  <2>4. moras'[k] = WithPitch(moras[k], x)
    BY <1>2, <2>1, <2>3
  <2> QED BY <2>1, <2>3, <2>4, FieldsKept
<1> HIDE DEF Mora
<1>4. Len(moras') = Len(moras)
  BY <1>1, <1>2
<1> QED BY <1>3, <1>4

MeanPitch(ms) == PitchSum(Voiced(ms)) \div Len(Voiced(ms))

LEMMA IntonationShape ==
  ASSUME SpeechTypeOK, Intonation
  PROVE  /\ Len(moras') = Len(moras)
         /\ \A k \in 1..Len(moras) :
              /\ moras'[k].vowel = moras[k].vowel
              /\ moras'[k].pitch =
                   IF moras[k].pitch > 0
                   THEN (moras[k].pitch - MeanPitch(moras)) * scales.intonation + MeanPitch(moras)
                   ELSE moras[k].pitch
<1>1. moras \in Seq(Mora) /\ scales.intonation \in Nat
  BY ScaleFields DEF SpeechTypeOK
<1> DEFINE to(k) == (moras[k].pitch - MeanPitch(moras)) * scales.intonation + MeanPitch(moras)
<1>2. moras' = [k \in DOMAIN moras |->
                  IF moras[k].pitch > 0 THEN WithPitch(moras[k], to(k)) ELSE moras[k]]
  BY Zenon DEF Intonation, Change, WithPitch, MeanPitch
<1>3. ASSUME NEW k \in 1..Len(moras)
      PROVE  /\ moras'[k].vowel = moras[k].vowel
             /\ moras'[k].pitch = IF moras[k].pitch > 0 THEN to(k) ELSE moras[k].pitch
  <2>1. k \in DOMAIN moras /\ moras[k] \in Mora
    BY <1>1
  <2>2. moras[k].pitch \in Int
    BY <2>1 DEF Mora
  <2> HIDE DEF Mora
  <2>3. CASE moras[k].pitch > 0
    <3>1. PICK n : n = Len(Voiced(moras))
      OBVIOUS
    <3>2. n \in Nat /\ n > 0 /\ Voiced(moras) \in Seq(Mora)
      BY <1>1, <2>3, <3>1, VoicedAre
    <3>3. PICK total \in Int : total = PitchSum(Voiced(moras))
      BY <3>2, PitchesInt
    <3>4. total \div n \in Int
      BY <3>2
    <3>5. PICK m \in Int : m = MeanPitch(moras)
      BY <3>1, <3>3, <3>4 DEF MeanPitch
    <3>6. PICK c \in Int : c = moras[k].pitch
      BY <2>2
    <3>7. (c - m) * scales.intonation + m \in Int
      BY <1>1, <3>6
    <3>8. to(k) \in Int
      BY <3>5, <3>6, <3>7
    <3> HIDE DEF to
    <3>9. moras'[k] = WithPitch(moras[k], to(k))
      BY <1>2, <2>1, <2>3
    <3> QED BY <2>1, <2>3, <3>8, <3>9, FieldsKept
  <2>4. CASE ~(moras[k].pitch > 0)
    <3> HIDE DEF to
    <3>1. moras'[k] = moras[k]
      BY <1>2, <2>1, <2>4
    <3> QED BY <2>4, <3>1
  <2> QED BY <2>3, <2>4
<1> HIDE DEF to, Mora
<1>4. Len(moras') = Len(moras)
  BY <1>1, <1>2
<1> QED BY <1>3, <1>4 DEF to

-----------------------------------------------------------------------------
(* The invariant of a synthesis.                                           *)

\* What is whispered stays so, and the decoder is called with the flat moras.
SilenceKept ==
  /\ speechStatus \in {"upspeak", "flatten"} => MutePhrases(phrases)
  /\ speechStatus \in {"pause", "speed", "tune", "intonation", "decode", "done",
                        "undefined"} =>
       MuteMoras(moras)
  /\ speechStatus \in {"done", "undefined"} => given = Handed(moras)

SilenceInv == SpeechInv /\ SilenceKept

LEMMA SilenceStep == SilenceInv /\ [SpeechNext]_speechVars => SilenceInv'
<1> SUFFICES ASSUME SilenceInv, [SpeechNext]_speechVars PROVE SilenceKept'
  BY SpeechStep DEF SilenceInv
<1> HIDE DEF AccentPhrase, Mora
<1>1. CASE speechStatus' \in {"length", "pitch", "reply", "edit", "thrown"}
  BY <1>1 DEF SilenceKept
<1>2. CASE Keep \/ EditMora
  <2>1. phrases \in Seq(AccentPhrase) /\ MutePhrases(phrases)
    BY <1>2, PitchesMute DEF SilenceInv, SpeechInv, SpeechTypeOK, PhrasesReady, Keep, EditMora
  <2>2. CASE Keep
    <3>1. phrases' = phrases /\ speechStatus' = "upspeak"
      BY <2>2 DEF Keep, End
    <3>2. MutePhrases(phrases')
      BY <2>1, <3>1
    <3> QED BY <3>1, <3>2 DEF SilenceKept
  <2>3. CASE EditMora
    <3>1. PICK p \in DOMAIN phrases : \E k \in DOMAIN phrases[p].moras :
            phrases' = Edited(phrases, p, k) \/ phrases' = Muted(phrases, p, k)
      BY <2>3, Zenon DEF EditMora, Edited, Muted
    <3>2. PICK k \in DOMAIN phrases[p].moras :
            phrases' = Edited(phrases, p, k) \/ phrases' = Muted(phrases, p, k)
      BY <3>1
    <3>3. MutePhrases(phrases') /\ speechStatus' = "upspeak"
      BY <2>1, <2>3, <3>2, EditsMute DEF EditMora
    <3> QED BY <3>3 DEF SilenceKept
  <2> QED BY <1>2, <2>2, <2>3
<1>3. CASE Upspeak
  <2>1. phrases \in Seq(AccentPhrase) /\ MutePhrases(phrases) /\ speechStatus' = "flatten"
    BY <1>3 DEF SilenceInv, SilenceKept, SpeechInv, SpeechTypeOK, Upspeak
  <2>2. phrases' = IF scales.upspeak THEN [p \in DOMAIN phrases |-> WithUpspeak(phrases[p])]
                   ELSE phrases
    BY <1>3, Zenon DEF Upspeak
  <2>3. PICK ps : ps = [p \in DOMAIN phrases |-> WithUpspeak(phrases[p])]
    OBVIOUS
  <2>4. DOMAIN phrases = 1..Len(phrases) /\ Len(phrases) \in Nat
        /\ \A p \in 1..Len(phrases) : phrases[p] \in AccentPhrase
    BY <2>1
  <2>5. DOMAIN ps = 1..Len(phrases) /\ \A p \in 1..Len(phrases) : ps[p] = WithUpspeak(phrases[p])
    BY <2>3, <2>4
  <2>6. Len(ps) = Len(phrases)
    BY <2>4, <2>5
  <2>7. MutePhrases(ps)
    <3>1. \A p \in 1..Len(phrases) : MutePhrase(phrases[p])
      BY <2>1 DEF MutePhrases
    <3> QED BY <2>4, <2>5, <2>6, <3>1, UpspeakMute DEF MutePhrases
  <2>8. MutePhrases(phrases')
    BY <2>1, <2>2, <2>3, <2>7
  <2> QED BY <2>1, <2>8 DEF SilenceKept
<1>4. CASE Flatten
  <2>1. phrases \in Seq(AccentPhrase) /\ MutePhrases(phrases)
        /\ speechStatus' = "pause" /\ moras' = Flat(phrases)
    BY <1>4 DEF SilenceInv, SilenceKept, SpeechInv, SpeechTypeOK, Flatten
  <2>2. MuteMoras(moras')
    BY <2>1, MuteFlat
  <2> QED BY <2>1, <2>2 DEF SilenceKept
<1>5. ASSUME MuteMoras(moras), SamePitches(moras, moras') PROVE MuteMoras(moras')
  BY <1>5 DEF SamePitches, MuteMoras, Mute
<1>6. CASE PauseLength
  <2>1. MuteMoras(moras) /\ speechStatus' = "speed"
    BY <1>6 DEF SilenceInv, SilenceKept, PauseLength, Change
  <2>2. MuteMoras(moras')
    BY <1>5, <1>6, <2>1, PauseSame DEF SilenceInv, SpeechInv
  <2> QED BY <2>1, <2>2 DEF SilenceKept
<1>7. CASE SpeedScale
  <2>1. MuteMoras(moras) /\ speechStatus' = "tune"
    BY <1>7 DEF SilenceInv, SilenceKept, SpeedScale, Change
  <2>2. MuteMoras(moras')
    BY <1>5, <1>7, <2>1, SpeedSame DEF SilenceInv, SpeechInv
  <2> QED BY <2>1, <2>2 DEF SilenceKept
<1>8. CASE PitchScale
  <2>1. MuteMoras(moras) /\ speechStatus' = "intonation"
    BY <1>8 DEF SilenceInv, SilenceKept, PitchScale, Change
  <2>2. SpeechTypeOK
    BY DEF SilenceInv, SpeechInv
  <2>3. 0 * scales.pitch = 0
    <3>1. scales.pitch \in Nat \ {0}
      BY <2>2, ScaleFields
    <3> QED BY <3>1
  <2>4. MuteMoras(moras')
    BY <1>8, <2>1, <2>2, <2>3, PitchScaled DEF MuteMoras, Mute
  <2> QED BY <2>1, <2>4 DEF SilenceKept
<1>9. CASE Intonation
  <2>1. MuteMoras(moras) /\ speechStatus' = "decode"
    BY <1>9 DEF SilenceInv, SilenceKept, Intonation, Change
  <2>2. SpeechTypeOK /\ ~(0 > 0)
    BY DEF SilenceInv, SpeechInv
  <2>3. MuteMoras(moras')
    BY <1>9, <2>1, <2>2, IntonationShape DEF MuteMoras, Mute
  <2> QED BY <2>1, <2>3 DEF SilenceKept
<1>10. CASE Decode
  <2>1. MuteMoras(moras)
    BY <1>10 DEF SilenceInv, SilenceKept, Decode
  <2>2. moras' = moras /\ given' = Handed(moras) /\ speechStatus' \in {"done", "undefined"}
    BY <1>10, DecodeReady DEF SilenceInv
  <2>3. MuteMoras(moras') /\ given' = Handed(moras')
    BY <2>1, <2>2
  <2> QED BY <2>2, <2>3 DEF SilenceKept
<1>11. CASE UNCHANGED speechVars
  <2>1. moras' = moras /\ given' = given /\ speechStatus' = speechStatus /\ phrases' = phrases
    BY <1>11 DEF speechVars
  <2>2. MuteMoras(moras') = MuteMoras(moras) /\ MutePhrases(phrases') = MutePhrases(phrases)
        /\ Handed(moras') = Handed(moras)
    BY <2>1
  <2> QED BY <2>1, <2>2 DEF SilenceInv, SilenceKept
<1>12. AnalyzeText \/ UpdateLength \/ UpdatePitch \/ UpdatePitchEmpty \/ CoreFails \/ Reply =>
         speechStatus' \in {"length", "pitch", "reply", "edit", "thrown"}
  BY DEF AnalyzeText, UpdateLength, UpdatePitch, UpdatePitchEmpty, CoreFails, Reply, End
<1> QED BY <1>1, <1>2, <1>3, <1>4, <1>6, <1>7, <1>8, <1>9, <1>10, <1>11, <1>12
           DEF SpeechNext

\* No scaling gives a whispered mora a pitch, and the arrays the decoder reads
\* side by side are in step up to the first consonant of the query and out of
\* step behind it, whatever the text, the answers of the core and the scales
\* (query_to_decoder_feature, tts_engine.cc).
THEOREM SilenceStays == SpeechSpec => [](UnvoicedSilent /\ PitchesInStep)
<1>1. SpeechInit => SilenceInv
  <2> SUFFICES ASSUME SpeechInit PROVE SilenceKept
    BY SpeechStart DEF SilenceInv
  <2> QED BY DEF SpeechInit, SilenceKept
<1>2. SilenceInv => UnvoicedSilent /\ PitchesInStep
  <2> SUFFICES ASSUME SilenceInv PROVE UnvoicedSilent /\ PitchesInStep
    OBVIOUS
  <2>1. moras \in Seq(Mora) /\ DOMAIN moras = 1..Len(moras)
    BY DEF SilenceInv, SpeechInv, SpeechTypeOK
  <2>2. UnvoicedSilent
    BY <2>1 DEF SilenceInv, SilenceKept, UnvoicedSilent, Scaled, MuteMoras, Mute
  <2> HIDE DEF Mora
  <2>3. PitchesInStep
    <3> SUFFICES ASSUME speechStatus \in {"done", "undefined"}, NEW j \in DOMAIN given.phonemes
                 PROVE  (given.phonemes[j][1] = j
                           /\ given.pitches[j] = moras[given.phonemes[j][1]].pitch) <=>
                          (j <= Len(moras) /\ \A m \in 1..(j - 1) : moras[m].consonant = "")
      BY Zenon DEF PitchesInStep
    <3>1. given = Handed(moras)
      BY DEF SilenceInv, SilenceKept
    <3>2. given.phonemes = Phonemes(moras)
          /\ given.pitches = [k \in DOMAIN moras |-> moras[k].pitch]
      BY <3>1 DEF Handed
    <3>3. j \in 1..Len(Phonemes(moras))
      <4>1. Phonemes(moras) \in Seq(Sound)
        BY <2>1, SoundsShape
      <4> QED BY <3>2, <4>1
    <3>4. /\ Phonemes(moras)[j][1] \in 1..Len(moras)
          /\ Phonemes(moras)[j][1] = j <=>
               (j <= Len(moras) /\ \A m \in 1..(j - 1) : moras[m].consonant = "")
      BY <2>1, <3>3, MeetsItsMora
    <3>5. Phonemes(moras)[j][1] = j => given.pitches[j] = moras[j].pitch
      BY <2>1, <3>2, <3>4
    <3> QED BY <3>2, <3>4, <3>5
  <2> QED BY <2>2, <2>3
<1>3. SpeechSpec => []SilenceInv
  BY <1>1, SilenceStep, PTL DEF SpeechSpec
<1> QED BY <1>2, <1>3, PTL

\* Together the pitches are those of the query, scaled by the pitch alone from
\* that step on.
PitchKept ==
  /\ speechStatus \in {"pause", "speed", "tune"} => PitchSum(moras) = PitchSum(Flat(phrases))
  /\ speechStatus \in {"intonation", "decode", "done", "undefined"} =>
       PitchSum(moras) = scales.pitch * PitchSum(Flat(phrases))

PitchInv == SpeechInv /\ PitchKept

\* The mean of the voiced pitches is a whole number of the model's unit: the
\* code divides floats, the model's \div must not cut anything off.
MeanExact ==
  speechStatus = "intonation" /\ Voiced(moras) # <<>> =>
    Len(Voiced(moras)) * MeanPitch(moras) = PitchSum(Voiced(moras))

LEMMA PitchStep == PitchInv /\ MeanExact /\ [SpeechNext]_speechVars => PitchInv'
<1> SUFFICES ASSUME PitchInv, MeanExact, [SpeechNext]_speechVars PROVE PitchKept'
  BY SpeechStep DEF PitchInv
<1> HIDE DEF AccentPhrase, Mora
<1>1. CASE speechStatus' \in {"length", "pitch", "reply", "edit", "upspeak", "flatten",
                             "thrown"}
  BY <1>1 DEF PitchKept
<1>2. CASE Flatten
  <2>1. speechStatus' = "pause" /\ moras' = Flat(phrases) /\ phrases' = phrases
    BY <1>2 DEF Flatten
  <2>2. PitchSum(moras') = PitchSum(Flat(phrases'))
    BY <2>1
  <2> QED BY <2>1, <2>2 DEF PitchKept
<1>3. moras \in Seq(Mora) /\ moras' \in Seq(Mora) /\ SpeechTypeOK
  BY SpeechStep DEF PitchInv, SpeechInv, SpeechTypeOK
<1>4. ASSUME SamePitches(moras, moras') PROVE PitchSum(moras') = PitchSum(moras)
  BY <1>3, <1>4, SamePitchSum DEF SamePitches
<1>5. CASE PauseLength
  <2>1. PitchSum(moras) = PitchSum(Flat(phrases)) /\ speechStatus' = "speed" /\ phrases' = phrases
    BY <1>5 DEF PitchInv, PitchKept, PauseLength, Change
  <2>2. PitchSum(moras') = PitchSum(Flat(phrases'))
    BY <1>3, <1>4, <1>5, <2>1, PauseSame
  <2> QED BY <2>1, <2>2 DEF PitchKept
<1>6. CASE SpeedScale
  <2>1. PitchSum(moras) = PitchSum(Flat(phrases)) /\ speechStatus' = "tune" /\ phrases' = phrases
    BY <1>6 DEF PitchInv, PitchKept, SpeedScale, Change
  <2>2. PitchSum(moras') = PitchSum(Flat(phrases'))
    BY <1>3, <1>4, <1>6, <2>1, SpeedSame
  <2> QED BY <2>1, <2>2 DEF PitchKept
<1>7. CASE PitchScale
  <2>1. PitchSum(moras) = PitchSum(Flat(phrases)) /\ speechStatus' = "intonation"
        /\ phrases' = phrases /\ scales' = scales
    BY <1>7 DEF PitchInv, PitchKept, PitchScale, Change
  <2>2. scales.pitch \in Int
    BY <1>3, ScaleFields
  <2>3. PitchSum(moras') = scales.pitch * PitchSum(moras)
    BY <1>3, <1>7, <2>2, PitchScaled, ScaledPitchSum
  <2>4. PitchSum(moras') = scales'.pitch * PitchSum(Flat(phrases'))
    BY <2>1, <2>3
  <2> QED BY <2>1, <2>4 DEF PitchKept
<1>8. CASE Intonation
  <2>1. /\ PitchSum(moras) = scales.pitch * PitchSum(Flat(phrases)) /\ speechStatus' = "decode"
        /\ speechStatus = "intonation" /\ phrases' = phrases /\ scales' = scales
    BY <1>8 DEF PitchInv, PitchKept, Intonation, Change
  <2>2. PitchSum(moras') = PitchSum(moras)
    <3>1. CASE Voiced(moras) = <<>>
      <4>1. Len(Voiced(moras)) = 0 /\ ~(0 > 0)
        BY <3>1
      <4>2. \A k \in 1..Len(moras) : ~(moras[k].pitch > 0)
        BY <1>3, <4>1, VoicedAre
      <4>3. SamePitches(moras, moras')
        BY <1>3, <1>8, <4>2, IntonationShape DEF SamePitches
      <4> QED BY <1>4, <4>3
    <3>2. CASE Voiced(moras) # <<>>
      <4>1. Len(Voiced(moras)) * MeanPitch(moras) = PitchSum(Voiced(moras))
        BY <2>1, <3>2 DEF MeanExact
      <4>2. PICK v \in Seq(Mora) : v = Voiced(moras)
        BY <1>3, VoicedAre
      <4>3. PICK total \in Int : total = PitchSum(v)
        BY PitchesInt
      <4>4. PICK n \in Nat : n = Len(v)
        OBVIOUS
      <4>5. n > 0
        BY <3>2, <4>2, <4>4
      <4>6. total \div n \in Int
        BY <4>5
      <4>7. PICK mean \in Int : mean = MeanPitch(moras)
        BY <4>2, <4>3, <4>4, <4>6 DEF MeanPitch
      <4>8. scales.intonation \in Int
        BY <1>3, ScaleFields
      <4>9. Len(moras') = Len(moras)
            /\ \A k \in 1..Len(moras) :
                 moras'[k].pitch = IF moras[k].pitch > 0
                                   THEN (moras[k].pitch - mean) * scales.intonation + mean
                                   ELSE moras[k].pitch
        BY <1>3, <1>8, <4>7, IntonationShape
      <4>10. Len(Voiced(moras)) * mean = PitchSum(Voiced(moras))
        BY <4>1, <4>7
      <4>11. PICK c \in Int : c = scales.intonation
        BY <4>8
      <4>12. PICK ms \in Seq(Mora) : ms = moras
        BY <1>3
      <4>13. PICK ns \in Seq(Mora) : ns = moras'
        BY <1>3
      <4>14. IsStretched(ms, ns, mean, c)
        BY <4>9, <4>10, <4>11, <4>12, <4>13 DEF IsStretched
      <4>15. PitchSum(ns) = PitchSum(ms)
        BY <4>14, StretchedPitchSum
      <4> QED BY <4>12, <4>13, <4>15
    <3> QED BY <3>1, <3>2
  <2>3. PitchSum(moras') = scales'.pitch * PitchSum(Flat(phrases'))
    BY <2>1, <2>2
  <2> QED BY <2>1, <2>3 DEF PitchKept
<1>9. CASE Decode
  <2>1. PitchSum(moras) = scales.pitch * PitchSum(Flat(phrases))
    BY <1>9 DEF PitchInv, PitchKept, Decode
  <2>2. /\ moras' = moras /\ phrases' = phrases /\ scales' = scales
        /\ speechStatus' \in {"done", "undefined"}
    BY <1>9, DecodeReady DEF PitchInv
  <2>3. PitchSum(moras') = scales'.pitch * PitchSum(Flat(phrases'))
    BY <2>1, <2>2
  <2> QED BY <2>2, <2>3 DEF PitchKept
<1>10. CASE UNCHANGED speechVars
  BY <1>10 DEF PitchInv, PitchKept, speechVars
<1>11. AnalyzeText \/ UpdateLength \/ UpdatePitch \/ UpdatePitchEmpty \/ CoreFails \/ Reply
       \/ Keep \/ EditMora \/ Upspeak =>
         speechStatus' \in {"length", "pitch", "reply", "edit", "upspeak", "flatten", "thrown"}
  BY DEF AnalyzeText, UpdateLength, UpdatePitch, UpdatePitchEmpty, CoreFails, Reply, End,
         Keep, EditMora, Upspeak
<1> QED BY <1>1, <1>2, <1>5, <1>6, <1>7, <1>8, <1>9, <1>10, <1>11 DEF SpeechNext

\* The moras the decoder's arrays are made from are the query, scaled: silence
\* and mean pitch; the arrays are in step up to the first consonant.  No mean may
\* be cut by the model's whole numbers (query_to_decoder_feature,
\* tts_engine.cc).
THEOREM FeaturesStay == SpeechSpec /\ []MeanExact => []FeaturesRight
<1>1. SpeechInit => PitchInv
  <2> SUFFICES ASSUME SpeechInit PROVE PitchKept
    BY SpeechStart DEF PitchInv
  <2> QED BY DEF SpeechInit, PitchKept
<1>2. PitchInv => MeanKept
  BY DEF PitchInv, PitchKept, MeanKept, Scaled
<1>3. SpeechSpec /\ []MeanExact => []PitchInv
  BY <1>1, PitchStep, PTL DEF SpeechSpec
<1>4. UnvoicedSilent /\ PitchesInStep /\ MeanKept => FeaturesRight
  BY DEF FeaturesRight
<1> QED BY <1>2, <1>3, <1>4, SilenceStays, PTL
-----------------------------------------------------------------------------
(* Waves of one channel.                                                   *)

\* The first channels of a list of waves.
Firsts(r) == [k \in 1..Len(r) |-> r[k].channels[1]]
MonoOnly(r) == Broken \notin ToSet(r) /\ \A w \in ToSet(r) : NumChannels(w) <= 1

LEMMA MonoShape ==
  ASSUME NEW r \in Requests, MonoOnly(r)
  PROVE  /\ r \in Seq([rate : Nat, channels : Seq(Seq(Samples))]) /\ Len(r) \in Nat
         /\ Firsts(r) \in Seq(Seq(Samples)) /\ Len(Firsts(r)) = Len(r)
         /\ \A k \in 1..Len(r) : r[k].channels = <<Firsts(r)[k]>> /\ NumSamples(r[k]) = Len(Firsts(r)[k])
                                 /\ NumChannels(r[k]) = 1
<1>1. r \in Seq([rate : Nat, channels : Seq(Seq(Samples))])
  BY WaveAssumption
<1>2. Len(r) \in Nat /\ DOMAIN r = 1..Len(r)
  BY <1>1
<1>3. ASSUME NEW k \in 1..Len(r)
      PROVE  /\ Firsts(r)[k] \in Seq(Samples)
             /\ r[k].channels = <<Firsts(r)[k]>> /\ NumSamples(r[k]) = Len(Firsts(r)[k])
             /\ NumChannels(r[k]) = 1
  <2>1. PICK cs : cs = r[k].channels
    OBVIOUS
  <2>2. cs \in Seq(Seq(Samples))
    <3>1. PICK w : w = r[k]
      OBVIOUS
    <3>2. w \in [rate : Nat, channels : Seq(Seq(Samples))]
      BY <1>1, <1>2, <3>1, ElementOfSeq
    <3>3. w.channels \in Seq(Seq(Samples))
      BY <3>2, Zenon
    <3> QED BY <2>1, <3>1, <3>3
  <2>3. r[k] \in ToSet(r)
    BY <1>2 DEF ToSet
  <2>4. r[k] # Broken /\ Len(cs) <= 1
    BY <2>1, <2>3 DEF MonoOnly, NumChannels
  <2>5. cs # <<>>
    BY <1>2, <2>1, <2>4, WaveAssumption
  <2>6. Len(cs) = 1
    <3>1. Len(cs) \in Nat \ {0}
      BY <2>2, <2>5, EmptySeq
    <3>2. PICK l \in Nat \ {0} : l = Len(cs)
      BY <3>1
    <3>3. l <= 1
      BY <2>4, <3>2, Zenon
    <3>4. l = 1
      BY <3>2, <3>3
    <3> QED BY <3>2, <3>4, Zenon
  <2>7. cs = <<cs[1]>> /\ cs[1] \in Seq(Samples)
    <3>1. PICK c : c = cs[1]
      OBVIOUS
    <3>2. c \in Seq(Samples)
      <4>1. 1 \in 1..Len(cs)
        BY <2>6
      <4> QED BY <2>2, <3>1, <4>1, ElementOfSeq, Zenon
    <3>3. <<c>> \in Seq(Seq(Samples)) /\ Len(<<c>>) = 1 /\ <<c>>[1] = c
      BY <3>2
    <3>4. \A n \in 1..Len(cs) : cs[n] = <<c>>[n]
      BY <2>6, <3>1, <3>3
    <3>5. cs = <<c>>
      BY <2>2, <2>6, <3>3, <3>4, SeqEqual, Zenon
    <3> QED BY <3>1, <3>2, <3>5
  <2>8. Firsts(r)[k] = cs[1]
    BY <2>1 DEF Firsts
  <2>9. NumSamples(r[k]) = Len(cs[1]) /\ NumChannels(r[k]) = 1
    BY <2>1, <2>5, <2>6 DEF NumSamples, NumChannels
  <2> QED BY <2>1, <2>7, <2>8, <2>9
<1>4. Firsts(r) \in [1..Len(r) -> Seq(Samples)]
  BY <1>3 DEF Firsts
<1>5. Firsts(r) \in Seq(Seq(Samples)) /\ Len(Firsts(r)) = Len(r)
  BY <1>2, <1>4
<1> QED BY <1>1, <1>2, <1>3, <1>5

LEMMA OneChannel ==
  ASSUME request \in Requests, MonoOnly(request)
  PROVE  MaxChannels = 1
<1> DEFINE S == {NumChannels(w) : w \in ToSet(request)} \cup {1}
<1>1. \A w \in ToSet(request) : NumChannels(w) = 1
  <2>1. DOMAIN request = 1..Len(request)
    BY MonoShape
  <2> QED BY <2>1, MonoShape DEF ToSet
<1>2. S = {1}
  BY <1>1
<1>3. MaxChannels = CHOOSE x \in {1} : \A y \in {1} : x >= y
  BY <1>2, Zenon DEF MaxChannels, Max
<1>4. \E x \in {1} : \A y \in {1} : x >= y
  OBVIOUS
<1> QED BY <1>3, <1>4

\* As many samples as the first channels have together.
LEMMA SamplesCounted ==
  ASSUME request \in Requests, MonoOnly(request)
  PROVE  SumSample = Len(FlattenSeq(Firsts(request)))
<1>1. PICK parts : parts = Firsts(request)
  OBVIOUS
<1>2. /\ parts \in Seq(Seq(Samples)) /\ Len(parts) = Len(request) /\ Len(request) \in Nat
      /\ \A k \in 1..Len(request) : NumSamples(request[k]) = Len(parts[k])
  BY <1>1, MonoShape
<1>3. /\ \A n \in 0..Len(parts) : Joint(parts, n) \in Seq(Samples)
      /\ Joint(parts, 0) = <<>> /\ Joint(parts, Len(parts)) = FlattenSeq(parts)
      /\ \A n \in 1..Len(parts) : Joint(parts, n) = Joint(parts, n - 1) \o parts[n]
  BY <1>2, JointStep
<1> DEFINE N == Len(request)
           g == [n \in 0..N |-> Len(Joint(parts, n))]
           Is(f) == f = [n \in 0..N |-> IF n = 0 THEN 0 ELSE f[n - 1] + NumSamples(request[n])]
<1>4. g \in [0..N -> Nat] /\ g[0] = 0 /\ g[N] = Len(FlattenSeq(parts))
      /\ \A n \in 1..N : g[n] = g[n - 1] + NumSamples(request[n])
  <2>1. 0 \in 0..N /\ N \in 0..N /\ Len(<<>>) = 0
    BY <1>2
  <2>2. \A n \in 0..N : Len(Joint(parts, n)) \in Nat
    BY <1>2, <1>3
  <2>3. ASSUME NEW n \in 1..N PROVE g[n] = g[n - 1] + NumSamples(request[n])
    <3>1. n \in 0..N /\ n - 1 \in 0..N
      BY <1>2
    <3>2. PICK j \in Seq(Samples) : j = Joint(parts, n - 1)
      BY <1>2, <1>3, <3>1
    <3>3. PICK q \in Seq(Samples) : q = parts[n]
      BY <1>2
    <3>4. Len(j \o q) = Len(j) + Len(q)
      OBVIOUS
    <3>5. Joint(parts, n) = j \o q
      BY <1>2, <1>3, <3>2, <3>3
    <3> QED BY <1>2, <3>1, <3>2, <3>3, <3>4, <3>5
  <2> QED BY <1>2, <1>3, <2>1, <2>2, <2>3
<1>5. Is(g)
  <2>1. \A n \in 0..N : g[n] = IF n = 0 THEN 0 ELSE g[n - 1] + NumSamples(request[n])
    <3> SUFFICES ASSUME NEW n \in 0..N
                 PROVE  g[n] = IF n = 0 THEN 0 ELSE g[n - 1] + NumSamples(request[n])
      OBVIOUS
    <3>1. n = 0 \/ n \in 1..N
      BY <1>2
    <3> HIDE DEF g
    <3> QED BY <1>4, <3>1
  <2>2. g = [n \in 0..N |-> g[n]]
    OBVIOUS
  <2> HIDE DEF g
  <2> QED BY <2>1, <2>2
<1> HIDE DEF g
<1> DEFINE sum == CHOOSE f : Is(f)
<1>6. Is(sum)
  BY <1>5
<1>7. SumSample = sum[N]
  BY DEF SumSample
<1> HIDE DEF sum
<1>8. \A n \in 0..N : sum[n] = IF n = 0 THEN 0 ELSE sum[n - 1] + NumSamples(request[n])
  BY <1>6
<1> HIDE DEF Is
<1> DEFINE P == {n \in Nat : n <= N => sum[n] = g[n]}
<1>9. P \in SUBSET Nat /\ 0 \in P
  <2>1. 0 \in 0..N
    BY <1>2
  <2> QED BY <1>4, <1>8, <2>1
<1>10. ASSUME NEW n \in P PROVE n + 1 \in P
  <2> SUFFICES ASSUME n + 1 <= N PROVE sum[n + 1] = g[n + 1]
    OBVIOUS
  <2>1. n + 1 \in 0..N /\ n + 1 \in 1..N /\ (n + 1) - 1 = n /\ n + 1 # 0 /\ n <= N
    BY <1>2
  <2> QED BY <1>4, <1>8, <2>1
<1>11. N \in P
  <2> HIDE DEF P
  <2> QED BY <1>2, <1>9, <1>10, Induction
<1> QED BY <1>1, <1>4, <1>7, <1>11

\* What has been written, and where the next sample goes.
Start(n) == Len(Joint(Firsts(request), n))
Whole == FlattenSeq(Firsts(request))
AnyWave == [rate : Nat \cup {MaxRate}, channels : Seq(Seq(Samples))]

Joining ==
  /\ waves \in Seq(AnyWave) /\ Len(waves) = Len(request)
  /\ \A k \in 1..Len(request) : waves[k].channels = <<Firsts(request)[k]>>
  /\ data \in [1..1 -> [1..Len(Whole) -> Samples \cup {Silence}]]
  /\ current \in Nat \ {0} /\ wave \in Nat \ {0}
  /\ \A k \in 1..(current - 1) : data[1][k] = Whole[k]

Located ==
  /\ pc = "convert" => wave <= Len(request) + 1 /\ current = Start(wave - 1) + 1
  /\ pc = "copy" =>
       /\ wave <= Len(request) /\ channel \in {1, 2}
       /\ channel = 1 => /\ sample \in 1..(Len(Firsts(request)[wave]) + 1)
                         /\ current = Start(wave - 1) + sample
       /\ channel = 2 => current = Start(wave) + 1
  /\ pc = "done" => current = Start(Len(request)) + 1

WaveInv ==
  /\ request \in Requests
  /\ pc \in {"decode", "convert", "copy", "done", "error"} \/ ~Mono
  /\ pc = "decode" => wave = 1 /\ current = 1
  /\ pc \in {"convert", "copy", "done"} /\ Mono => MonoOnly(request) /\ Joining /\ Located

\* What the steps need to know of the request.
LEMMA StartsAre ==
  ASSUME request \in Requests, MonoOnly(request)
  PROVE  /\ Start(0) = 0 /\ Start(Len(request)) = Len(Whole) /\ Len(Whole) \in Nat
         /\ Len(request) \in Nat /\ Whole \in Seq(Samples)
         /\ \A n \in 1..Len(request) :
              /\ Firsts(request)[n] \in Seq(Samples) /\ Start(n - 1) \in Nat
              /\ Start(n) = Start(n - 1) + Len(Firsts(request)[n])
              /\ \A k \in 1..Len(Firsts(request)[n]) :
                   /\ Start(n - 1) + k \in 1..Len(Whole)
                   /\ Whole[Start(n - 1) + k] = Firsts(request)[n][k]
<1>1. PICK parts : parts = Firsts(request)
  OBVIOUS
<1>2. /\ parts \in Seq(Seq(Samples)) /\ Len(parts) = Len(request) /\ Len(request) \in Nat
  BY <1>1, MonoShape
<1>3. /\ \A n \in 0..Len(parts) : Joint(parts, n) \in Seq(Samples)
      /\ Joint(parts, 0) = <<>> /\ Joint(parts, Len(parts)) = FlattenSeq(parts)
      /\ \A n \in 1..Len(parts) : Joint(parts, n) = Joint(parts, n - 1) \o parts[n]
  BY <1>2, JointStep
<1>4. /\ FlattenSeq(parts) \in Seq(Samples)
      /\ \A p \in 1..Len(parts) : \A k \in 1..Len(parts[p]) :
           /\ Len(Joint(parts, p - 1)) + k \in 1..Len(FlattenSeq(parts))
           /\ FlattenSeq(parts)[Len(Joint(parts, p - 1)) + k] = parts[p][k]
  BY <1>2, JointPlaces
<1>5. /\ Whole = FlattenSeq(parts) /\ Firsts(request) = parts
      /\ \A n : Start(n) = Len(Joint(parts, n))
  BY <1>1 DEF Whole, Start
<1>6. ASSUME NEW n \in 1..Len(request)
      PROVE  parts[n] \in Seq(Samples) /\ Start(n - 1) \in Nat
             /\ Start(n) = Start(n - 1) + Len(parts[n])
  <2>1. n - 1 \in 0..Len(parts)
    BY <1>2
  <2>2. PICK j \in Seq(Samples) : j = Joint(parts, n - 1)
    BY <1>3, <2>1
  <2>3. PICK q \in Seq(Samples) : q = parts[n]
    BY <1>2
  <2>4. Len(j \o q) = Len(j) + Len(q) /\ Len(j) \in Nat
    OBVIOUS
  <2> QED BY <1>2, <1>3, <1>5, <2>2, <2>3, <2>4
<1>7. Start(0) = 0 /\ Start(Len(request)) = Len(Whole) /\ Len(Whole) \in Nat
  <2>1. Len(<<>>) = 0
    OBVIOUS
  <2> QED BY <1>2, <1>3, <1>4, <1>5, <2>1
<1> QED BY <1>2, <1>4, <1>5, <1>6, <1>7

\* What is written of a mono request becomes whole.
LEMMA WaveInvEnough == WaveInv => MonoConnected
<1> SUFFICES ASSUME WaveInv PROVE MonoJoined /\ MonoFits
  BY DEF MonoConnected
<1>1. MonoFits
  BY DEF WaveInv, MonoFits
<1>2. MonoJoined
  <2> SUFFICES ASSUME pc = "done", Mono
               PROVE  data = <<FlattenSeq([k \in 1..Len(request) |-> request[k].channels[1]])>>
    BY DEF MonoJoined
  <2>1. request \in Requests /\ MonoOnly(request) /\ Joining /\ current = Start(Len(request)) + 1
    BY DEF WaveInv, Located
  <2>2. Len(Whole) \in Nat /\ Start(Len(request)) = Len(Whole) /\ Whole \in Seq(Samples)
    BY <2>1, StartsAre
  <2>3. PICK d : d = data[1]
    OBVIOUS
  <2>4. d \in [1..Len(Whole) -> Samples \cup {Silence}] /\ \A k \in 1..Len(Whole) : d[k] = Whole[k]
    <3>1. current - 1 = Len(Whole)
      BY <2>1, <2>2
    <3> QED BY <2>1, <2>3, <3>1 DEF Joining
  <2>5. d = Whole
    <3>1. DOMAIN Whole = 1..Len(Whole) /\ Whole = [k \in 1..Len(Whole) |-> Whole[k]]
      BY <2>2
    <3> QED BY <2>4, <3>1
  <2>6. data = <<d>>
    <3>1. DOMAIN data = 1..1 /\ data = [c \in 1..1 |-> data[c]]
      BY <2>1 DEF Joining
    <3>2. 1..1 = {1}
      OBVIOUS
    <3> QED BY <2>3, <3>1, <3>2
  <2>7. Whole = FlattenSeq([k \in 1..Len(request) |-> request[k].channels[1]])
    BY DEF Whole, Firsts
  <2> QED BY <2>5, <2>6, <2>7
<1> QED BY <1>1, <1>2

LEMMA DecodeJoins ==
  ASSUME WaveInv, DecodeWaves, Mono
  PROVE  MonoOnly(request)' /\ Joining' /\ Located'
<1>1. /\ request \in Requests /\ MonoOnly(request) /\ wave = 1 /\ current = 1
      /\ request' = request /\ waves' = request /\ wave' = 1 /\ current' = 1 /\ pc' = "convert"
  BY DEF WaveInv, DecodeWaves, Mono, MonoOnly
<1>2. /\ request \in Seq([rate : Nat, channels : Seq(Seq(Samples))])
      /\ \A k \in 1..Len(request) : request[k].channels = <<Firsts(request)[k]>>
  BY <1>1, MonoShape
<1>3. PICK r : r = MaxRate
  OBVIOUS
<1>4. request \in Seq([rate : Nat \cup {r}, channels : Seq(Seq(Samples))])
  <2>1. [rate : Nat, channels : Seq(Seq(Samples))]
          \subseteq [rate : Nat \cup {r}, channels : Seq(Seq(Samples))]
    OBVIOUS
  <2> QED BY <1>2, <2>1, SeqMonotonic
<1>5. MaxRate' = MaxRate
  BY <1>1 DEF MaxRate
<1>6. /\ Start(0) = 0 /\ Len(Whole) \in Nat /\ Len(request) \in Nat
  BY <1>1, StartsAre
<1>7. Whole' = Whole /\ Start(0)' = Start(0) /\ Firsts(request)' = Firsts(request)
  BY <1>1 DEF Whole, Start, Firsts
<1>8. data' = [c \in 1..1 |-> [k \in 1..Len(Whole) |-> Silence]]
  BY <1>1, OneChannel, SamplesCounted DEF DecodeWaves, Whole
<1>9. data' \in [1..1 -> [1..Len(Whole) -> Samples \cup {Silence}]]
  BY <1>8
<1>10. waves' \in Seq(AnyWave')
  BY <1>1, <1>3, <1>4, <1>5 DEF AnyWave
<1>11. 1..(1 - 1) = {}
  OBVIOUS
<1>12. Joining'
  BY <1>1, <1>2, <1>7, <1>9, <1>10, <1>11 DEF Joining
<1>13. wave' - 1 = 0
  BY <1>1
<1>14. Located'
  BY <1>1, <1>6, <1>7, <1>13 DEF Located, Start
<1> QED BY <1>1, <1>12, <1>14 DEF MonoOnly

\* What a step that keeps the request keeps of all that is said of it.
LEMMA RequestStays ==
  ASSUME request' = request
  PROVE  /\ Whole' = Whole /\ AnyWave' = AnyWave /\ Mono' = Mono
         /\ Firsts(request)' = Firsts(request) /\ MonoOnly(request)' = MonoOnly(request)
         /\ \A n : Start(n)' = Start(n)
<1>1. MaxRate' = MaxRate
  BY DEF MaxRate
<1>2. \A n : Start(n)' = Start(n)
  BY DEF Start, Firsts
<1> QED BY <1>1, <1>2 DEF Whole, AnyWave, Mono, Firsts, MonoOnly

\* What is known of the wave that the loop is at.
LEMMA AtWave ==
  ASSUME WaveInv, Mono, pc \in {"convert", "copy", "done"}
  PROVE  /\ request \in Requests /\ MonoOnly(request) /\ Joining /\ Located
         /\ wave \in Nat \ {0} /\ current \in Nat \ {0} /\ Len(request) \in Nat
         /\ wave <= Len(request) =>
              /\ wave \in 1..Len(request) /\ Firsts(request)[wave] \in Seq(Samples)
              /\ Len(Firsts(request)[wave]) \in Nat /\ Start(wave - 1) \in Nat
              /\ Start(wave) = Start(wave - 1) + Len(Firsts(request)[wave])
              /\ waves[wave].channels = <<Firsts(request)[wave]>>
              /\ NumChannels(waves[wave]) = 1
              /\ NumSamples(waves[wave]) = Len(Firsts(request)[wave])
<1>1. request \in Requests /\ MonoOnly(request) /\ Joining /\ Located
  BY DEF WaveInv
<1>2. wave \in Nat \ {0} /\ current \in Nat \ {0} /\ Len(request) \in Nat
  BY <1>1, StartsAre DEF Joining
<1>3. ASSUME wave <= Len(request)
      PROVE  /\ wave \in 1..Len(request) /\ Firsts(request)[wave] \in Seq(Samples)
             /\ Len(Firsts(request)[wave]) \in Nat /\ Start(wave - 1) \in Nat
             /\ Start(wave) = Start(wave - 1) + Len(Firsts(request)[wave])
             /\ waves[wave].channels = <<Firsts(request)[wave]>>
             /\ NumChannels(waves[wave]) = 1
             /\ NumSamples(waves[wave]) = Len(Firsts(request)[wave])
  <2>1. wave \in 1..Len(request)
    BY <1>2, <1>3
  <2>2. PICK first : first = Firsts(request)[wave]
    OBVIOUS
  <2>3. first \in Seq(Samples) /\ Start(wave - 1) \in Nat /\ Start(wave) = Start(wave - 1) + Len(first)
    BY <1>1, <2>1, <2>2, StartsAre
  <2>4. Len(first) \in Nat
    BY <2>3
  <2>5. waves[wave].channels = <<first>>
    BY <1>1, <2>1, <2>2 DEF Joining
  <2>6. Len(<<first>>) = 1 /\ <<first>>[1] = first /\ <<first>> # <<>>
    OBVIOUS
  <2>7. NumChannels(waves[wave]) = 1 /\ NumSamples(waves[wave]) = Len(first)
    BY <2>5, <2>6 DEF NumChannels, NumSamples
  <2> QED BY <2>1, <2>2, <2>3, <2>4, <2>5, <2>7
<1> QED BY <1>1, <1>2, <1>3

LEMMA ConvertJoins ==
  ASSUME WaveInv, Convert, Mono
  PROVE  MonoOnly(request)' /\ Joining' /\ Located'
<1>1. /\ pc = "convert" /\ wave <= Len(waves) /\ pc' = "copy" /\ channel' = 1 /\ sample' = 1
      /\ data' = data /\ current' = current /\ wave' = wave /\ request' = request
  BY DEF Convert
<1>2. request \in Requests /\ MonoOnly(request) /\ Joining /\ Located /\ Len(request) \in Nat
  BY <1>1, AtWave
<1>3. Len(waves) = Len(request) /\ waves \in Seq(AnyWave)
  BY <1>2 DEF Joining
<1>4. PICK first : first = Firsts(request)[wave]
  OBVIOUS
<1>5. /\ wave \in 1..Len(request) /\ first \in Seq(Samples) /\ Len(first) \in Nat
      /\ waves[wave].channels = <<first>> /\ NumChannels(waves[wave]) = 1
  BY <1>1, <1>3, <1>4, AtWave
<1>6. MaxChannels = 1
  BY <1>2, OneChannel
<1>7. PICK new : new = [rate |-> MaxRate, channels |-> <<first>>]
  OBVIOUS
<1>8. waves' = [waves EXCEPT ![wave] = new]
  <2>1. PICK added : waves' = [waves EXCEPT ![wave] =
          [rate |-> MaxRate,
           channels |-> [c \in 1..1 |-> IF c <= 1 THEN waves[wave].channels[c] ELSE added[c]]]]
    BY <1>5, <1>6, Zenon DEF Convert
  <2>2. [c \in 1..1 |-> IF c <= 1 THEN waves[wave].channels[c] ELSE added[c]] = <<first>>
    <3>1. \A c \in 1..1 : (IF c <= 1 THEN waves[wave].channels[c] ELSE added[c]) = first
      <4>1. <<first>>[1] = first
        OBVIOUS
      <4> QED BY <1>5, <4>1
    <3>2. <<first>> = [c \in 1..1 |-> first]
      OBVIOUS
    <3> QED BY <3>1, <3>2
  <2> QED BY <1>7, <2>1, <2>2, Zenon
<1>9. new \in AnyWave /\ new.channels = <<first>>
  <2>1. <<first>> \in Seq(Seq(Samples))
    BY <1>5
  <2> QED BY <1>7, <2>1 DEF AnyWave
<1>10. waves' \in Seq(AnyWave) /\ Len(waves') = Len(request)
  BY <1>3, <1>5, <1>8, <1>9
<1>11. \A k \in 1..Len(request) : waves'[k].channels = <<Firsts(request)[k]>>
  <2> SUFFICES ASSUME NEW k \in 1..Len(request)
               PROVE  waves'[k].channels = <<Firsts(request)[k]>>
    OBVIOUS
  <2>1. DOMAIN waves = 1..Len(request)
    BY <1>3
  <2>2. CASE k = wave
    BY <1>4, <1>8, <1>9, <2>1, <2>2
  <2>3. CASE k # wave
    <3>1. waves'[k] = waves[k]
      BY <1>8, <2>1, <2>3
    <3> QED BY <1>2, <3>1 DEF Joining
  <2> QED BY <2>2, <2>3
<1>12. Joining'
  BY <1>1, <1>2, <1>10, <1>11, RequestStays DEF Joining
<1>13. Located'
  <2>1. current = Start(wave - 1) + 1 /\ wave <= Len(request)
    BY <1>1, <1>2, <1>3 DEF Located
  <2>2. 1 \in 1..(Len(first) + 1)
    BY <1>5
  <2> QED BY <1>1, <1>4, <2>1, <2>2, RequestStays DEF Located
<1> QED BY <1>1, <1>2, <1>12, <1>13, RequestStays

LEMMA CopyJoins ==
  ASSUME WaveInv, Copy, Mono
  PROVE  MonoOnly(request)' /\ Joining' /\ Located' /\ pc' = "copy"
<1>1. /\ pc = "copy" /\ channel <= NumChannels(waves[wave]) /\ sample <= NumSamples(waves[wave])
      /\ current' = current + 1 /\ sample' = sample + 1
      /\ waves' = waves /\ wave' = wave /\ channel' = channel /\ request' = request
  BY DEF Copy
<1>2. /\ request \in Requests /\ MonoOnly(request) /\ Joining /\ Located
      /\ wave <= Len(request) /\ channel \in {1, 2} /\ current \in Nat \ {0}
  BY <1>1, AtWave DEF Located
<1>3. PICK first : first = Firsts(request)[wave]
  OBVIOUS
<1>4. /\ wave \in 1..Len(request) /\ first \in Seq(Samples) /\ Len(first) \in Nat
      /\ Start(wave - 1) \in Nat /\ waves[wave].channels = <<first>>
      /\ NumChannels(waves[wave]) = 1 /\ NumSamples(waves[wave]) = Len(first)
  BY <1>1, <1>2, <1>3, AtWave
<1>5. channel = 1
  BY <1>1, <1>2, <1>4
<1>6. sample \in 1..Len(first) /\ current = Start(wave - 1) + sample
  <2>1. sample \in 1..(Len(first) + 1) /\ current = Start(wave - 1) + sample
    BY <1>1, <1>2, <1>3, <1>5 DEF Located
  <2>2. sample <= Len(first)
    BY <1>1, <1>4
  <2> QED BY <1>4, <2>1, <2>2
<1>7. current \in 1..Len(Whole) /\ Whole[current] = first[sample] /\ Len(Whole) \in Nat
  BY <1>2, <1>3, <1>4, <1>6, StartsAre
<1>8. first[sample] \in Samples
  BY <1>4, <1>6
<1>9. PICK written : written = data[1]
  OBVIOUS
<1>10. /\ data \in [1..1 -> [1..Len(Whole) -> Samples \cup {Silence}]]
       /\ written \in [1..Len(Whole) -> Samples \cup {Silence}]
       /\ \A k \in 1..(current - 1) : written[k] = Whole[k]
  BY <1>2, <1>9 DEF Joining
<1>11. Len(written) = Len(Whole)
  <2>1. written \in Seq(Samples \cup {Silence})
    BY <1>7, <1>10
  <2> QED BY <1>7, <1>10, <2>1
<1>12. ~(current > Len(data[channel]))
  BY <1>5, <1>7, <1>9, <1>11
<1>13. data' = [data EXCEPT ![channel][current] = waves[wave].channels[channel][sample]] /\ pc' = "copy"
  BY <1>1, <1>12, Zenon DEF Copy
<1>14. waves[wave].channels[channel][sample] = first[sample]
  <2>1. <<first>>[1] = first
    OBVIOUS
  <2> QED BY <1>4, <1>5, <2>1
<1>15. PICK next : next = [written EXCEPT ![current] = first[sample]]
  OBVIOUS
<1>16. /\ data' \in [1..1 -> [1..Len(Whole) -> Samples \cup {Silence}]]
       /\ data'[1] = next
  <2>1. data' = [data EXCEPT ![1] = next]
    BY <1>5, <1>9, <1>13, <1>14, <1>15, Zenon
  <2>2. next \in [1..Len(Whole) -> Samples \cup {Silence}]
    BY <1>8, <1>10, <1>15
  <2>3. 1 \in 1..1
    OBVIOUS
  <2> QED BY <1>10, <2>1, <2>2, <2>3
<1>17. \A k \in 1..((current + 1) - 1) : next[k] = Whole[k]
  <2> SUFFICES ASSUME NEW k \in 1..((current + 1) - 1) PROVE next[k] = Whole[k]
    OBVIOUS
  <2>1. k = current \/ k \in 1..(current - 1)
    BY <1>7
  <2>2. k \in 1..Len(Whole) /\ k \in DOMAIN written
    BY <1>7, <1>10
  <2>3. CASE k = current
    BY <1>7, <1>15, <2>2, <2>3
  <2>4. CASE k # current
    <3>1. next[k] = written[k]
      BY <1>15, <2>2, <2>4
    <3> QED BY <1>10, <2>1, <2>4, <3>1
  <2> QED BY <2>3, <2>4
<1>18. Joining'
  <2>1. current' \in Nat \ {0}
    BY <1>1, <1>2
  <2>2. \A k \in 1..(current' - 1) : data'[1][k] = Whole[k]
    BY <1>1, <1>16, <1>17
  <2> QED BY <1>1, <1>2, <1>16, <2>1, <2>2, RequestStays DEF Joining
<1>19. Located'
  <2>1. sample' \in 1..(Len(first) + 1) /\ current' = Start(wave - 1) + sample'
    BY <1>1, <1>4, <1>6
  <2> QED BY <1>1, <1>2, <1>3, <1>5, <1>13, <2>1, RequestStays DEF Located
<1> QED BY <1>1, <1>2, <1>13, <1>18, <1>19, RequestStays

LEMMA NextChannelJoins ==
  ASSUME WaveInv, NextChannel, Mono
  PROVE  MonoOnly(request)' /\ Joining' /\ Located'
<1>1. /\ pc = "copy" /\ channel <= NumChannels(waves[wave]) /\ sample > NumSamples(waves[wave])
      /\ channel' = channel + 1 /\ pc' = pc /\ waves' = waves /\ data' = data
      /\ current' = current /\ wave' = wave /\ request' = request
  BY DEF NextChannel
<1>2. /\ request \in Requests /\ MonoOnly(request) /\ Joining /\ Located
      /\ wave <= Len(request) /\ channel \in {1, 2}
  BY <1>1, AtWave DEF Located
<1>3. PICK length : length = Len(Firsts(request)[wave])
  OBVIOUS
<1>4. /\ length \in Nat /\ Start(wave - 1) \in Nat /\ Start(wave) = Start(wave - 1) + length
      /\ NumChannels(waves[wave]) = 1 /\ NumSamples(waves[wave]) = length
  BY <1>1, <1>2, <1>3, AtWave
<1>5. channel = 1
  BY <1>1, <1>2, <1>4
<1>6. sample \in 1..(length + 1) /\ current = Start(wave - 1) + sample
  BY <1>1, <1>2, <1>3, <1>5 DEF Located
<1>7. current = Start(wave) + 1 /\ channel' = 2
  <2>1. sample = length + 1
    BY <1>1, <1>4, <1>6
  <2> QED BY <1>1, <1>4, <1>5, <1>6, <2>1
<1>8. Joining'
  BY <1>1, <1>2, RequestStays DEF Joining
<1>9. Located'
  BY <1>1, <1>2, <1>7, RequestStays DEF Located
<1> QED BY <1>1, <1>2, <1>8, <1>9, RequestStays

LEMMA NextWaveJoins ==
  ASSUME WaveInv, NextWave, Mono
  PROVE  MonoOnly(request)' /\ Joining' /\ Located'
<1>1. /\ pc = "copy" /\ channel > NumChannels(waves[wave]) /\ pc' = "convert"
      /\ wave' = wave + 1 /\ waves' = waves /\ data' = data
      /\ current' = current /\ request' = request
  BY DEF NextWave
<1>2. /\ request \in Requests /\ MonoOnly(request) /\ Joining /\ Located
      /\ wave <= Len(request) /\ channel \in {1, 2} /\ wave \in Nat \ {0} /\ Len(request) \in Nat
  BY <1>1, AtWave DEF Located
<1>3. NumChannels(waves[wave]) = 1
  BY <1>1, <1>2, AtWave
<1>4. channel = 2
  BY <1>1, <1>2, <1>3
<1>5. current = Start(wave) + 1
  BY <1>1, <1>2, <1>4 DEF Located
<1>6. wave' - 1 = wave /\ wave' <= Len(request) + 1 /\ wave' \in Nat \ {0}
  BY <1>1, <1>2
<1>7. Joining'
  BY <1>1, <1>2, <1>6, RequestStays DEF Joining
<1>8. Located'
  BY <1>1, <1>5, <1>6, RequestStays DEF Located
<1> QED BY <1>1, <1>2, <1>7, <1>8, RequestStays

LEMMA FinishJoins ==
  ASSUME WaveInv, Finish, Mono
  PROVE  MonoOnly(request)' /\ Joining' /\ Located'
<1>1. /\ pc = "convert" /\ wave > Len(waves) /\ pc' = "done"
      /\ waves' = waves /\ data' = data /\ current' = current /\ wave' = wave /\ request' = request
  BY DEF Finish
<1>2. /\ request \in Requests /\ MonoOnly(request) /\ Joining /\ Located
      /\ wave \in Nat \ {0} /\ Len(request) \in Nat
  BY <1>1, AtWave
<1>3. Len(waves) = Len(request) /\ wave <= Len(request) + 1 /\ current = Start(wave - 1) + 1
  BY <1>1, <1>2 DEF Joining, Located
<1>4. wave - 1 = Len(request)
  BY <1>1, <1>2, <1>3
<1>5. Joining'
  BY <1>1, <1>2, RequestStays DEF Joining
<1>6. Located'
  BY <1>1, <1>3, <1>4, RequestStays DEF Located
<1> QED BY <1>1, <1>2, <1>5, <1>6, RequestStays

LEMMA WaveStart == WaveInit => WaveInv
BY DEF WaveInit, WaveInv

LEMMA WaveStep == WaveInv /\ [WaveNext]_waveVars => WaveInv'
<1> SUFFICES ASSUME WaveInv, [WaveNext]_waveVars PROVE WaveInv'
  OBVIOUS
<1> DEFINE Good == MonoOnly(request)' /\ Joining' /\ Located'
           Goes == request' = request /\ pc' \in {"convert", "copy", "done", "overrun"}
<1>1. ASSUME Goes, Mono => Good /\ pc' # "overrun" PROVE WaveInv'
  <2>1. Mono' = Mono /\ request' \in Requests
    BY <1>1, RequestStays DEF WaveInv
  <2> QED BY <1>1, <2>1 DEF WaveInv
<1>2. CASE DecodeFails
  <2>1. request' \in Requests /\ pc' = "error"
    BY <1>2 DEF DecodeFails, WaveInv
  <2> QED BY <2>1 DEF WaveInv
<1>3. CASE DecodeWaves
  <2>1. Goes /\ pc' # "overrun"
    BY <1>3 DEF DecodeWaves
  <2> QED BY <1>1, <1>3, <2>1, DecodeJoins
<1>4. CASE Convert
  <2>1. Goes /\ pc' # "overrun"
    BY <1>4 DEF Convert
  <2> QED BY <1>1, <1>4, <2>1, ConvertJoins
<1>5. CASE Copy
  <2>1. Goes
    BY <1>5, Zenon DEF Copy
  <2>2. Mono => Good /\ pc' # "overrun"
    BY <1>5, CopyJoins
  <2> QED BY <1>1, <2>1, <2>2
<1>6. CASE NextChannel
  <2>1. Goes /\ pc' # "overrun"
    BY <1>6 DEF NextChannel
  <2> QED BY <1>1, <1>6, <2>1, NextChannelJoins
<1>7. CASE NextWave
  <2>1. Goes /\ pc' # "overrun"
    BY <1>7 DEF NextWave
  <2> QED BY <1>1, <1>7, <2>1, NextWaveJoins
<1>8. CASE Finish
  <2>1. Goes /\ pc' # "overrun"
    BY <1>8 DEF Finish
  <2> QED BY <1>1, <1>8, <2>1, FinishJoins
<1>9. CASE UNCHANGED waveVars
  <2>1. /\ request' = request /\ pc' = pc /\ wave' = wave /\ current' = current
        /\ waves' = waves /\ data' = data /\ channel' = channel /\ sample' = sample
    BY <1>9 DEF waveVars
  <2>2. Joining' = Joining /\ Located' = Located
    BY <2>1, RequestStays DEF Joining, Located
  <2> QED BY <2>1, <2>2, RequestStays DEF WaveInv
<1> QED BY <1>2, <1>3, <1>4, <1>5, <1>6, <1>7, <1>8, <1>9 DEF WaveNext

\* Waves of one channel are joined, whatever their lengths, rates and number:
\* each sample once, in the order of the waves, with nothing between them, and
\* no write behind the end of the result (connect_base64_waves, where one
\* write position serves all waves and all channels).
THEOREM MonoIsConnected == WaveSpec => []MonoConnected
<1>1. WaveSpec => []WaveInv
  BY WaveStart, WaveStep, PTL DEF WaveSpec
<1> QED BY <1>1, WaveInvEnough, PTL
====
