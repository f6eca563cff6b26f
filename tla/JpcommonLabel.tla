----------------------------- MODULE JpcommonLabel -----------------------------
(***************************************************************************)
(* JPCommonLabel: push_word takes one word of the text after the other and  *)
(* grows five linked lists at once, phonemes, moras, words, accent phrases  *)
(* and breath groups; every element knows the first and the last element    *)
(* below it (head, tail) and the one above it (up).  Lists are only ever    *)
(* extended at their end, so that they are sequences here, a pointer an     *)
(* index and NULL zero.  A pause is a phoneme with nothing above it.        *)
(***************************************************************************)
EXTENDS Integers, Sequences, SequencesExt

CONSTANTS
  Words,     \* the words a text may have, see WordType
  MaxWords,  \* bound: words and marks of a text
  MaxM,      \* MAX_M, 49: where counts of moras and phrases end
  MaxS       \* MAX_S, 19: where the count of breath groups ends

\* What pron is made of: a vowel, a consonant and a vowel, the mark of a long
\* vowel, the mark of an unvoiced one, and what is in no table.
Tokens == {"v", "cv", "long", "unvoice", "unknown"}
WordType == [pron : Seq(Tokens), accent : Nat, chain : {0, 1}]

ASSUME LabelAssumption ==
  /\ Words \subseteq WordType
  /\ MaxWords \in Nat /\ MaxM \in Nat \ {0} /\ MaxS \in Nat \ {0}

VARIABLES
  phonemes, moras, words, accents, breaths,  \* the five lists
  shortPause,  \* short_pause_flag
  status,      \* "idle", inside "word", or "made"
  word,        \* the word being pushed, pron being what is left of it
  first,       \* is_first_word
  pushed       \* words and marks so far

lists == <<phonemes, moras, words, accents, breaths>>
vars == <<lists, shortPause, status, word, first, pushed>>

PhonemeType == [sound : {"a", "k", "A", "pau"}, up : Nat]
MoraType == [head : Nat, tail : Nat, up : Nat]
WordNode == [head : Nat, tail : Nat, up : Nat]
AccentNode == [head : Nat, tail : Nat, up : Nat, accent : Nat, question : BOOLEAN]
BreathNode == [head : Nat, tail : Nat]

TypeOK ==
  /\ phonemes \in Seq(PhonemeType) /\ moras \in Seq(MoraType)
  /\ words \in Seq(WordNode) /\ accents \in Seq(AccentNode)
  /\ breaths \in Seq(BreathNode)
  /\ shortPause \in BOOLEAN /\ first \in BOOLEAN
  /\ status \in {"idle", "word", "made"}
  /\ word \in WordType /\ pushed \in Nat

no_word == [pron |-> <<>>, accent |-> 0, chain |-> 0]

Init ==
  /\ phonemes = <<>> /\ moras = <<>> /\ words = <<>>
  /\ accents = <<>> /\ breaths = <<>>
  /\ shortPause = FALSE /\ status = "idle"
  /\ word = no_word /\ first = TRUE /\ pushed = 0

pau == [sound |-> "pau", up |-> 0]

EndsWithPause == phonemes # <<>> /\ phonemes[Len(phonemes)] = pau

-----------------------------------------------------------------------------
(* JPCommonLabel_push_word, by what it is called with.                     *)

Push == status = "idle" /\ pushed < MaxWords /\ pushed' = pushed + 1

PushPause ==
  /\ Push
  /\ shortPause' = TRUE
  /\ UNCHANGED <<lists, status, word, first>>

\* The accent phrase above the last phoneme that is none of a pause.
Asked ==
  LET last == IF EndsWithPause THEN Len(phonemes) - 1 ELSE Len(phonemes)
  IN words[moras[phonemes[last].up].up].up

PushQuestion ==
  /\ Push
  /\ accents' = IF phonemes = <<>> THEN accents
                ELSE [accents EXCEPT ![Asked].question = TRUE]
  /\ shortPause' = TRUE
  /\ UNCHANGED <<phonemes, moras, words, breaths, status, word, first>>

PushWord ==
  /\ Push
  /\ word' \in Words
  /\ status' = "word" /\ first' = TRUE
  /\ UNCHANGED <<lists, shortPause>>

\* The loop over pron.
Take(token) ==
  /\ status = "word" /\ word.pron # <<>> /\ Head(word.pron) = token
  /\ word' = [word EXCEPT !.pron = Tail(@)]
  /\ UNCHANGED <<accents, breaths, status, pushed>>

PauseAnyway == IF shortPause THEN <<pau>> ELSE <<>>

\* JPCommonLabel_insert_pause: at the very beginning a pause is only
\* forgotten, and two pauses would not be chained.
PauseDue ==
  IF shortPause /\ phonemes # <<>> /\ ~EndsWithPause THEN <<pau>> ELSE <<>>

SoundsOf(token) == IF token = "v" THEN <<"a">> ELSE <<"k", "a">>

TakeMoraHeadBack(token) ==
  LET m == Len(moras) + 1
      w == IF first THEN Len(words) + 1 ELSE Len(words)
      p == Len(phonemes) + Len(PauseDue) + 1
      sounds == SoundsOf(token)
  IN /\ Take(token)
     /\ phonemes' = phonemes \o PauseDue
                      \o [k \in DOMAIN sounds |-> [sound |-> sounds[k], up |-> m]]
     /\ moras' = Append(moras, [head |-> p - Len(sounds), tail |-> p, up |-> w])
     /\ words' = IF first THEN Append(words, [head |-> m, tail |-> m, up |-> 0])
                 ELSE [words EXCEPT ![w].tail = m]
     /\ shortPause' = (shortPause /\ EndsWithPause)
     /\ first' = FALSE

\* A mora goes to the word being pushed, or opens it.
TakeMora(token) ==
  LET m == Len(moras) + 1
      w == IF first THEN Len(words) + 1 ELSE Len(words)
      p == Len(phonemes) + Len(PauseDue) + 1
      sounds == SoundsOf(token)
  IN /\ Take(token)
     /\ phonemes' = phonemes \o PauseDue
                      \o [k \in DOMAIN sounds |-> [sound |-> sounds[k], up |-> m]]
     /\ moras' = Append(moras, [head |-> p, tail |-> p + Len(sounds) - 1, up |-> w])
     /\ words' = IF first THEN Append(words, [head |-> m, tail |-> m, up |-> 0])
                 ELSE [words EXCEPT ![w].tail = m]
     /\ shortPause' = (shortPause /\ EndsWithPause)
     /\ first' = FALSE

\* A long vowel repeats the last phoneme, in the last word, even when the
\* word being pushed has nothing of its own yet.
CanProlong == phonemes # <<>> /\ ~shortPause

TakeLong ==
  LET m == Len(moras) + 1
      p == Len(phonemes) + 1
  IN /\ Take("long") /\ CanProlong
     /\ phonemes' = Append(phonemes, [sound |-> phonemes[p - 1].sound, up |-> m])
     /\ moras' = Append(moras, [head |-> p, tail |-> p, up |-> moras[m - 1].up])
     /\ words' = [words EXCEPT ![Len(words)].tail = m]
     /\ UNCHANGED <<shortPause, first>>

SkipLong ==
  /\ Take("long") /\ ~CanProlong
  /\ UNCHANGED <<phonemes, moras, words, shortPause, first>>

\* JPCommonLabelPhoneme_convert_unvoice: only a vowel has an unvoiced form.
TakeUnvoice ==
  /\ Take("unvoice")
  /\ phonemes' = IF phonemes # <<>> /\ ~first /\ Last(phonemes).sound = "a"
                 THEN [phonemes EXCEPT ![Len(phonemes)].sound = "A"]
                 ELSE phonemes
  /\ UNCHANGED <<moras, words, shortPause, first>>

\* What is in no table ends the word.
TakeUnknown ==
  /\ status = "word" /\ word.pron # <<>> /\ Head(word.pron) = "unknown"
  /\ word' = [word EXCEPT !.pron = <<>>]
  /\ UNCHANGED <<lists, shortPause, status, first, pushed>>

Finish == status = "word" /\ word.pron = <<>> /\ status' = "idle"

Attached == UNCHANGED <<phonemes, moras, shortPause, word, first, pushed>>

NothingPushed == first \/ EndsWithPause

\* A word without any mora leaves no trace.
DropWord ==
  /\ Finish /\ NothingPushed
  /\ UNCHANGED <<words, accents, breaths>> /\ Attached

Newest == Len(words)

PauseBeforeLast == Len(phonemes) > 1 /\ phonemes[Len(phonemes) - 1] = pau

\* The phoneme after the last one of the word before.
PauseBetween == phonemes[moras[words[Newest - 1].tail].tail + 1] = pau

NewAccent(breath) ==
  Append(accents, [head |-> Newest, tail |-> Newest, up |-> breath,
                   accent |-> word.accent, question |-> FALSE])

Under(accent) == words' = [words EXCEPT ![Newest].up = accent]

FirstWord ==
  /\ Finish /\ ~NothingPushed /\ Newest = 1
  /\ Under(1)
  /\ accents' = NewAccent(1)
  /\ breaths' = << [head |-> 1, tail |-> 1] >>
  /\ Attached

ChainWordNoTail ==
  /\ Finish /\ ~NothingPushed /\ Newest # 1 /\ word.chain = 1
  /\ Under(Len(accents))
  /\ UNCHANGED <<accents, breaths>> /\ Attached

ChainWord ==
  /\ Finish /\ ~NothingPushed /\ Newest # 1 /\ word.chain = 1
  /\ Under(Len(accents))
  /\ accents' = [accents EXCEPT ![Len(accents)].tail = Newest]
  /\ UNCHANGED breaths /\ Attached

NewPhrase ==
  /\ Finish /\ ~NothingPushed /\ Newest # 1 /\ word.chain # 1 /\ ~PauseBetween
  /\ Under(Len(accents) + 1)
  /\ accents' = NewAccent(Len(breaths))
  /\ breaths' = [breaths EXCEPT ![Len(breaths)].tail = Len(accents) + 1]
  /\ Attached

NewGroup ==
  /\ Finish /\ ~NothingPushed /\ Newest # 1 /\ word.chain # 1 /\ PauseBetween
  /\ Under(Len(accents) + 1)
  /\ accents' = NewAccent(Len(breaths) + 1)
  /\ breaths' = Append(breaths, [head |-> Len(accents) + 1, tail |-> Len(accents) + 1])
  /\ Attached

\* JPCommonLabel_make reads the lists only; see Labels below.
Make ==
  /\ status = "idle"
  /\ status' = "made"
  /\ UNCHANGED <<lists, shortPause, word, first, pushed>>

Next ==
  \/ PushPause \/ PushQuestion \/ PushWord
  \/ \E token \in {"v", "cv"} : TakeMora(token)
  \/ TakeLong \/ SkipLong \/ TakeUnvoice \/ TakeUnknown
  \/ DropWord \/ FirstWord \/ ChainWord \/ NewPhrase \/ NewGroup
  \/ Make

Spec == Init /\ [][Next]_vars

-----------------------------------------------------------------------------
(* What JPCommonLabel_make tells of a phoneme, as far as the text analyzer  *)
(* reads it: a2, f2, f3, f5 and i3, and "xx" for them all beside a phrase.  *)

Limit(n, lo, hi) == IF n <= lo THEN lo ELSE IF n >= hi THEN hi ELSE n

AccentOf(p) == words[moras[phonemes[p].up].up].up
FirstMora(a) == words[accents[a].head].head
LastMora(a) == words[accents[a].tail].tail
MoraCount(a) == LastMora(a) - FirstMora(a) + 1

silence ==
  [pause |-> TRUE, sound |-> "pau", moraIndex |-> 0, accent |-> 0,
   question |-> FALSE, phraseIndex |-> 0, groupIndex |-> 0]

LabelOf(p) ==
  LET a == AccentOf(p)
      b == accents[a].up
      accent == IF accents[a].accent = 0 THEN MoraCount(a) ELSE accents[a].accent
  IN IF phonemes[p] = pau THEN silence
     ELSE [pause |-> FALSE, sound |-> phonemes[p].sound,
           moraIndex |-> Limit(phonemes[p].up - FirstMora(a) + 1, 1, MaxM),
           accent |-> Limit(accent, 1, MaxM),
           question |-> accents[a].question,
           phraseIndex |-> Limit(a - breaths[b].head + 1, 1, MaxM),
           groupIndex |-> Limit(b, 1, MaxS)]

Labels ==
  IF phonemes = <<>> THEN <<>>
  ELSE <<silence>> \o [p \in DOMAIN phonemes |-> LabelOf(p)] \o <<silence>>

-----------------------------------------------------------------------------
(* Properties.                                                             *)

\* JPCommonLabel_make follows p->prev->up->up->up->up and p->next->up->...
\* of a pause and p->up->up->up->up of anything else without looking: a pause
\* that is first, last or next to another one, or a word without an accent
\* phrase, would be a walk through a null pointer.
WalksSafe ==
  status \in {"idle", "made"} =>
    \A p \in DOMAIN phonemes :
      IF phonemes[p] = pau
      THEN /\ p - 1 \in DOMAIN phonemes /\ phonemes[p - 1].up # 0
           /\ p + 1 \in DOMAIN phonemes /\ phonemes[p + 1].up # 0
      ELSE /\ phonemes[p].up \in DOMAIN moras
           /\ moras[phonemes[p].up].up \in DOMAIN words
           /\ AccentOf(p) \in DOMAIN accents
           /\ accents[AccentOf(p)].up \in DOMAIN breaths

\* The elements of one list lie side by side under the list above it.
Tiles(upper, n) ==
  IF upper = <<>> THEN n = 0
  ELSE /\ upper[1].head = 1 /\ upper[Len(upper)].tail = n
       /\ \A k \in DOMAIN upper : upper[k].head <= upper[k].tail
       /\ \A k \in 1..(Len(upper) - 1) : upper[k + 1].head = upper[k].tail + 1

Parents(upper, lower) ==
  \A k \in DOMAIN upper : \A x \in upper[k].head..upper[k].tail : lower[x].up = k

\* Between two calls of push_word head, tail and up of every level agree, so
\* that the counts of the labels (moras of a phrase, phrases of a group) are
\* counts of what is really below.
Nested ==
  status \in {"idle", "made"} =>
    /\ Tiles(words, Len(moras)) /\ Parents(words, moras)
    /\ Tiles(accents, Len(words)) /\ Parents(accents, words)
    /\ Tiles(breaths, Len(accents)) /\ Parents(breaths, accents)
    /\ Parents(moras, phonemes)

\* The nested sequences the lists stand for.
MoraSounds(m) == [k \in 1..(moras[m].tail - moras[m].head + 1) |->
                    phonemes[moras[m].head + k - 1].sound]

PauseBefore(m) == moras[m].head > 1 /\ phonemes[moras[m].head - 1] = pau

PhraseMoras(a) ==
  LET n == FirstMora(a)
      Item(m) == (IF m > n /\ PauseBefore(m) THEN << <<"pau">> >> ELSE <<>>)
                   \o <<MoraSounds(m)>>
  IN FlattenSeq([k \in 1..MoraCount(a) |-> Item(n + k - 1)])

PhraseOf(a) == [moras |-> PhraseMoras(a), accent |-> accents[a].accent,
                question |-> accents[a].question]

GroupsNow ==
  [b \in DOMAIN breaths |->
    [k \in 1..(breaths[b].tail - breaths[b].head + 1) |->
       PhraseOf(breaths[b].head + k - 1)]]

\* A pause counts as due until the word after it has joined a phrase.
PendingNow ==
  \/ shortPause /\ breaths # <<>>
  \/ words # <<>> /\ Last(words).up = 0 /\ PauseBefore(Last(words).head)

\* A word is pushed up to its first unknown character.
UpToUnknown(pron) ==
  LET end == SelectInSeq(pron, LAMBDA token : token = "unknown")
  IN IF end = 0 THEN pron ELSE SubSeq(pron, 1, end - 1)

\* A mark repeats or changes the mora before it.
Hear(said, token) ==
  LET Unvoiced(mora) == IF Last(mora) = "a" THEN Append(Front(mora), "A") ELSE mora
  IN CASE token \in {"v", "cv"} -> Append(said, SoundsOf(token))
       [] token = "long" /\ said # <<>> -> Append(said, <<Last(Last(said))>>)
       [] token = "unvoice" /\ said # <<>> -> Append(Front(said), Unvoiced(Last(said)))
       [] OTHER -> said

\* What was heard after each of the tokens, and what a word says.
HeardBy(tokens) ==
  LET heard[n \in 0..Len(tokens)] ==
        IF n = 0 THEN <<>> ELSE Hear(heard[n - 1], tokens[n])
  IN heard
Heard(pron) == HeardBy(UpToUnknown(pron))[Len(UpToUnknown(pron))]

U == INSTANCE Utterance WITH
       Sayings <- {[moras |-> Heard(w.pron), accent |-> w.accent, chain |-> w.chain]
                     : w \in {v \in Words : Heard(v.pron) # <<>>}},
       groups <- GroupsNow, pending <- PendingNow

\* push_word implements Utterance: whatever words, marks and unknown
\* characters come in whatever order, every call changes nothing, lengthens
\* the last phrase, joins it, or opens a phrase or a group, as chain_flag and
\* the pause before it ask for.
ImplementsUtterance == U!Spec

\* The five lists stay nested, whatever is pushed, and the walks over them find
\* what they follow.
LabelsSound == TypeOK /\ WalksSafe /\ Nested
================================================================================
