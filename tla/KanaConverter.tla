----------------------------- MODULE KanaConverter -----------------------------
(***************************************************************************)
(* kana_converter.cc: accent phrases are written as kana with marks         *)
(* (create_kana), text is taken apart into characters byte by byte          *)
(* (split_string_kana) and the characters of one phrase are read as moras   *)
(* (text_to_accent_phrase).  One behaviour is one call of one of the three. *)
(*                                                                         *)
(* A mora is written with one or more kana; a kana is a model value and     *)
(* KanaBytes bytes long, a mark is one byte long.                           *)
(***************************************************************************)
EXTENDS Integers, Sequences, SequencesExt, FiniteSets

CONSTANTS
  Kana,         \* the katakana
  Texts,        \* how the moras are written: the texts of mora_mapping.cc
  Voiceable,    \* those of Texts whose vowel may be unvoiced
  PhraseLists,  \* the accent phrases create_kana is called with
  Inputs,       \* the characters text_to_accent_phrase is called with
  MaxBytes,     \* bound: bytes of a text to be taken apart
  LoopLimit     \* 300


Accent == "'"
Unvoice == "_"
Nopause == "/"
Pause == "pause"     \* the ideographic comma, three bytes
Ask == "ask"         \* the wide question mark
Marks == {Accent, Unvoice}
KanaBytes == 3

Mora == [text : Texts, silent : BOOLEAN]
Phrase == [moras : Seq(Mora), accent : Nat, ask : BOOLEAN, pause : BOOLEAN]

\* An accent is on one of the moras: what text_to_accent_phrases makes, and
\* what is read here.
ASSUME KanaAssumption ==
  /\ Texts \subseteq Seq(Kana) \ {<<>>} /\ Voiceable \subseteq Texts
  /\ {Accent, Unvoice, Nopause, Pause, Ask} \cap Kana = {}
  /\ \A list \in PhraseLists :
       /\ list \in Seq(Phrase)
       /\ \A k \in DOMAIN list : list[k].accent \in 1..Len(list[k].moras)
  /\ Inputs \subseteq Seq(Kana \cup Marks)
  /\ LoopLimit \in Nat /\ MaxBytes \in Nat

(***************************************************************************)
(* create_kana                                                              *)
(***************************************************************************)
MoraNotation(mora) == (IF mora.silent THEN <<Unvoice>> ELSE <<>>) \o mora.text

PhraseNotation(phrase) ==
  FlattenSeq([j \in DOMAIN phrase.moras |->
     MoraNotation(phrase.moras[j]) \o (IF phrase.accent = j THEN <<Accent>> ELSE <<>>)])
    \o (IF phrase.ask THEN <<Ask>> ELSE <<>>)

\* Mutant: the question mark is put behind the delimiter.
NotationAskLate(list) ==
  FlattenSeq([i \in DOMAIN list |->
     PhraseNotation([list[i] EXCEPT !.ask = FALSE])
       \o (IF i = Len(list) THEN <<>>
           ELSE IF list[i].pause THEN <<Pause>> ELSE <<Nopause>>)
       \o (IF list[i].ask THEN <<Ask>> ELSE <<>>)])

\* A delimiter follows every phrase but the last.
Notation(list) ==
  FlattenSeq([i \in DOMAIN list |->
     PhraseNotation(list[i])
       \o (IF i = Len(list) THEN <<>>
           ELSE IF list[i].pause THEN <<Pause>> ELSE <<Nopause>>)])

VARIABLES
  pc,       \* "idle", "split", "read", "returned", "thrown" or "overrun"
  phrases,  \* what create_kana was called with
  text,     \* the bytes parse_kana was called with
  input,    \* the characters text_to_accent_phrase was called with
  data,     \* the characters written, or taken apart so far
  at,       \* i of split_string_kana, base_index of text_to_accent_phrase
  state,    \* CharState of split_string_kana
  kanaMoras, \* of text_to_accent_phrase: <<first character, its text>> of each
  accent,   \* accent_index, -1 if there is none yet
  loops,    \* outer_loop
  what      \* the exception thrown

kanaVars == <<pc, phrases, text, input, data, at, state, kanaMoras, accent, loops, what>>

KanaInit ==
  /\ pc = "idle" /\ phrases = <<>> /\ text = <<>> /\ input = <<>> /\ data = <<>> /\ at = 0 /\ state = "None"
  /\ kanaMoras = <<>> /\ accent = -1 /\ loops = 0 /\ what = "none"

Write ==
  /\ pc = "idle"
  /\ phrases' \in PhraseLists
  /\ data' = Notation(phrases')
  /\ pc' = "returned"
  /\ UNCHANGED <<text, input, at, state, kanaMoras, accent, loops, what>>

Throw(exception) ==
  /\ pc' = "thrown" /\ what' = exception
  /\ UNCHANGED <<phrases, text, input, data, at, state, kanaMoras, accent, loops>>

(***************************************************************************)
(* parse_kana and split_string_kana.  The cases of its switch have no break, so a byte     *)
(* that one case takes is looked at by every case below it, and each of     *)
(* those throws at a byte of another kind.                                  *)
(***************************************************************************)
Bytes == {32, 39, 47, 95, 227, 128, 129, 130, 131, 161, 191}

States == <<"None", "Second", "Is0x80", "Is0x82", "Is0x83">>

\* What one case does with a byte: the next state and the character added,
\* or failure.
Case(case, byte) ==
  CASE case = "None" /\ byte = 39 -> <<"None", <<Accent>>>>
    [] case = "None" /\ byte = 47 -> <<"None", <<Nopause>>>>
    [] case = "None" /\ byte = 95 -> <<"None", <<Unvoice>>>>
    [] case = "None" /\ byte = 227 -> <<"Second", <<>>>>
    [] case = "Second" /\ byte = 128 -> <<"Is0x80", <<>>>>
    [] case = "Second" /\ byte = 130 -> <<"Is0x82", <<>>>>
    [] case = "Second" /\ byte = 131 -> <<"Is0x83", <<>>>>
    [] case = "Is0x80" /\ byte \in {129, 130} -> <<"None", <<byte>>>>
    [] case = "Is0x82" /\ byte \in 161..191 -> <<"None", <<byte>>>>
    [] case = "Is0x83" /\ byte \in 128..186 -> <<"None", <<byte>>>>
    [] OTHER -> <<"fails", <<>>>>

\* The cases that see a byte in a state: its own and all below.
CasesFrom(s) == SubSeq(States, CHOOSE k \in DOMAIN States : States[k] = s, Len(States))

Parse ==
  /\ pc = "idle"
  /\ \E n \in 0..MaxBytes : text' \in [1..n -> Bytes]
  /\ pc' = "split"
  /\ UNCHANGED <<phrases, input, data, at, state, kanaMoras, accent, loops, what>>

SkipBlank ==
  /\ pc = "split" /\ at < Len(text)
  /\ state = "None" /\ text[at + 1] \in {0, 32}
  /\ at' = at + 1
  /\ UNCHANGED <<pc, phrases, text, input, data, state, kanaMoras, accent, loops, what>>

SplitByte ==
  /\ pc = "split" /\ at < Len(text)
  /\ ~(state = "None" /\ text[at + 1] \in {0, 32})
  /\ LET results == [k \in DOMAIN CasesFrom(state) |->
                       Case(CasesFrom(state)[k], text[at + 1])]
     IN IF \E k \in DOMAIN results : results[k][1] = "fails" THEN Throw("ParseError")
        ELSE /\ at' = at + 1 /\ state' = Last(results)[1]
             /\ data' = data \o FlattenSeq([k \in DOMAIN results |-> results[k][2]])
             /\ UNCHANGED <<pc, phrases, text, input, kanaMoras, accent, loops, what>>

\* No byte but a blank gets here.  parse_kana then looks at one character for
\* each byte of the text: of an empty text it reads an empty phrase, of blanks
\* it reads characters that are not there.
SplitDone ==
  /\ pc = "split" /\ at = Len(text)
  /\ IF text = <<>> THEN Throw("no accent")
     ELSE /\ pc' = "overrun"
          /\ UNCHANGED <<phrases, text, input, data, at, state, kanaMoras, accent, loops, what>>

(***************************************************************************)
(* text_to_accent_phrase                                                    *)
(***************************************************************************)
Read ==
  /\ pc = "idle"
  /\ input' \in Inputs
  /\ pc' = "read"
  /\ UNCHANGED <<phrases, text, data, at, state, kanaMoras, accent, loops, what>>

\* kana2mora.
Keys == Texts \cup {<<Unvoice>> \o key : key \in Voiceable}

\* The characters from base_index to the next accent mark.
Ahead ==
  LET marks == {i \in at + 1..Len(input) : input[i] = Accent}
      end == IF marks = {} THEN Len(input)
             ELSE (CHOOSE i \in marks : \A j \in marks : i <= j) - 1
  IN SubSeq(input, at + 1, end)

\* The longest beginning of them that is a mora; none if no beginning is.
Matches == {n \in 1..Len(Ahead) : SubSeq(Ahead, 1, n) \in Keys}

\* Mutant: all characters up to the mark are taken for the mora.
MatchedTextStack == Ahead

MatchedText == SubSeq(Ahead, 1, CHOOSE n \in Matches : \A k \in Matches : k <= n)

\* matched_text.size() counts bytes.
Size(key) ==
  LET marks == IF Head(key) = Unvoice THEN 1 ELSE 0
  IN marks + KanaBytes * (Len(key) - marks)

Reading == pc = "read" /\ at < Len(input)

\* Mutant: an accent may stand first.
TakeAccentAnywhere ==
  /\ Reading /\ input[at + 1] = Accent
  /\ IF accent # -1 THEN Throw("two accents")
     ELSE /\ accent' = Len(kanaMoras) /\ at' = at + 1 /\ loops' = loops + 1
          /\ UNCHANGED <<pc, phrases, text, input, data, state, kanaMoras, what>>

TakeAccent ==
  /\ Reading /\ input[at + 1] = Accent
  /\ IF kanaMoras = <<>> THEN Throw("accent first")
     ELSE IF accent # -1 THEN Throw("two accents")
     ELSE /\ accent' = Len(kanaMoras) /\ at' = at + 1 /\ loops' = loops + 1
          /\ UNCHANGED <<pc, phrases, text, input, data, state, kanaMoras, what>>

\* Mutant: base_index stays where it is.
ReadMoraInPlace ==
  /\ Reading /\ input[at + 1] # Accent
  /\ IF Matches = {} THEN Throw("unknown kana")
     ELSE IF loops + 1 > LoopLimit THEN Throw("endless loop")
     ELSE /\ kanaMoras' = Append(kanaMoras, <<at + 1, MatchedText>>)
          /\ loops' = loops + 1
          /\ UNCHANGED <<pc, phrases, text, input, data, at, state, accent, what>>

\* Mutant: base_index is moved on once more, as behind an accent.
ReadMoraTooFar ==
  /\ Reading /\ input[at + 1] # Accent
  /\ IF Matches = {} THEN Throw("unknown kana")
     ELSE IF loops + 1 > LoopLimit THEN Throw("endless loop")
     ELSE /\ kanaMoras' = Append(kanaMoras, <<at + 1, MatchedText>>)
          /\ at' = at + Size(MatchedText) + 1
          /\ loops' = loops + 1
          /\ UNCHANGED <<pc, phrases, text, input, data, state, accent, what>>

\* base_index counts characters and moves on by the bytes of the mora.
ReadMora ==
  /\ Reading /\ input[at + 1] # Accent
  /\ IF Matches = {} THEN Throw("unknown kana")
     ELSE IF loops + 1 > LoopLimit THEN Throw("endless loop")
     ELSE /\ kanaMoras' = Append(kanaMoras, <<at + 1, MatchedText>>)
          /\ at' = at + Size(MatchedText)
          /\ loops' = loops + 1
          /\ UNCHANGED <<pc, phrases, text, input, data, state, accent, what>>

\* Mutant: the loop ends where base_index is the size exactly.
ReadDoneExact ==
  /\ pc = "read" /\ at = Len(input)
  /\ IF accent = -1 THEN Throw("no accent")
     ELSE /\ pc' = "returned"
          /\ UNCHANGED <<phrases, text, input, data, at, state, kanaMoras, accent, loops, what>>

ReadDone ==
  /\ pc = "read" /\ at >= Len(input)
  /\ IF accent = -1 THEN Throw("no accent")
     ELSE /\ pc' = "returned"
          /\ UNCHANGED <<phrases, text, input, data, at, state, kanaMoras, accent, loops, what>>

KanaNext ==
  \/ Write
  \/ Parse \/ SkipBlank \/ SplitByte \/ SplitDone
  \/ Read \/ TakeAccent \/ ReadMora \/ ReadDone

KanaSpec == KanaInit /\ [][KanaNext]_kanaVars /\ WF_kanaVars(KanaNext)

-----------------------------------------------------------------------------
KanaTypeOK ==
  /\ pc \in {"idle", "split", "read", "returned", "thrown", "overrun"}
  /\ at \in Nat /\ loops \in 0..LoopLimit + 1 /\ accent \in Nat \cup {-1}
  /\ state \in Range(States)
  /\ \A k \in DOMAIN kanaMoras : kanaMoras[k][1] \in 1..Len(input) /\ kanaMoras[k][2] \in Keys

\* Where the phrases of a notation end.
Ends(tokens) ==
  {i \in 1..Len(tokens) : i = Len(tokens) \/ tokens[i] \in {Pause, Nopause}}

\* The characters between two ends.
Part(tokens, ends, k) == SubSeq(tokens, IF k = 1 THEN 1 ELSE ends[k - 1] + 1, ends[k])

\* The characters of moras a to b, and of a phrase: the accent mark divides.
MoraText(phrase, a, b) ==
  FlattenSeq([j \in 1..(b - a + 1) |-> MoraNotation(phrase.moras[a + j - 1])])
PhraseText(phrase) ==
  MoraText(phrase, 1, phrase.accent) \o <<Accent>>
    \o MoraText(phrase, phrase.accent + 1, Len(phrase.moras))

\* The notation is unambiguous: cut at its delimiters it has one part for each
\* phrase, which asks and pauses as the phrase does and in which exactly one
\* mark stands, behind the characters of the accented moras, with nothing but
\* signs behind them.  (create_kana; the last phrase has no delimiter, so its
\* pause is not written.  parse_kana does not read it back: see ReadForwards.)
NotationReadable ==
  phrases # <<>> =>
    \E ends \in [1..Len(phrases) -> Ends(data)] :
      /\ {ends[k] : k \in DOMAIN ends} = Ends(data)
      /\ \A k \in 2..Len(phrases) : ends[k - 1] < ends[k]
      /\ \A k \in 1..Len(phrases) :
           LET part == Part(data, ends, k)
               body == PhraseText(phrases[k])
           IN /\ phrases[k].ask <=> \E i \in DOMAIN part : part[i] = Ask
              /\ k < Len(phrases) => (phrases[k].pause <=> Last(part) = Pause)
              /\ Len(body) <= Len(part) /\ SubSeq(part, 1, Len(body)) = body
              /\ \A i \in (Len(body) + 1)..Len(part) : part[i] \in {Pause, Nopause, Ask}

\* A phrase that is returned has its accent on one of its moras.
\* (text_to_accent_phrase: update_pitch looks for the accented mora by it.)
AccentOnMora ==
  pc = "returned" /\ input # <<>> => accent \in 1..Len(kanaMoras)

\* The characters passed over with a mora: two for each of its kana.
Lost(key) == Size(key) - Len(key)

\* Reading goes forwards in step with the characters, but for those it loses.  A
\* mora is the characters where it begins; behind it as many are passed over as
\* its bytes are more than its characters, whatever they are; then follows the
\* accent if it is the accented one, then the next mora.  So a mark right behind
\* its mora, where create_kana puts it, is never seen: no phrase is returned
\* without characters lost before its mark.  (base_index of text_to_accent_phrase
\* counts characters and is moved by matched_text.size().)
ReadForwards ==
  \A k \in 1..Len(kanaMoras) :
    LET first == kanaMoras[k][1]
        key == kanaMoras[k][2]
        behind == first + Len(key) + Lost(key)
    IN /\ SubSeq(input, first, first + Len(key) - 1) = key
       /\ accent = k => input[behind] = Accent
       /\ k < Len(kanaMoras) =>
            kanaMoras[k + 1][1] = IF accent = k THEN behind + 1 ELSE behind

\* The guard against endless loops only ever stops a phrase that has more
\* characters than the limit: no phrase really loops.  (LoopLimit.)
NoFalseAlarm == what = "endless loop" => Len(input) > LoopLimit

\* Every call ends.
CallEnds == pc \in {"split", "read"} ~> pc \in {"returned", "thrown", "overrun"}

\* The comment above split_string_kana lists 0x27, 0x2f, 0x5f and the kana as
\* the characters that may be used; a text of one such character is accepted.
ListedCharacters ==
  pc = "thrown" /\ what = "ParseError" =>
    text \notin {<<39>>, <<47>>, <<95>>, <<227, 130, 161>>, <<227, 131, 161>>}

\* Kana are written without ambiguity.  They are read forwards, with exactly the
\* losses of ReadForwards, an accent on a mora and no false alarm of the limit.
KanaSound ==
  KanaTypeOK /\ NotationReadable /\ AccentOnMora /\ ReadForwards /\ NoFalseAlarm
================================================================================
