------------------------------ MODULE MCNjdRules ------------------------------
(***************************************************************************)
(* Small instances of the list NJD and of three rules that walk over it.    *)
(* A behaviour is one of the list, or of one rule, on a text from below;    *)
(* the other rules are done with an empty text.                             *)
(***************************************************************************)
EXTENDS NjdList, NjdDigits, NjdAccent, NjdVowels

NothingToRead ==
  /\ digitWords = <<>> /\ digitPc = "done" /\ digitNode = 1
  /\ s = 0 /\ e = 0 /\ last = 0 /\ digitIndex = 0 /\ place = 0 /\ have = 0
  /\ digitText = <<>> /\ how = "none" /\ number = <<>> /\ read = <<>>
NothingToAccent ==
  accentWords = <<>> /\ accentPc = "done" /\ accentNode = 1 /\ top = 0 /\ moras = 0
NothingToVoice ==
  /\ vowelWords = <<>> /\ vowelNode = 1 /\ index = 1 /\ buff = {} /\ vowelPc = "done"
  /\ window = <<Nothing(0), Nothing(0), Nothing(0)>> /\ text = <<>>

RulesInit ==
  /\ ListInit
  /\ \/ DigitsInit /\ NothingToAccent /\ NothingToVoice
     \/ NothingToRead /\ AccentInit /\ NothingToVoice
     \/ NothingToRead /\ NothingToAccent /\ VowelsInit
     \/ NothingToRead /\ NothingToAccent /\ NothingToVoice

ListAlone == digitText = <<>> /\ accentWords = <<>> /\ text = <<>>

RulesNext ==
  \/ ListAlone /\ ListNext /\ UNCHANGED <<digitVars, accentVars, vowelVars>>
  \/ DigitsNext /\ UNCHANGED <<listVars, accentVars, vowelVars>>
  \/ AccentNext /\ UNCHANGED <<listVars, digitVars, vowelVars>>
  \/ VowelsNext /\ UNCHANGED <<listVars, digitVars, accentVars>>

RulesSpec ==
  RulesInit /\ [][RulesNext]_<<listVars, digitVars, accentVars, vowelVars>>
    /\ WF_digitVars(DigitsNext)

-----------------------------------------------------------------------------
(* Numbers: every text of up to four words, numbers of up to nine digits,   *)
(* grouped ones, and decimals between other words.                          *)
D(k) == W("digit", k)
AnyWord == {D(0), D(1), D(3)}
             \cup {W(k, 0) : k \in {"comma", "period", "counter", "numero", "close"}}
OtherWord == {W(k, 0) : k \in {"stop", "prefix", "hyphen", "open", "plain"}}

ShortTexts == UNION {[1..n -> AnyWord] : n \in 1..4}
                \cup {<<a>> \o t \o <<b>> : a \in OtherWord, b \in OtherWord, t \in [1..2 -> {D(0), D(2)}]}
LongNumbers == UNION {{<<d>> \o t : d \in {D(1), D(2)}, t \in [1..n -> {D(0), D(1), D(4)}]} : n \in {3, 5}}
                 \cup {<<D(2)>> \o t : t \in [1..8 -> {D(0), D(1)}]}
Triples == [1..3 -> {D(0), D(1), D(5)}]
Commas3 == {<<d, W("comma", 0)>> \o t \o rest : d \in {D(1), D(7)}, t \in Triples,
             rest \in {<<>>, <<W("period", 0), D(3), D(2)>>, <<W("comma", 0), D(2), D(0)>>,
                        <<W("period", 0), D(3), W("comma", 0), D(0), D(2), D(0)>>}}
Points == {<<d, W("period", 0)>> \o t \o <<x>> : d \in {D(0), D(3)}, t \in [1..2 -> {D(1), D(4)}],
            x \in {W(k, 0) : k \in {"period", "stop", "counter", "close", "comma"}}}
SomeDigitTexts == ShortTexts \cup LongNumbers \cup Commas3 \cup Points

-----------------------------------------------------------------------------
(* Accents: every text of up to three words, and numerals between words.    *)
PlainNoun == [pos |-> "noun", group1 |-> "*", group3 |-> "*", cform |-> "*", name |-> "*",
          chain |-> -1, acc |-> 1, size |-> 2, rule |-> <<Clause("any", "C1", 0)>>]
Noun(group1, acc, kind) ==
  [PlainNoun EXCEPT !.group1 = group1, !.acc = acc, !.rule = <<Clause("any", kind, 0)>>]
Named(group3) == [PlainNoun EXCEPT !.group3 = group3]
WordOf(pos, group1, cform) ==
  [PlainNoun EXCEPT !.pos = pos, !.group1 = group1, !.cform = cform, !.rule = <<Clause("any", "*", 0)>>]

Nouns == {Noun("*", 2, "C1"), Noun("adverbial", 0, "C2"), Noun("stem", 1, "C4"),
          Noun("sahen", 0, "C3"), Named("surname"), [Named("given") EXCEPT !.size = 1]}
SuffixWords == {Noun("suffix", 0, "P1"), Noun("suffix", 0, "P2"), Noun("suffix", 2, "P14"), Noun("suffix", 1, "P6")}
Others == {WordOf("verb", "*", "renyou"), WordOf("verb", "dependent", "*"), WordOf("adjective", "*", "renyou"),
           WordOf("adjective", "dependent", "*"), WordOf("adverb", "*", "*"),
           [WordOf("symbol", "*", "*") EXCEPT !.size = 0, !.acc = 0],
           [WordOf("prefix", "*", "*") EXCEPT !.size = 1],
           [WordOf("filler", "*", "*") EXCEPT !.chain = 0]}
Particle(rule) == [WordOf("particle", "conjunctive", "*") EXCEPT !.name = "te", !.size = 1, !.acc = 0, !.rule = rule]
Auxiliary(rule) == [WordOf("auxiliary", "*", "*") EXCEPT !.rule = rule]
Dependents ==
  {Particle(<<Clause("noun", "F2", 1), Clause("verb", "F2", -1)>>),
   Particle(<<Clause("verb", "F1", 0), Clause("adjective", "F3", -1), Clause("any", "F5", 0)>>),
   Auxiliary(<<Clause("verb", "F4", 1), Clause("noun", "F3", 0)>>),
   Auxiliary(<<Clause("noun", "F4", -2), Clause("verb", "F2", 2)>>)}

AccentLexicon == Nouns \cup SuffixWords \cup Others \cup Dependents
Numeral(name, length) ==
  [PlainNoun EXCEPT !.group1 = "numeral", !.name = name, !.size = length]
Digits == {Numeral(n, 2) : n \in {"one", "four", "five", "seven"}} \cup {Numeral("two", 1)}
TenWords == {Numeral(n, 2) : n \in Powers}
Chained(n) == [n EXCEPT !.chain = 1]
Unchained(n) == [n EXCEPT !.chain = 0]

Numbers ==
  {<<a, Chained(b)>> \o rest : a \in Digits, b \in TenWords, rest \in
     {<<>>} \cup {<<Chained(d)>> : d \in Digits} \cup {<<Unchained(b2)>> : b2 \in TenWords}
       \cup {<<Unchained(d), Chained(b2)>> : d \in Digits, b2 \in TenWords}
       \cup {<<w>> : w \in SuffixWords \cup Dependents}}
  \cup {<<w, a, Chained(b)>> : w \in Nouns, a \in Digits, b \in TenWords}
  \cup {<<Unchained(b), Chained(a)>> : a \in Digits, b \in TenWords}

SomeAccentTexts == UNION {[1..n -> AccentLexicon] : n \in 1..3} \cup Numbers

ASSUME AccentTextsFit == WordsFit

-----------------------------------------------------------------------------
(* Vowels: every text of up to three words, and some of four.               *)
Voice(ms, pos, chain, acc) ==
  [moras |-> ms, unvoiced |-> {}, pos |-> pos, chain |-> chain, acc |-> acc]
Marking(word, k) == [word EXCEPT !.unvoiced = {k}]

Endings == {Voice(<<"ma", "su">>, "auxiliary", 1, 1), Voice(<<"de", "su">>, "auxiliary", 0, 1)}
Signs == {Voice(<<Pause>>, "symbol", 0, 0), Voice(<<Ask>>, "symbol", 0, 0)}
Shi == {Voice(<<"shi">>, "particle", 1, 0), Voice(<<"shi">>, "verb", 0, 1)}
PlainWords == {Voice(<<"ku", "su">>, "other", 0, 0), Voice(<<"ka", "shi", "ku">>, "other", 0, 2),
          Voice(<<"hi", "ka">>, "other", 0, 2), Voice(<<"a">>, "other", 1, 0), Voice(<<"ku">>, "other", 1, 0)}
Rare == {Marking(Voice(<<"ku", "ka">>, "other", 0, 1), 1), Marking(Voice(<<"ma", "su">>, "verb", 0, 1), 1),
         Voice(<<"-">>, "other", 1, 0),
         Voice(<<"shi", "ka">>, "filler", 0, 0), Voice(<<"a", "x", "ka">>, "other", 0, 0)}

VowelLexicon == Endings \cup Signs \cup Shi \cup PlainWords \cup Rare
SomeVowelTexts == UNION {[1..n -> VowelLexicon] : n \in 1..3}
             \cup [1..4 -> PlainWords \cup Shi \cup {Voice(<<Pause>>, "symbol", 0, 0)}]
================================================================================
