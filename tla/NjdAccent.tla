------------------------------- MODULE NjdAccent -------------------------------
(***************************************************************************)
(* njd_set_accent_phrase.cc and njd_set_accent_type.cc: which words form an *)
(* accent phrase, and where its accent falls.  The first rule decides for   *)
(* every word whether it is chained to the word before it, the second       *)
(* changes the accent of the first word of each phrase while it walks over  *)
(* the words of the phrase.                                                 *)
(***************************************************************************)
EXTENDS Integers, Sequences, SequencesExt

CONSTANT AccentTexts  \* lists of words the rules are called with

\* pos, group1 and group3 as the dictionary has them, cform its conjugation,
\* name its string where a rule asks for it; chain is -1 before the rules have
\* run; rule lists how the word changes the accent of its phrase, by the part
\* of speech before it.
Parts == {"noun", "verb", "adjective", "adverb", "conjunction", "adnominal",
          "auxiliary", "particle", "symbol", "prefix", "filler"}
Clause(after, kind, add) == [after |-> after, kind |-> kind, add |-> add]

AccentWord ==
  [pos : Parts, group1 : STRING, group3 : STRING, cform : STRING, name : STRING, chain : {-1, 0, 1},
   acc : Nat, size : Nat, rule : Seq([after : Parts \cup {"any"}, kind : STRING, add : Int])]

ASSUME AccentAssumption == AccentTexts \subseteq Seq(AccentWord)

VARIABLES
  accentWords,   \* the list
  accentPc,      \* "phrase", "type", "done": the rule that runs
  accentNode,    \* node of the running loop
  top,     \* first word of the running phrase
  moras    \* moras of the phrase before node

accentVars == <<accentWords, accentPc, accentNode, top, moras>>

AccentInit == accentWords \in AccentTexts /\ accentPc = "phrase" /\ accentNode = 2 /\ top = 0 /\ moras = 0

-----------------------------------------------------------------------------
(* njd_set_accent_phrase: every rule that applies overrides those before.  *)
Dependent == {"auxiliary", "particle"}
Alone == {"adverb", "conjunction", "adnominal"}

\* Rule 11 and 12: what a dependent adjective or verb hangs on.
Hangs(p, n) ==
  /\ n.group1 = "dependent"
  /\ \/ n.pos \in {"adjective", "verb"} /\ p.pos = "verb" /\ p.cform = "renyou"
     \/ n.pos = "adjective" /\ p.pos = "adjective" /\ p.cform = "renyou"
     \/ n.pos = "adjective" /\ p.pos = "particle" /\ p.group1 = "conjunctive"
        /\ p.name \in {"te", "de"}
     \/ n.pos = "verb" /\ p.pos = "noun" /\ p.group1 = "sahen"

\* Mutant: rule 14 looks at the word alone, not at the one before it.
VerdictsSymbolBefore(p, n) == <<
  <<TRUE, 1>>,
  <<p.pos = "adjective" /\ n.pos = "noun", 0>>,
  <<n.pos \in Dependent, 1>>,
  <<n.pos = "symbol", 0>>,
  <<n.group1 = "suffix", 1>> >>

\* When each rule applies, and what it says.
Verdicts(p, n) == <<
  <<TRUE, 1>>,                                                                 \* 01
  <<p.pos = "noun" /\ n.pos = "noun", 1>>,                                     \* 02
  <<p.pos = "adjective" /\ n.pos = "noun", 0>>,                                \* 03
  <<p.pos = "noun" /\ p.group1 = "stem" /\ n.pos = "noun", 0>>,                \* 04
  <<p.pos = "verb" /\ n.pos \in {"adjective", "noun"}, 0>>,                    \* 05
  <<{p.pos, n.pos} \cap Alone # {}, 0>>,                                       \* 06
  <<\E w \in {p, n} : w.pos = "noun" /\ w.group1 = "adverbial", 0>>,           \* 07
  <<n.pos \in Dependent, 1>>,                                                  \* 08
  <<p.pos \in Dependent /\ n.pos \notin Dependent, 0>>,                        \* 09
  <<p.group1 = "suffix" /\ n.pos = "noun", 0>>,                                \* 10
  <<Hangs(p, n), 1>>,                                                          \* 11, 12
  <<p.pos = "noun" /\ (n.pos \in {"verb", "adjective"} \/ n.group1 = "stem"), 0>>,  \* 13
  <<"symbol" \in {p.pos, n.pos}, 0>>,                                          \* 14
  <<n.pos = "prefix", 0>>,                                                     \* 15
  <<p.group3 = "surname" /\ n.pos = "noun", 0>>,                               \* 16
  <<p.pos = "noun" /\ n.group3 = "given", 0>>,                                 \* 17
  <<n.group1 = "suffix", 1>> >>                                                \* 18

\* The last rule that applies.
ChainOf(p, n) ==
  LET applying == {k \in DOMAIN Verdicts(p, n) : Verdicts(p, n)[k][1]}
  IN Verdicts(p, n)[CHOOSE k \in applying : \A l \in applying : l <= k][2]

\* A word the dictionary has decided for keeps its flag.
ChainWord ==
  /\ accentPc = "phrase" /\ accentNode <= Len(accentWords)
  /\ accentWords' = IF accentWords[accentNode].chain >= 0 THEN accentWords
              ELSE [accentWords EXCEPT ![accentNode].chain = ChainOf(accentWords[accentNode - 1], accentWords[accentNode])]
  /\ accentNode' = accentNode + 1
  /\ UNCHANGED <<accentPc, top, moras>>

PhrasesDone ==
  /\ accentPc = "phrase" /\ accentNode > Len(accentWords)
  /\ accentPc' = "type" /\ accentNode' = 1
  /\ UNCHANGED <<accentWords, top, moras>>

-----------------------------------------------------------------------------
(* njd_set_accent_type                                                     *)

\* strstr: the name of the auxiliary contains that of the verb.
Names(pos, after) == after = "any" \/ after = pos \/ (after = "verb" /\ pos = "auxiliary")

\* get_rule: the first clause for the part of speech before the word.
RuleOf(rule, pos) ==
  LET fits == {k \in DOMAIN rule : Names(pos, rule[k].after)}
  IN IF fits = {} THEN Clause("any", "*", 0) ELSE rule[CHOOSE k \in fits : \A l \in fits : k <= l]

\* NJDNode_set_acc.
NotNegative(acc) == IF acc < 0 THEN 0 ELSE acc

\* Mutant: an accent before the phrase is kept as a negative number.
ChangedNegative(acc, before, n, clause) ==
  CASE clause.kind \in {"F2", "F4"} -> before + clause.add
    [] OTHER -> acc

\* The accent of the phrase when word n joins it.
Changed(acc, before, n, clause) ==
  LET moved == NotNegative(before + clause.add)
      own == before + n.acc
  IN CASE clause.kind = "F2" -> IF acc = 0 THEN moved ELSE acc
       [] clause.kind = "F3" -> IF acc # 0 THEN moved ELSE acc
       [] clause.kind = "F4" -> moved
       [] clause.kind \in {"F5", "C4", "P6"} -> 0
       [] clause.kind = "C1" -> own
       [] clause.kind = "C2" -> before + 1
       [] clause.kind = "C3" -> before
       [] clause.kind = "P1" -> IF n.acc = 0 THEN 0 ELSE own
       [] clause.kind = "P2" -> IF n.acc = 0 THEN before + 1 ELSE own
       [] clause.kind = "P14" -> IF n.acc # 0 THEN own ELSE acc
       [] OTHER -> acc

IsNumeral(n) == n.group1 = "numeral"
OneToNine == {"one", "two", "three", "four", "five", "six", "seven", "eight", "nine"}
Powers == {"ten", "hundred", "thousand", "tenthousand", "oku", "chou"}

\* The accent of a digit when a power of ten is chained to it.
DigitAccent(i) ==
  LET p == accentWords[i - 1]
      next == IF i < Len(accentWords) THEN accentWords[i + 1].name ELSE ""
  IN CASE accentWords[i].name = "ten" ->
            IF p.name \in {"five", "six", "eight"} /\ next \in OneToNine THEN 0 ELSE 1
       [] accentWords[i].name = "hundred" ->
            IF p.name = "seven" THEN 2
            ELSE IF p.name \in {"three", "four", "nine", "what"} THEN 1
            ELSE p.size + accentWords[i].size
       [] accentWords[i].name \in {"thousand", "tenthousand"} -> p.size + 1
       [] accentWords[i].name = "oku" ->
            IF p.name \in {"one", "six", "seven", "eight", "some"} THEN 2 ELSE 1
       [] accentWords[i].name = "chou" -> IF p.name \in {"six", "seven"} THEN 2 ELSE 1

AfterDigit(i) ==
  /\ i > 1 /\ accentWords[i].chain = 1
  /\ IsNumeral(accentWords[i - 1]) /\ IsNumeral(accentWords[i]) /\ accentWords[i].name \in Powers

\* A ten that opens a phrase has no accent before another numeral.
OpensWithTen(i) ==
  /\ accentWords[i].name = "ten" /\ accentWords[i].chain # 1
  /\ i < Len(accentWords) /\ IsNumeral(accentWords[i + 1])

\* Mutant: the size is not counted anew for each phrase.
TypeWordSizeKept ==
  /\ accentPc = "type" /\ accentNode <= Len(accentWords)
  /\ LET n == accentWords[accentNode]
         opens == accentNode = 1 \/ n.chain # 1
         first == IF opens THEN accentNode ELSE top
         acc == IF opens THEN n.acc
                ELSE Changed(accentWords[top].acc, moras, n, RuleOf(n.rule, accentWords[accentNode - 1].pos))
     IN
     /\ accentWords' = [accentWords EXCEPT ![first].acc = acc]
     /\ top' = first
     /\ moras' = moras + n.size
  /\ accentNode' = accentNode + 1 /\ UNCHANGED accentPc

TypeWord ==
  /\ accentPc = "type" /\ accentNode <= Len(accentWords)
  /\ LET n == accentWords[accentNode]
         opens == accentNode = 1 \/ n.chain # 1
         first == IF opens THEN accentNode ELSE top
         before == IF opens THEN 0 ELSE moras
         acc == IF opens THEN n.acc
                ELSE Changed(accentWords[top].acc, moras, n, RuleOf(n.rule, accentWords[accentNode - 1].pos))
         ruled == [accentWords EXCEPT ![first].acc = acc]
         digit == IF AfterDigit(accentNode) THEN [ruled EXCEPT ![accentNode - 1].acc = DigitAccent(accentNode)]
                  ELSE ruled
     IN
     /\ accentWords' = IF OpensWithTen(accentNode) THEN [digit EXCEPT ![accentNode].acc = 0] ELSE digit
     /\ top' = first
     /\ moras' = before + n.size
  /\ accentNode' = accentNode + 1 /\ UNCHANGED accentPc

TypesDone ==
  /\ accentPc = "type" /\ accentNode > Len(accentWords)
  /\ accentPc' = "done"
  /\ UNCHANGED <<accentWords, accentNode, top, moras>>

AccentNext == ChainWord \/ PhrasesDone \/ TypeWord \/ TypesDone

AccentSpec == AccentInit /\ [][AccentNext]_accentVars
-----------------------------------------------------------------------------
AccentTypeOK ==
  /\ accentWords \in Seq(AccentWord)
  /\ accentPc \in {"phrase", "type", "done"}
  /\ accentNode \in 1..(Len(accentWords) + 2) /\ top \in 0..Len(accentWords) /\ moras \in Nat

\* The words from the first of a phrase to the last chained to it.
Opens(i) == i = 1 \/ accentWords[i].chain # 1
LastWord(i) == CHOOSE j \in i..Len(accentWords) :
  /\ \A k \in (i + 1)..j : ~Opens(k)
  /\ j = Len(accentWords) \/ Opens(j + 1)

\* The moras of the first words together.
Sizes(list) ==
  LET sum[k \in 0..Len(list)] == IF k = 0 THEN 0 ELSE sum[k - 1] + list[k].size IN sum
MorasOf(i, j) == Sizes(accentWords)[j] - Sizes(accentWords)[i - 1]

\* What the rules take for granted of a dictionary and never check: an accent, a
\* rule and what it adds stay within the word they stand at, and no word but a
\* suffix is chained to a symbol, or a symbol to a word.
Fits(w) ==
  /\ IsNumeral(w) => w.size >= 1
  /\ \A k \in DOMAIN w.rule : w.rule[k].kind # "*" => w.size >= 1 /\ w.rule[k].add <= w.size
Apart(p, n) == "symbol" \in {p.pos, n.pos} /\ n.group1 # "suffix"
WordsFit ==
  \A t \in AccentTexts :
    /\ \A i \in 1..Len(t) : Fits(t[i]) /\ t[i].acc <= t[i].size
    /\ \A i \in 2..Len(t) : Apart(t[i - 1], t[i]) => t[i].chain # 1

\* The accent of every phrase falls on one of its moras, or nowhere, whatever
\* the rules of its words, with the numerals' own accents among them.
\* (njd_set_accent_type; create_one_hot writes at the index of the accent.)
AccentInPhrase ==
  accentPc = "done" => \A i \in 1..Len(accentWords) :
    Opens(i) => accentWords[i].acc <= MorasOf(i, LastWord(i))

\* A pause stays between the phrases: only a suffix is chained to a symbol, and
\* no symbol to a word.  (Rules 14 and 18 against the ten rules before them.)
SymbolAlone ==
  accentPc = "done" => \A i \in 2..Len(accentWords) :
    Apart(accentWords[i - 1], accentWords[i]) => Opens(i)

\* The rules leave phrases the engine can speak: an accent is on a mora of its
\* phrase, and a pause between phrases.
AccentsSound == AccentTypeOK /\ AccentInPhrase /\ SymbolAlone
================================================================================
