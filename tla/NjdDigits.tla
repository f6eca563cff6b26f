------------------------------- MODULE NjdDigits -------------------------------
(***************************************************************************)
(* njd_set_digit.cc: how numbers are read.  Runs of digits, commas and      *)
(* periods are found, cut at commas and periods, and each piece is read as  *)
(* one number, with ten, hundred, thousand, ten thousand... put between the *)
(* digits, or digit by digit.                                               *)
(*                                                                         *)
(* The list of words is a sequence here (NjdList models its pointers), and  *)
(* a node a position in it.                                                 *)
(***************************************************************************)
EXTENDS Integers, Sequences, SequencesExt, FiniteSets

CONSTANT DigitTexts  \* the texts the rule is called with

Kinds == {"digit", "comma", "period",    \* words of a number (pos_group1)
          "unit", "myriad",              \* those the rule puts in: 10, 100, 1000; 10000...
          "stop",                        \* a period that is no word of a number
          "counter", "prefix", "hyphen", "open", "close", "numero", "plain"}

\* value: of a digit, the power of ten of a unit, the place of a myriad.
Word == [kind : Kinds, value : Nat, silent : BOOLEAN]

ASSUME TextsAssumption ==
  DigitTexts \subseteq {t \in Seq(Word) :
    \A i \in 1..Len(t) : t[i].kind \notin {"unit", "myriad"} /\ ~t[i].silent}

W(kind, value) == [kind |-> kind, value |-> value, silent |-> FALSE]
Silenced(word) == [word EXCEPT !.silent = TRUE]

VARIABLES
  digitWords,    \* the list
  digitPc,       \* "scan", "cut", "commas", "numeral", "next", "done"; "exit": the process has ended
  digitNode,     \* the node of the running loop
  s, e,     \* first and last word of the run that is not read yet
  last,     \* last digit of the piece that is read
  digitIndex,    \* place of the digit within four digits, from the right
  place,    \* how many groups of four follow
  have,     \* 1 if a digit of this group was not zero
  (* history, which no guard reads: *)
  digitText,     \* the words as they were
  how,      \* how far the piece goes: to the "period", to the "comma", or "single"
  number,   \* the digits of the piece, <<>> if it is not read as a number
  read      \* the digits of all pieces so far

history == <<digitText, how, number, read>>
digitVars == <<digitWords, digitPc, digitNode, s, e, last, digitIndex, place, have, history>>

IsKazu(i) == digitWords[i].kind \in {"digit", "comma", "period", "unit", "myriad"}
IsComma(i) == digitWords[i].kind = "comma"
IsPeriod(i) == digitWords[i].kind \in {"period", "stop"}
InNumber(i) == digitWords[i].kind \in {"digit", "comma", "period"}

DigitsInit ==
  /\ digitWords \in DigitTexts
  /\ digitPc = "scan" /\ digitNode = 1
  /\ s = 0 /\ e = 0 /\ last = 0 /\ digitIndex = 0 /\ place = 0 /\ have = 0
  /\ digitText = digitWords /\ how = "none" /\ number = <<>> /\ read = <<>>

-----------------------------------------------------------------------------
(* njd_set_digit: the next run.                                            *)
LeastOf(set) == CHOOSE i \in set : \A j \in set : i <= j
GreatestOf(set) == CHOOSE i \in set : \A j \in set : j <= i

RunStarts == {i \in digitNode..Len(digitWords) : InNumber(i)}
RunEnd(i) == GreatestOf({j \in i..Len(digitWords) : \A k \in i..j : InNumber(k)})

FindRun ==
  /\ digitPc = "scan" /\ RunStarts # {}
  /\ s' = LeastOf(RunStarts)
  /\ e' = RunEnd(s')
  /\ digitPc' = "cut"
  /\ UNCHANGED <<digitWords, digitNode, last, digitIndex, place, have, history>>

NoMoreRuns ==
  /\ digitPc = "scan" /\ RunStarts = {}
  /\ digitPc' = "done"
  /\ UNCHANGED <<digitWords, digitNode, s, e, last, digitIndex, place, have, history>>

-----------------------------------------------------------------------------
(* convert_digit_sequence                                                  *)

\* Mutant: the search goes on at the mark it has skipped.
SkipMarkStays ==
  /\ digitPc = "cut" /\ (IsComma(s) \/ IsPeriod(s))
  /\ IF s = e THEN digitPc' = "scan" /\ digitNode' = e /\ s' = s
     ELSE digitPc' = digitPc /\ digitNode' = digitNode /\ s' = s + 1
  /\ UNCHANGED <<digitWords, e, last, digitIndex, place, have, history>>

SkipMark ==
  /\ digitPc = "cut" /\ (IsComma(s) \/ IsPeriod(s))
  /\ IF s = e THEN digitPc' = "scan" /\ digitNode' = e + 1 /\ s' = s
     ELSE digitPc' = digitPc /\ digitNode' = digitNode /\ s' = s + 1
  /\ UNCHANGED <<digitWords, e, last, digitIndex, place, have, history>>

\* The last digit before a period, and the commas before it.
FinalBeforePeriod ==
  LET before == LeastOf({f \in s..e : f = e \/ IsPeriod(f + 1)})
  IN GreatestOf({f \in s..before : f = s \/ ~IsComma(f)})

Commas == {i \in s..FinalBeforePeriod : IsComma(i)}

\* Every fourth word from the right is a comma, and no other.
Grouped ==
  /\ Commas # {}
  /\ \A i \in s..FinalBeforePeriod : IsComma(i) <=> (FinalBeforePeriod - i) % 4 = 3

ZeroStart == s # FinalBeforePeriod /\ digitWords[s] = W("digit", 0)

\* get_digit_sequence_score: what the neighbours say for one number.
ScoreBefore(i) ==
  LET afterNumber == i > 2 /\ IsKazu(i - 2)
      kind == digitWords[i - 1].kind
  IN IF i = 1 THEN 0 ELSE
     (CASE kind = "prefix" -> 2
        [] kind = "counter" -> 1
        [] kind \in {"period", "stop"} -> IF afterNumber THEN -5 ELSE 0
        [] kind \in {"hyphen", "close", "numero"} -> -2
        [] kind = "open" -> IF afterNumber THEN -2 ELSE 0
        [] OTHER -> 0)
     + (IF i > 2 /\ digitWords[i - 2].kind = "numero" THEN -2 ELSE 0)

ScoreAfter(i) ==
  LET beforeNumber == i + 2 <= Len(digitWords) /\ IsKazu(i + 2)
      kind == digitWords[i + 1].kind
  IN IF i = Len(digitWords) THEN 0 ELSE
     CASE kind = "counter" -> 2
       [] kind \in {"period", "stop"} -> 4
       [] kind \in {"hyphen", "open", "numero"} -> -2
       [] kind = "close" -> IF beforeNumber THEN -2 ELSE 0
       [] OTHER -> 0

\* Mutant: a period after the number weighs more than one before it.
ScorePoint(first, final) ==
  ScoreBefore(first) + ScoreAfter(final)
    + (IF final < Len(digitWords) /\ IsPeriod(final + 1) THEN 2 ELSE 0)

Score(first, final) == ScoreBefore(first) + ScoreAfter(final)

FinalBeforeComma ==
  IF Commas = {} THEN FinalBeforePeriod ELSE LeastOf(Commas) - 1

\* convert_digit_sequence_for_numerical_reading up to its loop, for the words
\* from s to final: one digit stays as it is, more than 72 as well.
MaxPlace == 17
\* Mutant: a whole number of groups is not told apart (index is not set to 4).
IndexOfWhole(size) == (size % 4) - 1

IndexOf(size) == (size - 1) % 4
PlaceOf(size) == (size - 1) \div 4

StartNumeral(final) ==
  LET size == final - s + 1
      reads == size > 1 /\ PlaceOf(size) <= MaxPlace
  IN
  /\ last' = final
  /\ digitNode' = s
  /\ digitIndex' = IF reads THEN IndexOf(size) ELSE digitIndex
  /\ place' = IF reads THEN PlaceOf(size) ELSE place
  /\ have' = 0
  /\ number' = IF reads THEN SubSeq(digitWords, s, final) ELSE <<>>
  /\ read' = read \o SubSeq(digitWords, s, final)
  /\ digitPc' = IF reads THEN "numeral" ELSE "next"

AtDigit == digitPc = "cut" /\ ~IsComma(s) /\ ~IsPeriod(s)

\* One number until the period: all commas go first.
ReadUntilPeriod ==
  /\ AtDigit /\ ~ZeroStart /\ Grouped
  /\ last' = FinalBeforePeriod /\ digitNode' = s
  /\ how' = "period"
  /\ digitPc' = "commas"
  /\ UNCHANGED <<digitWords, s, e, digitIndex, place, have, digitText, number, read>>

RemoveComma ==
  /\ digitPc = "commas" /\ digitNode # last /\ IsComma(digitNode)
  /\ digitWords' = RemoveAt(digitWords, digitNode)
  /\ last' = last - 1 /\ e' = e - 1
  /\ UNCHANGED <<digitPc, digitNode, s, digitIndex, place, have, history>>

PassDigit ==
  /\ digitPc = "commas" /\ digitNode # last /\ ~IsComma(digitNode)
  /\ digitNode' = digitNode + 1
  /\ UNCHANGED <<digitWords, digitPc, s, e, last, digitIndex, place, have, history>>

CommasGone ==
  /\ digitPc = "commas" /\ digitNode = last
  /\ StartNumeral(last)
  /\ UNCHANGED <<digitWords, s, e, digitText, how>>

\* One number until the first comma.
ReadUntilComma ==
  /\ AtDigit /\ ~ZeroStart /\ ~Grouped
  /\ Score(s, FinalBeforeComma) >= 0
  /\ StartNumeral(FinalBeforeComma)
  /\ how' = "comma"
  /\ UNCHANGED <<digitWords, s, e, digitText>>

\* convert_digit_sequence_for_non_numerical_reading; how long the vowels of
\* 0, 2 and 5 are is left out.
ReadOneByOne ==
  /\ AtDigit
  /\ \/ ZeroStart
     \/ ~Grouped /\ Score(s, FinalBeforeComma) < 0
  /\ last' = FinalBeforeComma
  /\ how' = "single" /\ number' = <<>>
  /\ read' = read \o SubSeq(digitWords, s, FinalBeforeComma)
  /\ digitPc' = "next"
  /\ UNCHANGED <<digitWords, digitNode, s, e, digitIndex, place, have, digitText>>

-----------------------------------------------------------------------------
(* convert_digit_sequence_for_numerical_reading                            *)
Digit == digitWords[digitNode].value

Replace(word) ==
  digitWords' = [digitWords EXCEPT ![digitNode] = word] /\ digitNode' = digitNode + 1 /\ UNCHANGED <<digitPc, e, last>>

\* The digit, and behind it a new word; NJDNode_insert ends the process when
\* there is no next node.
Follow(said, word) ==
  IF digitNode = Len(digitWords) THEN
    digitPc' = "exit" /\ UNCHANGED <<digitWords, digitNode, e, last>>
  ELSE
    /\ digitWords' = SubSeq(digitWords, 1, digitNode - 1) \o <<said, word>>
                  \o SubSeq(digitWords, digitNode + 1, Len(digitWords))
    /\ digitNode' = digitNode + 2 /\ e' = e + 1 /\ last' = last + 1
    /\ digitPc' = digitPc

\* Mutant: a unit follows the last group too.
OnesUnitAlways ==
  /\ digitPc = "numeral" /\ digitNode <= last /\ digitIndex = 0
  /\ IF have = 1 \/ Digit # 0 THEN Follow(digitWords[digitNode], W("myriad", place))
     ELSE Replace(Silenced(digitWords[digitNode]))
  /\ have' = 0
  /\ place' = place - 1
  /\ digitIndex' = 3
  /\ UNCHANGED <<s, history>>

\* The last digit of a group of four: zero is silent, and the unit of the
\* group follows when any of its digits is not zero.
Ones ==
  LET said == IF Digit = 0 THEN Silenced(digitWords[digitNode]) ELSE digitWords[digitNode] IN
  /\ digitPc = "numeral" /\ digitNode <= last /\ digitIndex = 0
  /\ IF place > 0 /\ (have = 1 \/ Digit # 0) THEN Follow(said, W("myriad", place))
     ELSE Replace(said)
  /\ have' = 0
  /\ place' = place - 1
  /\ digitIndex' = 3
  /\ UNCHANGED <<s, history>>

\* Mutant: a one that gives way to its unit does not count for the group.
TensForgetOne ==
  /\ digitPc = "numeral" /\ digitNode <= last /\ digitIndex > 0
  /\ IF Digit = 0 THEN Replace(Silenced(digitWords[digitNode]))
     ELSE IF Digit = 1 THEN Replace(W("unit", digitIndex))
     ELSE Follow(digitWords[digitNode], W("unit", digitIndex))
  /\ have' = IF Digit > 1 THEN 1 ELSE have
  /\ digitIndex' = digitIndex - 1
  /\ UNCHANGED <<s, place, history>>

\* Any other digit: zero is silent, one gives way to its unit, the others are
\* followed by it.
Tens ==
  /\ digitPc = "numeral" /\ digitNode <= last /\ digitIndex > 0
  /\ IF Digit = 0 THEN Replace(Silenced(digitWords[digitNode]))
     ELSE IF Digit = 1 THEN Replace(W("unit", digitIndex))
     ELSE Follow(digitWords[digitNode], W("unit", digitIndex))
  /\ have' = IF Digit # 0 THEN 1 ELSE have
  /\ digitIndex' = digitIndex - 1
  /\ UNCHANGED <<s, place, history>>

NumeralDone ==
  /\ digitPc = "numeral" /\ digitNode > last
  /\ digitPc' = "next"
  /\ UNCHANGED <<digitWords, digitNode, s, e, last, digitIndex, place, have, history>>

\* Mutant: the rest of the run is left as it is.
RestOfRunDropped ==
  /\ digitPc = "next"
  /\ digitPc' = "scan" /\ digitNode' = e + 1 /\ s' = s
  /\ UNCHANGED <<digitWords, e, last, digitIndex, place, have, history>>

\* convert_digit_sequence calls itself for the rest of the run.
RestOfRun ==
  /\ digitPc = "next"
  /\ IF last = e THEN digitPc' = "scan" /\ digitNode' = e + 1 /\ s' = s
     ELSE digitPc' = "cut" /\ digitNode' = digitNode /\ s' = last + 1
  /\ UNCHANGED <<digitWords, e, last, digitIndex, place, have, history>>

DigitsNext ==
  \/ FindRun \/ NoMoreRuns \/ SkipMark
  \/ ReadUntilPeriod \/ RemoveComma \/ PassDigit \/ CommasGone
  \/ ReadUntilComma \/ ReadOneByOne
  \/ Ones \/ Tens \/ NumeralDone \/ RestOfRun

DigitsSpec == DigitsInit /\ [][DigitsNext]_digitVars /\ WF_digitVars(DigitsNext)
-----------------------------------------------------------------------------
DigitsTypeOK ==
  /\ digitWords \in Seq(Word)
  /\ digitPc \in {"scan", "cut", "commas", "numeral", "next", "done", "exit"}
  /\ digitNode \in Nat \ {0} /\ s \in Nat /\ e \in Nat /\ last \in Nat
  /\ digitIndex \in 0..3 /\ place + 1 \in 0..MaxPlace + 1 /\ place \in Int /\ have \in {0, 1}

\* A unit is never asked for after the last word: the counters of place and
\* index run out with the digits.  (NJDNode_insert ends the process otherwise.)
NeverExits == digitPc # "exit"

\* The words of a number say its value: read as Japanese numerals are, they
\* give what the digits are worth by their position.
\* (convert_digit_sequence_for_numerical_reading and its two tables.)
Myriad[p \in 0..MaxPlace] == IF p = 0 THEN 1 ELSE 10 ^ 4 * Myriad[p - 1]

Hear(said, word) ==
  LET digit == IF said.digit = 0 THEN 1 ELSE said.digit IN
  IF word.silent THEN said
  ELSE CASE word.kind = "digit" -> [said EXCEPT !.digit = word.value]
         [] word.kind = "unit" -> [said EXCEPT !.group = @ + digit * 10 ^ word.value, !.digit = 0]
         [] word.kind = "myriad" ->
              [total |-> said.total + (said.group + said.digit) * Myriad[word.value],
               group |-> 0, digit |-> 0]

\* What is understood after each word.
nothing_said == [total |-> 0, group |-> 0, digit |-> 0]
HeardUpTo(list) ==
  LET heard[n \in 0..Len(list)] ==
        IF n = 0 THEN nothing_said ELSE Hear(heard[n - 1], list[n])
  IN heard

Spoken(list) ==
  LET said == HeardUpTo(list)[Len(list)]
  IN said.total + said.group + said.digit

\* What the digits are worth up to each of them.
WorthUpTo(digits) ==
  LET worth[n \in 0..Len(digits)] ==
        IF n = 0 THEN 0 ELSE 10 * worth[n - 1] + digits[n].value
  IN worth

Written(digits) == WorthUpTo(digits)[Len(digits)]

SaysItsValue ==
  digitPc = "next" /\ number # <<>> => Spoken(SubSeq(digitWords, s, last)) = Written(number)

\* The digits among the words, up to each of them.
DigitsUpTo(list) ==
  LET digits[n \in 0..Len(list)] ==
        IF n = 0 THEN <<>>
        ELSE IF list[n].kind = "digit" THEN Append(digits[n - 1], list[n])
        ELSE digits[n - 1]
  IN digits

DigitsOf(list) == DigitsUpTo(list)[Len(list)]

\* Every digit of the text belongs to exactly one piece, in the order of the
\* text.  (convert_digit_sequence goes on behind the piece it has read, whose
\* end moves with the words that are put in and taken out.)
EveryDigitRead ==
  digitPc = "done" => read = DigitsOf(digitText)

\* The digits behind a decimal point are read one by one, unless commas group
\* them.  (get_digit_sequence_score, against all other marks around.)
DecimalsOneByOne ==
  digitPc = "numeral" /\ how = "comma" /\ s > 2 => ~(IsPeriod(s - 1) /\ IsKazu(s - 2))

\* The rule ends.
RuleEnds == <>(digitPc = "done")

\* The counters keep within the tables of units and within the list.
DigitsSound == DigitsTypeOK /\ NeverExits

\* The words the rule leaves say the numbers that are written: each its value,
\* none of the digits forgotten, and decimals one by one.
NumbersRead == SaysItsValue /\ EveryDigitRead /\ DecimalsOneByOne
================================================================================
