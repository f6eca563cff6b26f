------------------------------- MODULE NjdVowels -------------------------------
(***************************************************************************)
(* njd_set_unvoiced_vowel.cc: which vowels are whispered.  The rule walks   *)
(* over the moras of all words with a window of three, whose entries carry  *)
(* over from one mora to the next and from word to word, each with the word *)
(* it stands in, its flag, its place in the accent phrase and the accent of *)
(* that phrase.                                                             *)
(***************************************************************************)
EXTENDS Integers, Sequences, SequencesExt

CONSTANT VowelTexts  \* lists of words the rule is called with

\* The moras the rules tell apart, and one ("x") that no list contains.
Moras == {"ma", "de", "su", "shi", "ku", "hi", "ka", "a", "-", "x"}
Pause == "pause"
Ask == "ask"

VowelWord ==
  [moras : Seq(Moras) \cup {<<Pause>>, <<Ask>>}, unvoiced : SUBSET Nat, pos : STRING, chain : Int, acc : Int]

\* No word is silent (NJD_remove_silent_node), and a mark stands behind a mora.
VowelText ==
  {t \in Seq(VowelWord) : \A w \in 1..Len(t) :
     t[w].moras # <<>> /\ t[w].unvoiced \subseteq 1..Len(t[w].moras)}

ASSUME VowelAssumption == VowelTexts \subseteq VowelText

\* A word has its moras, the places dict marks as unvoiced, its part of speech,
\* its accent and whether it is chained to the word before it.
VARIABLES
  vowelWords,   \* the list; unvoiced of a word are the places marked in pron
  vowelNode,    \* node of the outer loop
  index,   \* place in that word
  window,  \* mora1, mora2, mora3
  buff,    \* marks of the running word
  vowelPc,      \* "mora", "rules", "done"; "wrong": the rule has given up
  text     \* history, which no guard reads: the words as they were

vowelVars == <<vowelWords, vowelNode, index, window, buff, vowelPc, text>>

Voiced == 0   \* values of flag; -1 is unknown
Unvoiced == 1

\* What get_mora_information leaves when there is no mora: nlink stays at the
\* word whose mora is in no list.
Nothing(word) == [mora |-> "none", nlink |-> word, flag |-> -1, midx |-> 0, atype |-> 0]

VowelsInit ==
  /\ vowelWords \in VowelTexts
  /\ vowelNode = 1 /\ index = 1
  /\ window = <<Nothing(0), Nothing(0), Nothing(0)>>
  /\ buff = {} /\ vowelPc = "mora"
  /\ text = vowelWords

-----------------------------------------------------------------------------
(* get_mora_information for the mora at place k of word w, or of the words  *)
(* behind it, with the midx and atype the caller passes.                    *)
IsSign(w) == vowelWords[w].moras \in {<<Pause>>, <<Ask>>}

\* The moras of the text, one after the other, as <<word, place>>.
Places == FlattenSeq([w \in 1..Len(vowelWords) |-> [k \in 1..Len(vowelWords[w].moras) |-> <<w, k>>]])
Position(at) == CHOOSE p \in 1..Len(Places) : Places[p] = at

\* The k-th mora from the beginning of word w on, <<0, 0>> behind the last word.
Locate(w, k) ==
  LET p == Position(<<w, 1>>) + k - 1
  IN IF p <= Len(Places) THEN Places[p] ELSE <<0, 0>>

\* Mutant: place and accent are counted on over the beginning of a phrase.
FetchOn(w, k, midx, atype) ==
  LET at == Locate(w, k)
      n == vowelWords[at[1]]
  IN
  IF at[1] = 0 THEN Nothing(0)
  ELSE IF ~IsSign(at[1]) /\ n.moras[at[2]] = "x" THEN [Nothing(at[1]) EXCEPT !.midx = midx, !.atype = atype]
  ELSE [mora |-> n.moras[at[2]], nlink |-> at[1],
        flag |-> IF IsSign(at[1]) THEN Voiced ELSE IF at[2] \in n.unvoiced THEN Unvoiced ELSE -1,
        midx |-> IF at = <<1, 1>> THEN 0 ELSE midx, atype |-> IF at = <<1, 1>> THEN n.acc ELSE atype]

Fetch(w, k, midx, atype) ==
  LET at == Locate(w, k)
      n == vowelWords[at[1]]
      opens == at[2] = 1 /\ n.chain # 1
      found == [mora |-> n.moras[at[2]], nlink |-> at[1],
                flag |-> IF at[2] \in n.unvoiced THEN Unvoiced ELSE -1,
                midx |-> IF opens THEN 0 ELSE midx,
                atype |-> IF opens THEN n.acc ELSE atype]
  IN
  IF at[1] = 0 THEN Nothing(0)
  ELSE IF IsSign(at[1]) THEN [found EXCEPT !.flag = Voiced]
  ELSE IF n.moras[at[2]] = "x" THEN [found EXCEPT !.mora = "none", !.flag = -1]
  ELSE found

Missing(i) == window[i].mora = "none"
Size(i) == IF Missing(i) THEN 0 ELSE 1

\* Each entry that is missing is looked up again.
Filled ==
  LET m1 == IF Missing(1) THEN Fetch(vowelNode, index, window[1].midx, window[1].atype) ELSE window[1]
      size1 == IF m1.mora = "none" THEN 0 ELSE 1
      m2 == IF Missing(2) THEN Fetch(vowelNode, index + size1, m1.midx + 1, m1.atype) ELSE window[2]
      size2 == IF m2.mora = "none" THEN 0 ELSE 1
      m3 == IF Missing(3) THEN Fetch(vowelNode, index + size1 + size2, m2.midx + 1, m2.atype)
            ELSE window[3]
  IN <<m1, m2, m3>>

LookAhead ==
  /\ vowelPc = "mora" /\ vowelNode <= Len(vowelWords) /\ index <= Len(vowelWords[vowelNode].moras)
  /\ window' = Filled
  /\ vowelPc' = IF window'[1].mora = "none" THEN "wrong" ELSE "rules"
  /\ UNCHANGED <<vowelWords, vowelNode, index, buff, text>>

-----------------------------------------------------------------------------
(* apply_unvoice_rule: 1, 0, or -1 for a mora that is no candidate.        *)
Behind(mora) ==
  CASE mora = "su" -> {"ku", "hi", "ka"}
    [] mora = "hi" -> {"ku", "ka", "su", "shi"}
    [] mora \in {"ku", "shi"} -> {"ku", "ka", "su", "shi", "hi"}
    [] OTHER -> {}

Applied(mora, next) ==
  IF next = "none" THEN Voiced
  ELSE IF mora \notin {"su", "hi", "ku", "shi"} THEN -1
  ELSE IF next \in Behind(mora) THEN Unvoiced ELSE Voiced

OnAccent(m) == m.atype = m.midx + 1
PosOf(m) == vowelWords[m.nlink].pos

\* Rule 1: the "su" of "masu" and "desu", at the end of their word.
PoliteEnding(win) ==
  /\ win[2].mora = "su" /\ win[3].mora # "none"
  /\ win[1].nlink = win[2].nlink /\ win[2].nlink # win[3].nlink
  /\ win[1].mora \in {"ma", "de"}
  /\ PosOf(win[2]) \in {"verb", "auxiliary", "interjection"}

Rule1(win) ==
  IF ~PoliteEnding(win) THEN win
  ELSE [win EXCEPT ![2].flag =
         IF vowelWords[win[3].nlink].moras \in {<<Ask>>, <<"-">>} THEN Voiced ELSE Unvoiced]

\* Rule 2: the word "shi", unless a neighbour is unvoiced already.
Rule2(win) ==
  LET asked == /\ win[1].flag # Unvoiced /\ win[2].flag = -1 /\ win[3].flag # Unvoiced
               /\ win[2].mora # "none"
               /\ vowelWords[win[2].nlink].moras = <<"shi">>
               /\ PosOf(win[2]) \in {"verb", "auxiliary", "particle"}
      flag == IF OnAccent(win[2]) THEN Voiced ELSE Applied("shi", win[3].mora)
      Quiet(m) == IF flag = Unvoiced /\ m.flag = -1 THEN [m EXCEPT !.flag = Voiced] ELSE m
  IN IF asked THEN <<Quiet(win[1]), [win[2] EXCEPT !.flag = flag], Quiet(win[3])>> ELSE win

\* Mutant: rule 3 is left out.
Rule0345Succession(win) ==
  IF win[1].flag # -1 THEN win
  ELSE [win EXCEPT ![1].flag =
         IF PosOf(win[1]) = "filler" \/ OnAccent(win[1]) THEN Voiced
         ELSE Applied(win[1].mora, win[2].mora)]

\* Mutant: rule 4 counts the moras from one.
Rule0345Accent(win) ==
  IF win[1].flag # -1 THEN win
  ELSE [win EXCEPT ![1].flag =
         IF PosOf(win[1]) = "filler" \/ win[2].flag = Unvoiced \/ win[1].atype = win[1].midx
         THEN Voiced ELSE Applied(win[1].mora, win[2].mora)]

\* Fillers, a mora before an unvoiced one and the accent stay voiced.
Rule0345(win) ==
  IF win[1].flag # -1 THEN win
  ELSE [win EXCEPT ![1].flag =
         IF PosOf(win[1]) = "filler" \/ win[2].flag = Unvoiced \/ OnAccent(win[1]) THEN Voiced
         ELSE Applied(win[1].mora, win[2].mora)]

\* Mutant: a mark of the dictionary is dropped behind an unvoiced mora.
Behind1Always(win) == IF win[1].flag = Unvoiced THEN [win EXCEPT ![2].flag = Voiced] ELSE win

\* The mora behind an unvoiced one is voiced.
Behind1(win) ==
  IF win[1].flag = Unvoiced /\ win[2].flag = -1 THEN [win EXCEPT ![2].flag = Voiced] ELSE win

Ruled == Behind1(Rule0345(Rule2(Rule1(window))))

\* The rules, the mark of the first mora, and the move of the window.
Mora ==
  /\ vowelPc = "rules"
  /\ buff' = IF Ruled[1].flag = Unvoiced THEN buff \cup {index} ELSE buff
  /\ window' = <<Ruled[2], Ruled[3], Nothing(0)>>
  /\ index' = index + 1 /\ vowelPc' = "mora"
  /\ UNCHANGED <<vowelWords, vowelNode, text>>

\* Mutant: the marks of a word stay in the buffer for the next one.
WordDoneBuffKept ==
  /\ vowelPc = "mora" /\ vowelNode <= Len(vowelWords) /\ index > Len(vowelWords[vowelNode].moras)
  /\ vowelWords' = [vowelWords EXCEPT ![vowelNode].unvoiced = buff]
  /\ vowelNode' = vowelNode + 1 /\ index' = 1 /\ buff' = buff
  /\ UNCHANGED <<window, vowelPc, text>>

WordDone ==
  /\ vowelPc = "mora" /\ vowelNode <= Len(vowelWords) /\ index > Len(vowelWords[vowelNode].moras)
  /\ vowelWords' = [vowelWords EXCEPT ![vowelNode].unvoiced = buff]
  /\ vowelNode' = vowelNode + 1 /\ index' = 1 /\ buff' = {}
  /\ UNCHANGED <<window, vowelPc, text>>

AllDone ==
  /\ vowelPc = "mora" /\ vowelNode > Len(vowelWords)
  /\ vowelPc' = "done"
  /\ UNCHANGED <<vowelWords, vowelNode, index, window, buff, text>>

VowelsNext == LookAhead \/ Mora \/ WordDone \/ AllDone

VowelsSpec == VowelsInit /\ [][VowelsNext]_vowelVars
-----------------------------------------------------------------------------
VowelsTypeOK ==
  /\ \A w \in 1..Len(vowelWords) : vowelWords[w].unvoiced \subseteq 1..Len(vowelWords[w].moras)
  /\ vowelNode \in 1..(Len(vowelWords) + 1) /\ index \in Nat \ {0} /\ buff \subseteq Nat
  /\ vowelPc \in {"mora", "rules", "done", "wrong"}
  /\ \A i \in 1..3 : /\ window[i].mora \in Moras \cup {Pause, Ask, "none"}
                     /\ window[i].flag \in {-1, 0, 1} /\ window[i].nlink \in 0..Len(vowelWords)

Flagged(at) == at[2] \in vowelWords[at[1]].unvoiced
Marked(at) == at[2] \in text[at[1]].unvoiced
MoraAt(at) == text[at[1]].moras[at[2]]

\* The word that opens the phrase of word w, and the place of a mora behind it.
HeadOf(w) == CHOOSE h \in 1..w : /\ h = 1 \/ text[h].chain # 1
                                 /\ \A v \in (h + 1)..w : text[v].chain = 1
PlaceInPhrase(at) == Position(at) - Position(<<HeadOf(at[1]), 1>>) + 1
AccentMora(at) == text[HeadOf(at[1])].acc = PlaceInPhrase(at)

\* The window never falls out of step with the text: while the rules run its
\* first entries are the running mora and those behind it, each with its own
\* place in its phrase and the accent of that phrase, whatever words and phrases
\* end between them.
\* (mora1 is fetched once only and then shifted twice; the accent and the place
\* of a chained first word are those of no phrase and are left out.)
WindowInStep ==
  vowelPc = "rules" => \A i \in 1..3 :
    LET here == Position(<<vowelNode, index>>)
        at == Places[here + i - 1]
    IN
    ~Missing(i) =>
      /\ here + i - 1 <= Len(Places)
      /\ window[i].nlink = at[1] /\ window[i].mora = MoraAt(at)
      /\ text[HeadOf(at[1])].chain # 1 =>
           window[i].midx + 1 = PlaceInPhrase(at) /\ window[i].atype = text[HeadOf(at[1])].acc

Polite(at) ==
  /\ at[2] = Len(text[at[1]].moras) /\ at[2] > 1 /\ MoraAt(at) = "su"
  /\ text[at[1]].moras[at[2] - 1] \in {"ma", "de"}
  /\ text[at[1]].pos \in {"verb", "auxiliary", "interjection"}

\* Rule 3: no two moras in a row are unvoiced, unless the dictionary marks them
\* both, or one of them and the other is a polite ending.
\* (Rules 1, 2 and 5 decide for three different moras of the window.)
NeverTwice ==
  vowelPc = "done" => \A p \in 1..(Len(Places) - 1) :
    LET one == Places[p]
        two == Places[p + 1]
    IN Flagged(one) /\ Flagged(two) =>
         \/ Marked(two) /\ (Marked(one) \/ Polite(one))
         \/ Marked(one) /\ Polite(two)

\* Rule 4: the accent is never unvoiced, unless the dictionary marks it or it is
\* the ending of "masu" or "desu".
AccentVoiced ==
  vowelPc = "done" => \A p \in 1..Len(Places) :
    LET at == Places[p] IN
    Flagged(at) /\ AccentMora(at) /\ text[HeadOf(at[1])].chain # 1 => Marked(at) \/ Polite(at)

\* A mark of the dictionary stays, except for a polite ending that is asked or
\* drawn out, and a mark on a pause or a question.
MarksKept ==
  vowelPc = "done" => \A p \in 1..Len(Places) :
    Marked(Places[p]) => Flagged(Places[p]) \/ Polite(Places[p]) \/ MoraAt(Places[p]) \in {Pause, Ask}

\* Vowels are whispered as the rules 3 and 4 ask, and where the dictionary does.
VowelsRight == VowelsTypeOK /\ NeverTwice /\ AccentVoiced /\ MarksKept
================================================================================
