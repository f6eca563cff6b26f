------------------------------ MODULE TextFrontEnd ------------------------------
(***************************************************************************)
(* From words to accent phrases: text_to_features pushes the words of a     *)
(* text into JPCommon and makes labels, and text_to_accent_phrases reads    *)
(* the labels back into phrases.  The two sides agree on the meaning of     *)
(* three numbers a label, each of them cut off at a limit of its own.       *)
(***************************************************************************)
EXTENDS JpcommonLabel

A == INSTANCE TextAnalyzer

VARIABLE result  \* what text_to_accent_phrases returns, or how it ended

allvars == <<vars, result>>

FrontInit == Init /\ result = A!Answer("none", <<>>)

Analysis ==
  /\ status = "made" /\ result.how = "none"
  /\ result' = A!Analyze(Labels)
  /\ UNCHANGED vars

FrontNext == (Next /\ UNCHANGED result) \/ Analysis

FrontSpec == FrontInit /\ [][FrontNext]_allvars

Answered == status = "made" /\ result.how # "none"

-----------------------------------------------------------------------------
(* Properties.                                                             *)

AllPhrases == FlattenSeq(GroupsNow)
SpokenMoras(phrase) == SelectSeq(phrase.moras, LAMBDA mora : mora # <<"pau">>)

\* Within the limits of the labels every phrase and every mora can be counted.
Countable ==
  /\ \A p \in DOMAIN AllPhrases : Len(SpokenMoras(AllPhrases[p])) < MaxM
  /\ \A g \in DOMAIN GroupsNow : Len(GroupsNow[g]) <= MaxM

InnerPauses == \E p \in DOMAIN AllPhrases :
                 Len(SpokenMoras(AllPhrases[p])) < Len(AllPhrases[p].moras)

\* What a phrase of the utterance is to the engine: an accent of 0 is on the
\* last mora, and no accent is past the last mora that is kept.
Spoken(phrase) ==
  LET n == Len(phrase.moras)
      kept == SubSeq(phrase.moras, 1, A!LowerOf(n, MaxM - 1))
      accent == IF phrase.accent = 0 THEN n ELSE phrase.accent
  IN [moras |-> kept, accent |-> A!LowerOf(accent, Len(kept)),
      question |-> phrase.question, pause |-> FALSE]

Expected ==
  FlattenSeq([g \in DOMAIN GroupsNow |->
    LET phrases == [p \in DOMAIN GroupsNow[g] |-> Spoken(GroupsNow[g][p])]
    IN IF g = Len(GroupsNow) THEN phrases ELSE A!WithPause(phrases)])

\* The engine speaks the utterance the words built: the same phrases with
\* the same moras, accents, questions and pauses between groups, however many
\* groups there are, and of a phrase that is too long its beginning.
SpeaksUtterance ==
  Answered /\ ~InnerPauses /\ (\A g \in DOMAIN GroupsNow : Len(GroupsNow[g]) <= MaxM)
    => result = A!Answer("phrases", Expected)

\* No mora of a countable utterance is lost, split or read twice, not even
\* where a chained word reaches over a pause.
EveryMoraSpoken ==
  Answered /\ Countable =>
    /\ result.how = "phrases"
    /\ FlattenSeq([p \in DOMAIN result.phrases |-> result.phrases[p].moras])
         = FlattenSeq([p \in DOMAIN AllPhrases |-> SpokenMoras(AllPhrases[p])])

\* The accent of every phrase is on one of its moras, whatever the dictionary
\* said and wherever a phrase was cut: create_one_hot indexes with it.
AccentInside ==
  Answered =>
    \A p \in DOMAIN result.phrases :
      result.phrases[p].accent \in 1..Len(result.phrases[p].moras)

\* What was pushed as words is spoken as phrases, however the two sides cut the
\* three numbers of a label off.
PhrasesSpoken == SpeaksUtterance /\ EveryMoraSpoken /\ AccentInside
================================================================================
