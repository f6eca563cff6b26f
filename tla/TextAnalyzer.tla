------------------------------ MODULE TextAnalyzer ------------------------------
(***************************************************************************)
(* text_analyzer.cc: the flat labels of JPCommon become accent phrases      *)
(* again.  Groups end at a label beside all phrases (f1 = "xx"), phrases    *)
(* where an index changes, moras where the count of moras changes.          *)
(***************************************************************************)
EXTENDS Integers, Sequences, SequencesExt

CONSTANT MaxM  \* 49: moras from this one on are not told apart

\* The parts of a sequence that end at the given places; what follows the last
\* of them is dropped.
Cut(seq, ends) ==
  LET at == SelectSeq([i \in 1..Len(seq) |-> i], LAMBDA i : i \in ends)
  IN [k \in DOMAIN at |->
       SubSeq(seq, IF k = 1 THEN 1 ELSE at[k - 1] + 1, at[k])]

\* AccentPhraseLabel::from_labels stops at a mora it cannot count; an index
\* is compared with that of the next label of the phrase all the same.
CountedLabels(labels) ==
  LET end == SelectInSeq(labels, LAMBDA label : label.moraIndex = MaxM)
  IN IF end = 0 THEN labels ELSE SubSeq(labels, 1, end - 1)

MoraLabelsWithoutLast(labels) ==
  Cut(CountedLabels(labels),
      {i \in DOMAIN labels :
        i < Len(labels) /\ labels[i].moraIndex # labels[i + 1].moraIndex})

MoraLabels(labels) ==
  Cut(CountedLabels(labels),
      {i \in DOMAIN labels :
        i = Len(labels) \/ labels[i].moraIndex # labels[i + 1].moraIndex})

\* A mora of more than two labels is an error; a phrase without a mora, whose
\* first mora the code reads, is no state of the program any more.
PhraseFails(labels) == \E k \in DOMAIN MoraLabels(labels) : Len(MoraLabels(labels)[k]) > 2
PhraseEmpty(labels) == MoraLabels(labels) = <<>>

LowerOf(a, b) == IF a < b THEN a ELSE b

AnalyzePhraseNoLimit(labels) ==
  LET ms == MoraLabels(labels) IN
  [moras |-> [k \in DOMAIN ms |-> [x \in DOMAIN ms[k] |-> ms[k][x].sound]],
   accent |-> Last(ms[1]).accent,
   question |-> Last(Last(ms)).question,
   pause |-> FALSE]

AnalyzePhrase(labels) ==
  LET ms == MoraLabels(labels) IN
  [moras |-> [k \in DOMAIN ms |-> [x \in DOMAIN ms[k] |-> ms[k][x].sound]],
   accent |-> LowerOf(Last(ms[1]).accent, Len(ms)),
   question |-> Last(Last(ms)).question,
   pause |-> FALSE]

\* BreathGroupLabel::from_labels.
PhraseLabels(labels) ==
  Cut(labels,
      {i \in DOMAIN labels :
         \/ i = Len(labels)
         \/ labels[i].groupIndex # labels[i + 1].groupIndex
         \/ labels[i].phraseIndex # labels[i + 1].phraseIndex})

\* UtteranceLabel::from_labels: the labels between two pauses.
GroupLabels(labels) ==
  LET parts == Cut(labels, {i \in DOMAIN labels : labels[i].pause})
      spoken == [k \in DOMAIN parts |-> Front(parts[k])]
  IN SelectSeq(spoken, LAMBDA group : group # <<>>)

\* utterance_to_accent_phrases: the last phrase of every group but the last
\* gets a pause.
WithPause(phrases) == [phrases EXCEPT ![Len(phrases)].pause = TRUE]

AnalyzeGroupsPauseLast(groups) ==
  FlattenSeq([g \in DOMAIN groups |->
    WithPause([p \in DOMAIN PhraseLabels(groups[g]) |->
                 AnalyzePhrase(PhraseLabels(groups[g])[p])])])

AnalyzeGroups(groups) ==
  FlattenSeq([g \in DOMAIN groups |->
    LET phrases == [p \in DOMAIN PhraseLabels(groups[g]) |->
                      AnalyzePhrase(PhraseLabels(groups[g])[p])]
    IN IF g = Len(groups) THEN phrases ELSE WithPause(phrases)])

Answer(how, phrases) == [how |-> how, phrases |-> phrases]

Analyze(labels) ==
  LET groups == GroupLabels(labels)
      SomePhrase(Fails(_)) == \E g \in DOMAIN groups :
                         \E p \in DOMAIN PhraseLabels(groups[g]) :
                           Fails(PhraseLabels(groups[g])[p])
  IN IF SomePhrase(PhraseFails) THEN Answer("thrown", <<>>)
     ELSE IF SomePhrase(PhraseEmpty) THEN Answer("undefined", <<>>)
     ELSE Answer("phrases", AnalyzeGroups(groups))
================================================================================
