----------------------------- MODULE MCTextFrontEnd -----------------------------
(***************************************************************************)
(* Small instances of the parts that read a text: MecabLattice cuts it into *)
(* words, TextFrontEnd makes accent phrases of words, and KanaConverter of  *)
(* kana.  They share no state: a behaviour is one sentence analysed, one    *)
(* text, or one call of the kana converter; the others have ended with      *)
(* nothing done.                                                            *)
(***************************************************************************)
EXTENDS TextFrontEnd, KanaConverter, MecabLattice

CONSTANTS ki, ya, nn

NoText ==
  /\ phonemes = <<>> /\ moras = <<>> /\ words = <<>>
  /\ accents = <<>> /\ breaths = <<>>
  /\ shortPause = FALSE /\ status = "made"
  /\ word = no_word /\ first = TRUE /\ pushed = 0
  /\ result = A!Answer("phrases", <<>>)
NoKana ==
  /\ pc = "returned" /\ phrases = <<>> /\ text = <<>> /\ input = <<>> /\ data = <<>>
  /\ at = 0 /\ state = "None" /\ kanaMoras = <<>> /\ accent = -1 /\ loops = 0
  /\ what = "none"

NoSentence ==
  /\ sentence = <<>> /\ cost = <<>> /\ prev = <<>> /\ place = 0
  /\ search = "failed" /\ agenda = {} /\ readings = {}

ReadingInit ==
  \/ FrontInit /\ NoKana /\ NoSentence
  \/ NoText /\ KanaInit /\ NoSentence
  \/ NoText /\ NoKana /\ LatticeInit
ReadingNext ==
  \/ FrontNext /\ UNCHANGED <<kanaVars, latticeVars>>
  \/ KanaNext /\ UNCHANGED <<allvars, latticeVars>>
  \/ LatticeNext /\ UNCHANGED <<allvars, kanaVars>>

ReadingSpec ==
  /\ ReadingInit /\ [][ReadingNext]_<<allvars, kanaVars, latticeVars>>
  /\ WF_kanaVars(KanaNext) /\ WF_latticeVars(LatticeNext)

\* Every call and every analysis comes to an end, whatever it was called with.
CallsEnd == CallEnds /\ AnalysisEnds

-----------------------------------------------------------------------------
(* Words of up to three moras with marks in every place, chained or not,    *)
(* and limits so low that four words reach them.                            *)
W(pron, at_mora, chain) == [pron |-> pron, accent |-> at_mora, chain |-> chain]

SomeWords ==
  {W(<<"v">>, 1, c) : c \in {0, 1}}
    \cup {W(<<"cv", "unvoice", "v">>, 0, c) : c \in {0, 1}}
    \cup {W(<<"long", "cv">>, 2, c) : c \in {0, 1}}
    \cup {W(<<"cv", "long">>, 3, 0), W(<<"long">>, 0, 1),
          W(<<"unvoice", "v", "unknown", "v">>, 0, 0), W(<<"unknown", "v">>, 0, 1)}

-----------------------------------------------------------------------------
(* Kana: three of them, a mora of two kana whose first is a mora too, a     *)
(* mora that cannot be unvoiced, and lists of up to three phrases.          *)
SomeTexts == {<<ki>>, <<ki, ya>>, <<nn>>}
SomeVoiceable == {<<ki>>, <<ki, ya>>}

SomeMoras == [text : SomeVoiceable, silent : BOOLEAN] \cup {[text |-> <<nn>>, silent |-> FALSE]}
SomePhrases ==
  UNION {[moras : {m \in [1..len -> SomeMoras] : len = 1 \/ m[1].silent},
          accent : 1..len, ask : BOOLEAN, pause : BOOLEAN] : len \in 1..2}
LastPhrases == {p \in SomePhrases : Len(p.moras) = 1 /\ p.moras[1].text # <<nn>>}
SomeLists ==
  {<<>>} \cup {<<p>> : p \in SomePhrases} \cup (SomePhrases \X LastPhrases)
    \cup (LastPhrases \X LastPhrases \X LastPhrases)

\* Every phrase of up to five characters, and longer ones, which lose characters
\* more than once and go round up to the limit and beyond.
SomeInputs ==
  UNION {[1..n -> {ki, ya, nn} \cup Marks] : n \in 0..5}
    \cup UNION {[1..n -> {ki, Accent}] : n \in 6..11}
    \cup [1..8 -> {ki, Unvoice, Accent}]
-----------------------------------------------------------------------------
(* Sentences of up to four characters of four sorts: blanks, letters that   *)
(* are grouped and read one by one, kana that group but give way to known   *)
(* words, and a sign that is kana too.  Some words have the same surface,   *)
(* some costs are negative, some ways cost the same and some too much.      *)
Says(kinds, default_type, group, invoke, length) ==
  [kinds |-> kinds, default_type |-> default_type, group |-> group,
   invoke |-> invoke, length |-> length]
SomeInfo ==
  [c \in {" ", "a", "k", "s"} |->
     CASE c = " " -> Says({"space"}, "space", FALSE, TRUE, 0)
       [] c = "a" -> Says({"latin"}, "latin", TRUE, TRUE, 1)
       [] c = "k" -> Says({"kana"}, "kana", TRUE, FALSE, 2)
       [] c = "s" -> Says({"kana", "sign"}, "sign", FALSE, TRUE, 0)]

Entry(surface, class, wcost) == [surface |-> surface, class |-> class, wcost |-> wcost]
SomeDictionary ==
  <<Entry(<<"a">>, "noun", 2), Entry(<<"s">>, "verb", -1), Entry(<<"a", "k">>, "verb", 6),
    Entry(<<"k", "k">>, "noun", 5), Entry(<<"k", "k">>, "verb", 4)>>
SomeUnknown ==
  [t \in {"space", "latin", "kana", "sign"} |->
     IF t = "sign" THEN <<Entry(<<>>, "noun", 5), Entry(<<>>, "verb", 3)>>
     ELSE <<Entry(<<>>, "noun", 6)>>]
SomeConnection ==
  [l \in {"BOS", "noun", "verb"} |-> [r \in {"BOS", "noun", "verb"} |->
     CASE l = r -> 3
       [] l = "noun" /\ r = "verb" -> -2
       [] l = "BOS" /\ r = "verb" -> 2
       [] OTHER -> 1]]
SomeSentences == UNION {[1..len -> DOMAIN SomeInfo] : len \in 0..4}
=================================================================================
