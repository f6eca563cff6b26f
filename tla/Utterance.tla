------------------------------- MODULE Utterance -------------------------------
(***************************************************************************)
(* What the labels of JPCommon promise: an utterance is a sequence of       *)
(* breath groups, a group a sequence of accent phrases, a phrase a sequence *)
(* of moras.  Words are said one after the other; a word joins the phrase   *)
(* before it when it is chained, and opens a group when a pause comes       *)
(* before it.  A pause that a chained word reaches over stays in its phrase.*)
(***************************************************************************)
EXTENDS Integers, Sequences, SequencesExt

CONSTANT
  Sayings  \* the words there are: moras, accent, and chain 1 or 0

VARIABLES
  groups,   \* the breath groups
  pending   \* a pause is due before the next word

vars == <<groups, pending>>

pause == <<"pau">>

Init == groups = <<>> /\ pending = FALSE

LastPhrase == Last(Last(groups))

\* The utterance with another last phrase.
WithLast(phrase) ==
  [groups EXCEPT ![Len(groups)] = [@ EXCEPT ![Len(@)] = phrase]]

\* Before anything was said there is nothing to pause after.
Pause == groups # <<>> /\ pending' = TRUE /\ UNCHANGED groups

\* A question ends with a pause as well.
Question ==
  /\ groups # <<>>
  /\ groups' = WithLast([LastPhrase EXCEPT !.question = TRUE])
  /\ pending' = TRUE

\* A long vowel at the beginning of a word lengthens the word before it.
Prolong ==
  /\ groups # <<>> /\ ~pending
  /\ groups' = WithLast([LastPhrase EXCEPT !.moras = Append(@, <<Last(Last(@))>>)])
  /\ UNCHANGED pending

Join(moras) ==
  /\ groups' = WithLast([LastPhrase EXCEPT
                  !.moras = @ \o (IF pending THEN <<pause>> ELSE <<>>) \o moras])
  /\ pending' = FALSE

New(moras, accent) == [moras |-> moras, accent |-> accent, question |-> FALSE]

Part(moras, accent) ==
  /\ groups' = IF groups = <<>> \/ pending
               THEN Append(groups, <<New(moras, accent)>>)
               ELSE [groups EXCEPT ![Len(groups)] = Append(@, New(moras, accent))]
  /\ pending' = FALSE

\* A chained word has nothing to join at the beginning.
Word(said) ==
  IF said.chain = 1 /\ groups # <<>> THEN Join(said.moras)
  ELSE Part(said.moras, said.accent)

Next == Pause \/ Question \/ Prolong \/ \E said \in Sayings : Word(said)

Spec == Init /\ [][Next]_vars
================================================================================
