----------------------------- MODULE WordSequence -----------------------------
(***************************************************************************)
(* What the rules of the text front end take an NJD to be: a sequence of    *)
(* words, some of them silent (pronunciation "*"), that is loaded, edited   *)
(* and swept of its silent words.  No pointers, no cursor.                  *)
(***************************************************************************)
EXTENDS Naturals, Sequences, SequencesExt

CONSTANTS
  Nodes,     \* what a word is identified by
  MaxChain   \* bound: words of one feature

VARIABLES words, silent, phase

vars == <<words, silent, phase>>

Init == words = <<>> /\ silent = {} /\ phase = "load"

\* The words of one feature, none of them in the list yet, go to its end.
Add == /\ phase = "load"
       /\ \E k \in 1..MaxChain : \E c \in Injection(1..k, Nodes \ ToSet(words)) :
            /\ words' = words \o c
            /\ \E mute \in SUBSET ToSet(c) : silent' = silent \cup mute
       /\ UNCHANGED phase

LoadDone == phase = "load" /\ phase' = "edit" /\ UNCHANGED <<words, silent>>

\* A rule gives a word a pronunciation or takes it away.
Pronounce == /\ phase = "edit"
             /\ silent' \in SUBSET ToSet(words)
             /\ UNCHANGED <<words, phase>>

\* A rule puts one word between two others.
Put == /\ phase = "edit"
       /\ \E n \in Nodes \ ToSet(words), k \in 1..(Len(words) - 1) :
            words' = InsertAt(words, k + 1, n)
       /\ UNCHANGED <<silent, phase>>

\* A rule takes a word out.
Drop == /\ phase = "edit"
        /\ \E k \in 1..Len(words) : words' = RemoveAt(words, k)
        /\ silent' = silent \cap ToSet(words')
        /\ UNCHANGED phase

SweepStart == phase = "edit" /\ phase' = "sweep" /\ UNCHANGED <<words, silent>>

\* A sweep takes out silent words only, and ends when there are none.
SweepOut == /\ phase = "sweep"
            /\ \E k \in 1..Len(words) :
                 words[k] \in silent /\ words' = RemoveAt(words, k)
            /\ silent' = silent \cap ToSet(words')
            /\ UNCHANGED phase

SweepDone == /\ phase = "sweep" /\ ToSet(words) \cap silent = {}
             /\ phase' = "edit"
             /\ UNCHANGED <<words, silent>>

Next == \/ Add \/ LoadDone \/ Pronounce \/ Put \/ Drop
        \/ SweepStart \/ SweepOut \/ SweepDone

Spec == Init /\ [][Next]_vars
===============================================================================
