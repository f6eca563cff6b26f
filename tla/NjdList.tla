------------------------------- MODULE NjdList -------------------------------
(***************************************************************************)
(* open_jtalk/njd: the doubly linked list every rule of the text front end  *)
(* works on, with the operations mecab2njd and the rules use.  A node is an *)
(* address; an address that was freed may be handed out again.              *)
(***************************************************************************)
EXTENDS Naturals, Sequences, FiniteSets, SequencesExt

CONSTANTS
  Nodes,     \* addresses
  Null,
  MaxChain   \* bound: words of one feature of MeCab

ASSUME ListAssumption ==
  Null \notin Nodes /\ IsFiniteSet(Nodes) /\ MaxChain \in Nat \ {0}

VARIABLES
  head, tail,   \* NJD
  prev, next,   \* NJDNode; Null for an address that is not allocated
  silent,       \* nodes whose pron is "*"
  at,           \* the node of the running loop
  phase,        \* mecab2njd, the loop of a rule, or NJD_remove_silent_node
  live,         \* addresses that are allocated
  words         \* history, which no guard reads: the words in their order

pointers == <<head, tail, prev, next>>
listVars == <<pointers, silent, at, phase, live, words>>

ListInit ==
  /\ head = Null /\ tail = Null /\ at = Null
  /\ prev = [n \in Nodes |-> Null] /\ next = [n \in Nodes |-> Null]
  /\ silent = {} /\ live = {} /\ words = <<>>
  /\ phase = "load"

-----------------------------------------------------------------------------
(* NJDNode_load and NJD_push_node.                                         *)

\* The nodes of one feature: a chained word becomes several.
Chains == UNION {Injection(1..k, Nodes \ live) : k \in 1..MaxChain}

Place(s, n) == CHOOSE i \in 1..Len(s) : s[i] = n

LastOfFirstWord(chain) == chain[1]

\* Where the loop that looks for the new tail stops.
LastOf(chain) == chain[Len(chain)]

Push ==
  /\ phase = "load"
  /\ \E chain \in Chains :
       LET first == chain[1]
           New(n) == n \in ToSet(chain)
           Before(n) == chain[Place(chain, n) - 1]
           After(n) == chain[Place(chain, n) + 1]
       IN
       /\ head' = IF head = Null THEN first ELSE head
       /\ next' = [n \in Nodes |->
                     IF New(n) THEN IF n = chain[Len(chain)] THEN Null ELSE After(n)
                     ELSE IF head # Null /\ n = tail THEN first ELSE next[n]]
       /\ prev' = [n \in Nodes |->
                     IF New(n) /\ n # first THEN Before(n)
                     ELSE IF New(n) /\ head # Null THEN tail ELSE prev[n]]
       /\ tail' = LastOf(chain)
       /\ live' = live \cup ToSet(chain)
       /\ words' = words \o chain
       /\ \E mute \in SUBSET ToSet(chain) : silent' = silent \cup mute
  /\ UNCHANGED <<at, phase>>

LoadDone ==
  /\ phase = "load"
  /\ phase' = "edit" /\ at' = head
  /\ UNCHANGED <<pointers, silent, live, words>>

-----------------------------------------------------------------------------
(* NJD_remove_node, which frees the node and returns the one the loop goes  *)
(* on with, and NJDNode_insert.                                            *)

\* One direction of the list without n: its neighbour "from" is linked to "to".
Unlinked(f, n, from, to) ==
  [m \in Nodes |-> IF m = n THEN Null ELSE IF m = from THEN to ELSE f[m]]

RemoveAlone(n) ==
  /\ n = head /\ n = tail
  /\ head' = Null /\ tail' = Null /\ at' = Null
  /\ next' = Unlinked(next, n, Null, Null)
  /\ prev' = Unlinked(prev, n, Null, Null)

RemoveHeadSkipping(n) ==
  /\ n = head /\ n # tail
  /\ head' = next[n] /\ at' = next[next[n]]
  /\ next' = Unlinked(next, n, Null, Null)
  /\ prev' = Unlinked(prev, n, next[n], Null)
  /\ UNCHANGED tail

RemoveHead(n) ==
  /\ n = head /\ n # tail
  /\ head' = next[n] /\ at' = next[n]
  /\ next' = Unlinked(next, n, Null, Null)
  /\ prev' = Unlinked(prev, n, next[n], Null)
  /\ UNCHANGED tail

RemoveTailStaying(n) ==
  /\ n # head /\ n = tail
  /\ tail' = prev[n] /\ UNCHANGED at
  /\ next' = Unlinked(next, n, prev[n], Null)
  /\ prev' = Unlinked(prev, n, Null, Null)
  /\ UNCHANGED head

RemoveTail(n) ==
  /\ n # head /\ n = tail
  /\ tail' = prev[n] /\ at' = Null
  /\ next' = Unlinked(next, n, prev[n], Null)
  /\ prev' = Unlinked(prev, n, Null, Null)
  /\ UNCHANGED head

RemoveInnerOneWay(n) ==
  /\ n # head /\ n # tail
  /\ next' = Unlinked(next, n, prev[n], next[n])
  /\ prev' = Unlinked(prev, n, Null, Null)
  /\ at' = next[n]
  /\ UNCHANGED <<head, tail>>

RemoveInner(n) ==
  /\ n # head /\ n # tail
  /\ next' = Unlinked(next, n, prev[n], next[n])
  /\ prev' = Unlinked(prev, n, next[n], prev[n])
  /\ at' = next[n]
  /\ UNCHANGED <<head, tail>>

RemoveNode(n) ==
  /\ RemoveAlone(n) \/ RemoveHead(n) \/ RemoveTail(n) \/ RemoveInner(n)
  /\ silent' = silent \ {n}
  /\ live' = live \ {n}
  /\ words' = RemoveAt(words, Place(words, n))
  /\ UNCHANGED phase

\* Without a next node NJDNode_insert would end the process; the new node has
\* a pronunciation, and the loop stands on it.
Insert ==
  /\ phase = "edit" /\ at # Null /\ next[at] # Null
  /\ \E n \in Nodes \ live :
       /\ next' = [next EXCEPT ![at] = n, ![n] = next[at]]
       /\ prev' = [prev EXCEPT ![n] = at, ![next[at]] = n]
       /\ at' = n
       /\ live' = live \cup {n}
       /\ words' = InsertAt(words, Place(words, at) + 1, n)
  /\ UNCHANGED <<head, tail, silent, phase>>

\* The loop that takes the commas out of a number.
Drop == phase = "edit" /\ at # Null /\ RemoveNode(at)

\* NJDNode_set_pron and NJDNode_load, on the node of the loop or one near it.
Pronounce ==
  /\ phase = "edit" /\ at # Null
  /\ \E n \in live : silent' \in {silent \cup {n}, silent \ {n}}
  /\ UNCHANGED <<pointers, at, phase, live, words>>

Move ==
  /\ phase = "edit" /\ at # Null
  /\ at' = next[at]
  /\ UNCHANGED <<pointers, silent, phase, live, words>>

EditDone ==
  /\ phase = "edit" /\ at = Null
  /\ phase' = "sweep" /\ at' = head
  /\ UNCHANGED <<pointers, silent, live, words>>

-----------------------------------------------------------------------------
(* NJD_remove_silent_node.                                                 *)

SweepOut == phase = "sweep" /\ at # Null /\ at \in silent /\ RemoveNode(at)

SweepKeep ==
  /\ phase = "sweep" /\ at # Null /\ at \notin silent
  /\ at' = next[at]
  /\ UNCHANGED <<pointers, silent, phase, live, words>>

\* The next rule starts its loop.
SweepDone ==
  /\ phase = "sweep" /\ at = Null
  /\ phase' = "edit" /\ at' = head
  /\ UNCHANGED <<pointers, silent, live, words>>

ListNext == \/ Push \/ LoadDone
        \/ Insert \/ Drop \/ Pronounce \/ Move \/ EditDone
        \/ SweepOut \/ SweepKeep \/ SweepDone

ListSpec == ListInit /\ [][ListNext]_listVars

-----------------------------------------------------------------------------
(* Properties.                                                             *)

\* Types, and no pointer the program can still follow leads to freed memory:
\* the ends, the loop and the links of allocated nodes.
ListTypeOK ==
  /\ live \subseteq Nodes /\ silent \subseteq live
  /\ head \in live \cup {Null} /\ tail \in live \cup {Null}
  /\ at \in live \cup {Null}
  /\ prev \in [Nodes -> live \cup {Null}] /\ next \in [Nodes -> live \cup {Null}]
  /\ phase \in {"load", "edit", "sweep"}
  /\ words \in Seq(live)

\* The two directions of the list and its ends agree on one order of the
\* allocated nodes, with none twice and none lost (njd.cc, NJDNode_insert).
Linked ==
  /\ IsInjective(words) /\ live = ToSet(words)
  /\ head = (IF words = <<>> THEN Null ELSE words[1])
  /\ tail = (IF words = <<>> THEN Null ELSE words[Len(words)])
  /\ \A i \in 1..Len(words) :
       /\ next[words[i]] = (IF i = Len(words) THEN Null ELSE words[i + 1])
       /\ prev[words[i]] = (IF i = 1 THEN Null ELSE words[i - 1])

\* NJD_remove_silent_node leaves no silent word behind it, also when it takes
\* out two neighbours or an end: every one left is still in front of the loop.
SweptClean ==
  phase = "sweep" =>
    \A i \in 1..Len(words) :
      words[i] \in silent => at # Null /\ Place(words, at) <= i

\* What is reached from head by following next.
Path ==
  LET node[k \in 0..Cardinality(Nodes)] ==
        IF k = 0 THEN head
        ELSE IF node[k - 1] = Null THEN Null ELSE next[node[k - 1]]
  IN  [k \in 1..Cardinality({j \in DOMAIN node : node[j] # Null}) |-> node[k - 1]]

\* Walked from head, the pointers behave as the sequence of words the rules
\* take them for: mecab2njd appends, a rule inserts between two words or takes
\* one out, a sweep takes out silent words only and ends with none.
Sequence == INSTANCE WordSequence WITH words <- Path
ImplementsSequence == Sequence!Spec

\* No pointer that can still be followed is dangling, both directions of the
\* list agree on one order, and a sweep leaves no silent word behind it.
ListSound == ListTypeOK /\ Linked /\ SweptClean
===============================================================================
