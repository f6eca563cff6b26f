------------------------------ MODULE MecabLattice ------------------------------
(***************************************************************************)
(* mecab/tokenizer.cc, viterbi.cc and nbest_generator.cc: how a sentence is *)
(* cut into words.  From each place where a word may end, Tokenizer::lookup *)
(* gives the words that may follow; Viterbi::viterbi keeps the cheapest way *)
(* to each of them; NBestGenerator walks back from the end of the sentence  *)
(* and gives one reading after the other, the cheapest first.               *)
(*                                                                         *)
(* A character is one place long, whatever its bytes.  The engine puts no   *)
(* constraint on a lattice, so partial parsing is left out.                 *)
(***************************************************************************)
EXTENDS Integers, Sequences, FiniteSets

CONSTANTS
  Sentences,        \* what is parsed: sequences of characters
  Info,             \* what char.bin says of each character
  Blank,            \* the character whose kinds are skipped
  Dictionary,       \* the words of the dictionary, the shorter surface first
  Unknown,          \* of each kind the words of unk.dic; they have no surface
  Connection,       \* matrix.bin: the cost of a class behind another
  MaxGroupingSize,
  Horizon,          \* 65535: how far lookup looks
  CostLimit         \* 2147483647: a way that costs as much is none

Characters == DOMAIN Info
Kinds == DOMAIN Unknown
Classes == DOMAIN Connection
Entries(surfaces) == [surface : surfaces, class : Classes, wcost : Int]

ASSUME LatticeAssumption ==
  /\ Info \in [Characters -> [kinds : SUBSET Kinds, default_type : Kinds,
                              group : BOOLEAN, invoke : BOOLEAN, length : Nat]]
  /\ Sentences \subseteq Seq(Characters)
  /\ Blank \in Characters
  /\ Dictionary \in Seq(Entries(Seq(Characters) \ {<<>>}))
  /\ Unknown \in [Kinds -> Seq(Entries({<<>>})) \ {<<>>}]
  /\ "BOS" \in Classes /\ Connection \in [Classes -> [Classes -> Int]]
  /\ MaxGroupingSize \in Nat /\ Horizon \in Nat \ {0} /\ CostLimit \in Nat \ {0}

VARIABLES
  sentence,
  cost,       \* of each node made so far: the cost of the cheapest way to it
  prev,       \* of each node but the first: the one before it on that way
  place,      \* pos
  search,     \* "forward", "found" or "failed"
  agenda,     \* the elements of the queue, each with the end of a reading
  readings    \* those that next() has given

latticeVars == <<sentence, cost, prev, place, search, agenda, readings>>

\* from is where the node before it ends; blanks come between from and begin.
\* order is the order in which lookup adds the nodes of one place.
Node(from, begin, upto, entry, order) ==
  [from |-> from, begin |-> begin, upto |-> upto, order |-> order,
   class |-> entry.class, wcost |-> entry.wcost]

BosEos == [surface |-> <<>>, class |-> "BOS", wcost |-> 0]
Bos == Node(0, 0, 0, BosEos, 0)
\* No node is connected behind the end any more.
Eos(from) == Node(from, Len(sentence), Len(sentence) + 2, BosEos, 0)

LatticeInit ==
  /\ sentence \in Sentences
  /\ cost = [n \in {Bos} |-> 0] /\ prev = <<>>
  /\ place = 0 /\ search = "forward" /\ agenda = {} /\ readings = {}

-----------------------------------------------------------------------------
(* Tokenizer::lookup, from place on; places count from 0.                  *)
At(p) == Info[sentence[p + 1]]
IsKindOf(c, d) == c.kinds \cap d.kinds # {}

\* Each character is compared with the one before it, the first with c.
SeekToOtherType(begin, end, c) ==
  LET Kin(p) == IsKindOf(IF p = begin THEN c ELSE At(p - 1), At(p))
  IN CHOOSE q \in begin..end : (q = end \/ ~Kin(q)) /\ \A p \in begin..q - 1 : Kin(p)

CommonPrefix(surface, begin, end) ==
  /\ begin + Len(surface) <= end
  /\ SubSeq(sentence, begin + 1, begin + Len(surface)) = surface

\* Where unknown words end that begin at begin2: behind the whole group, and
\* behind one, two and more characters, but neither at the end of the group
\* nor behind a stranger.
UnknownEnds(begin2, end) ==
  LET cinfo == At(begin2)
      group == IF cinfo.group THEN SeekToOtherType(begin2 + 1, end, cinfo) ELSE -1
      Single(e) == /\ e <= begin2 + cinfo.length
                   /\ group \notin begin2 + 1..e
                   /\ \A p \in begin2 + 1..e - 1 : IsKindOf(cinfo, At(p))
  IN {e \in begin2 + 1..end :
        \/ cinfo.group /\ e = group /\ group - (begin2 + 1) <= MaxGroupingSize
        \/ Single(e)}

\* Mutant: what is neither known nor a group or run of unknowns is left out.
LookupNoLast ==
  LET end == IF Len(sentence) - place >= Horizon THEN place + Horizon ELSE Len(sentence)
      begin2 == SeekToOtherType(place, end, Info[Blank])
      cinfo == At(IF begin2 = end THEN end - 1 ELSE begin2)
      rest == IF begin2 = end THEN Len(sentence) ELSE end
      known == {i \in DOMAIN Dictionary : CommonPrefix(Dictionary[i].surface, begin2, rest)}
      upto == IF begin2 = end \/ (known # {} /\ ~cinfo.invoke) THEN {}
              ELSE UnknownEnds(begin2, end)
      Known(i) == Node(place, begin2, begin2 + Len(Dictionary[i].surface), Dictionary[i], i)
      tokens == Unknown[cinfo.default_type]
  IN {Known(i) : i \in known}
       \cup {Node(place, begin2, e, tokens[k], Len(Dictionary) + k) :
               e \in upto, k \in DOMAIN tokens}

\* Behind nothing but blanks up to the horizon, the dictionary is searched with
\* a length of 0, which commonPrefixSearch takes for all the rest of the text,
\* and one more character is taken for an unknown word.
Lookup ==
  LET end == IF Len(sentence) - place >= Horizon THEN place + Horizon ELSE Len(sentence)
      begin2 == SeekToOtherType(place, end, Info[Blank])
      cinfo == At(IF begin2 = end THEN end - 1 ELSE begin2)
      rest == IF begin2 = end THEN Len(sentence) ELSE end
      known == {i \in DOMAIN Dictionary : CommonPrefix(Dictionary[i].surface, begin2, rest)}
      unknown == IF begin2 = end THEN {begin2 + 1} ELSE UnknownEnds(begin2, end)
      upto == IF known # {} /\ ~cinfo.invoke THEN {}
              ELSE IF known = {} /\ unknown = {} THEN {begin2 + 1}
              ELSE unknown
      Known(i) == Node(place, begin2, begin2 + Len(Dictionary[i].surface), Dictionary[i], i)
      tokens == Unknown[cinfo.default_type]
  IN {Known(i) : i \in known}
       \cup {Node(place, begin2, e, tokens[k], Len(Dictionary) + k) :
               e \in upto, k \in DOMAIN tokens}

-----------------------------------------------------------------------------
(* Viterbi::viterbi.  end_node_list is read off the nodes: of those that    *)
(* end at a place the ones of a later lookup come first.                    *)
EndingAt(p) == {m \in DOMAIN cost : m.upto = p}
Lefts(n) == EndingAt(n.from)

LocalCost(l, r) == Connection[l.class][r.class] + r.wcost
CostBehind(m, n) == cost[m] + LocalCost(m, n)
Affordable(n) == {m \in Lefts(n) : CostBehind(m, n) < CostLimit}

\* Mutant: only the cost of the last step is looked at.
BestLeftGreedy(n) ==
  CHOOSE m \in Affordable(n) :
    \A o \in Affordable(n) : LocalCost(m, n) <= LocalCost(o, n)

\* The first of the cheapest in end_node_list.
BestLeft(n) ==
  CHOOSE m \in Affordable(n) : \A o \in Affordable(n) :
    \/ CostBehind(m, n) < CostBehind(o, n)
    \/ /\ CostBehind(m, n) = CostBehind(o, n)
       /\ m.from > o.from \/ (m.from = o.from /\ m.order <= o.order)

\* Mutant: a node keeps the cost of its own step only.
ConnectLocal(list) ==
  /\ \A n \in list : Affordable(n) # {}
  /\ cost' = [n \in DOMAIN cost \cup list |->
                IF n \in list THEN LocalCost(BestLeft(n), n) ELSE cost[n]]
  /\ prev' = [n \in DOMAIN prev \cup list |-> IF n \in list THEN BestLeft(n) ELSE prev[n]]

Connect(list) ==
  /\ \A n \in list : Affordable(n) # {}
  /\ cost' = [n \in DOMAIN cost \cup list |->
                IF n \in list THEN CostBehind(BestLeft(n), n) ELSE cost[n]]
  /\ prev' = [n \in DOMAIN prev \cup list |-> IF n \in list THEN BestLeft(n) ELSE prev[n]]

\* connect() fails, analyze() with it, and Mecab_analysis clears the lattice.
TooLong(list) ==
  /\ \E n \in list : Affordable(n) = {}
  /\ cost' = <<>> /\ prev' = <<>> /\ search' = "failed" /\ agenda' = {}

\* Mutant: pos <= len.
PassTooFar ==
  /\ search = "forward" /\ place <= Len(sentence) /\ EndingAt(place) = {}
  /\ place' = place + 1
  /\ UNCHANGED <<sentence, cost, prev, search, agenda, readings>>

\* Mutant: pos only moves on behind a lookup.
PassStays ==
  /\ search = "forward" /\ place < Len(sentence) /\ EndingAt(place) = {}
  /\ UNCHANGED latticeVars

Pass ==
  /\ search = "forward" /\ place < Len(sentence) /\ EndingAt(place) = {}
  /\ place' = place + 1
  /\ UNCHANGED <<sentence, cost, prev, search, agenda, readings>>

Extend ==
  /\ search = "forward" /\ place < Len(sentence) /\ EndingAt(place) # {}
  /\ \E list \in {Lookup} :
       \/ TooLong(list) /\ UNCHANGED place
       \/ Connect(list) /\ place' = place + 1 /\ UNCHANGED <<search, agenda>>
  /\ UNCHANGED <<sentence, readings>>

\* The end is connected at the last place where a word ends, then initNBest.
EndOfSentence ==
  /\ search = "forward" /\ place = Len(sentence)
  /\ \E last \in 0..Len(sentence) :
       /\ EndingAt(last) # {} /\ \A p \in last + 1..Len(sentence) : EndingAt(p) = {}
       /\ \/ TooLong({Eos(last)})
          \/ /\ Connect({Eos(last)}) /\ search' = "found"
             /\ agenda' = {[path |-> <<Eos(last)>>, fx |-> 0, gx |-> 0]}
  /\ UNCHANGED <<sentence, place, readings>>

-----------------------------------------------------------------------------
(* NBestGenerator::next, one element off the queue at a time; those that    *)
(* cost the same come in any order.                                         *)
Tops == {e \in agenda : \A f \in agenda : e.fx <= f.fx}

\* Mutant: the step back is not counted in fx.
BehindBlind(top, m) ==
  LET gx == LocalCost(m, Head(top.path)) + top.gx
  IN [path |-> <<m>> \o top.path, gx |-> gx, fx |-> cost[m] + top.gx]

Behind(top, m) ==
  LET gx == LocalCost(m, Head(top.path)) + top.gx
  IN [path |-> <<m>> \o top.path, gx |-> gx, fx |-> cost[m] + gx]

Give == \E top \in Tops :
  /\ Head(top.path) = Bos
  /\ readings' = readings \cup {top.path}
  /\ agenda' = agenda \ {top}
  /\ UNCHANGED <<sentence, cost, prev, place, search>>

\* Mutant: only the best way to a node is followed back.
ExpandBest == \E top \in Tops :
  /\ Head(top.path) # Bos
  /\ agenda' = (agenda \ {top}) \cup {Behind(top, prev[Head(top.path)])}
  /\ UNCHANGED <<sentence, cost, prev, place, search, readings>>

Expand == \E top \in Tops :
  /\ Head(top.path) # Bos
  /\ agenda' = (agenda \ {top}) \cup {Behind(top, m) : m \in Lefts(Head(top.path))}
  /\ UNCHANGED <<sentence, cost, prev, place, search, readings>>

LatticeNext == Pass \/ Extend \/ EndOfSentence \/ Give \/ Expand

\* One thread analyses and asks for readings until there are no more.
LatticeSpec ==
  LatticeInit /\ [][LatticeNext]_latticeVars /\ WF_latticeVars(LatticeNext)

-----------------------------------------------------------------------------
Nodes == [from : 0..Len(sentence), begin : 0..Len(sentence), upto : 0..Len(sentence) + 2,
          order : Nat, class : Classes, wcost : Int]

LatticeTypeOK ==
  /\ sentence \in Sentences
  /\ DOMAIN cost \subseteq Nodes /\ cost \in [DOMAIN cost -> Int]
  /\ prev \in [DOMAIN cost \ {Bos} -> DOMAIN cost]
  /\ place \in 0..Len(sentence)
  /\ search \in {"forward", "found", "failed"}
  /\ \A e \in agenda : /\ e.path \in Seq(DOMAIN cost) \ {<<>>}
                       /\ e.fx \in Int /\ e.gx \in Int
  /\ readings \subseteq Seq(DOMAIN cost)

(* Every node but the first was reached from a node that ends where it      *)
(* starts, at its cost, and from no other for less: what connect leaves     *)
(* behind is never outdated by what is connected later.                     *)
CheapestLeft ==
  \A n \in DOMAIN cost \ {Bos} :
    /\ prev[n] \in Lefts(n)
    /\ cost[n] = CostBehind(prev[n], n)
    /\ \A m \in Lefts(n) : cost[n] <= CostBehind(m, n)

\* All ways through the lattice, and what each costs as a whole.
TheEnd == CHOOSE n \in DOMAIN cost : n.upto = Len(sentence) + 2
Ways ==
  LET to[n \in DOMAIN cost] ==
        IF n = Bos THEN {<<n>>} ELSE {Append(w, n) : w \in UNION {to[m] : m \in Lefts(n)}}
  IN to[TheEnd]
WayCost(way) ==
  LET sum[i \in 1..Len(way)] ==
        IF i = 1 THEN 0 ELSE sum[i - 1] + LocalCost(way[i - 1], way[i])
  IN sum[Len(way)]
BestWay ==
  LET to[n \in DOMAIN cost] == IF n = Bos THEN <<n>> ELSE Append(to[prev[n]], n)
  IN to[TheEnd]

(* What the analysis answers, following prev from the end, costs what the   *)
(* end says, and no other way through the lattice costs less.               *)
BestIsLeast ==
  search = "found" =>
    /\ BestWay \in Ways /\ WayCost(BestWay) = cost[TheEnd]
    /\ \A way \in Ways : WayCost(BestWay) <= WayCost(way)

(* No character is lost or read twice: in the answer, and in every further  *)
(* reading, each character that is not blank belongs to one word, and no    *)
(* word reaches behind the sentence.                                        *)
NothingUnread ==
  search = "found" => \A way \in {BestWay} \cup readings :
    LET words == {way[i] : i \in 1..Len(way) - 1}
        Readers(p) == {w \in words : w.begin <= p /\ p < w.upto}
    IN /\ \A w \in words : w.upto <= Len(sentence)
       /\ \A p \in 0..Len(sentence) - 1 :
            IsKindOf(Info[Blank], At(p)) \/ Cardinality(Readers(p)) = 1

(* Readings come cheapest first: none is dearer than one still to come.     *)
CheapestFirst ==
  search = "found" =>
    LET left == Ways \ readings
    IN \A given \in readings, way \in left : WayCost(given) <= WayCost(way)

(* When no more readings come, every way through the lattice was given.     *)
NoneMissing == search = "found" /\ agenda = {} => readings = Ways

(* An analysis ends, with an error or with all its readings.                *)
AnalysisEnds == <>(search = "failed" \/ (search = "found" /\ agenda = {}))

(* The lattice keeps its types and what connect has found: no node is left  *)
(* with a way that is not the cheapest.                                     *)
LatticeSound == LatticeTypeOK /\ CheapestLeft

(* The answer is the cheapest way there is, the readings come in the order  *)
(* of their costs, and none is missing in the end.                          *)
ReadingsInOrder == BestIsLeast /\ CheapestFirst /\ NoneMissing
=================================================================================
