--------------------------- MODULE MecabLattice_proofs ---------------------------
(***************************************************************************)
(* The lattice keeps its types, and to each of its nodes the cheapest way   *)
(* by a node before it, whatever the dictionary, the sentence and the       *)
(* costs.  What connect leaves behind stays right because a node that is    *)
(* connected later ends behind the place it was looked up at, and nothing   *)
(* connected earlier starts there.  No character of the sentence is lost,   *)
(* and the readings come in the order of their costs, none missing.         *)
(***************************************************************************)
EXTENDS MecabLattice, LeastElements, FiniteSetTheorems, SequenceTheorems, TLAPS

-----------------------------------------------------------------------------
(* What lookup finds.                                                      *)

\* Skipping ends somewhere between the place it starts at and the end.
LEMMA SeekStops ==
  ASSUME NEW begin \in Int, NEW end \in Int, begin <= end, NEW c
  PROVE  SeekToOtherType(begin, end, c) \in begin..end
<1> DEFINE Kin(p) == IsKindOf(IF p = begin THEN c ELSE At(p - 1), At(p))
           S == {q \in begin..end : q = end \/ ~Kin(q)}
           P(q) == (q = end \/ ~Kin(q)) /\ \A p \in begin..q - 1 : Kin(p)
<1> HIDE DEF Kin
<1>1. S \in SUBSET (begin..end) /\ S # {}
  BY DEF S
<1>2. PICK m \in S : \A o \in S : m <= o
  <2> HIDE DEF S
  <2> QED BY <1>1, LeastPlace
<1>3. \A p \in begin..m - 1 : Kin(p)
  BY <1>2
<1>4. \E q \in begin..end : P(q)
  BY <1>2, <1>3
<1>5. (CHOOSE q \in begin..end : P(q)) \in begin..end
  BY <1>4
<1> QED BY <1>5 DEF SeekToOtherType, Kin

LEMMA CharacterKnown ==
  ASSUME LatticeAssumption, sentence \in Sentences, NEW p \in 0..Len(sentence) - 1
  PROVE  At(p).default_type \in Kinds
<1>1. sentence \in Seq(Characters) /\ p + 1 \in 1..Len(sentence)
  BY DEF LatticeAssumption
<1>2. sentence[p + 1] \in Characters
  BY <1>1
<1> QED BY <1>2 DEF At, LatticeAssumption

\* Lookup gives finitely many nodes, each from the place it was asked at to
\* one behind it, and at most one place behind the sentence.
LEMMA LookupForward ==
  ASSUME LatticeAssumption, sentence \in Sentences, place \in 0..Len(sentence) - 1
  PROVE  /\ IsFiniteSet(Lookup)
         /\ Lookup \subseteq Nodes
         /\ \A n \in Lookup : /\ n.from = place
                              /\ n.upto \in place + 1..Len(sentence) + 1
<1> DEFINE end == IF Len(sentence) - place >= Horizon THEN place + Horizon ELSE Len(sentence)
           begin2 == SeekToOtherType(place, end, Info[Blank])
           cinfo == At(IF begin2 = end THEN end - 1 ELSE begin2)
           rest == IF begin2 = end THEN Len(sentence) ELSE end
           known == {i \in DOMAIN Dictionary : CommonPrefix(Dictionary[i].surface, begin2, rest)}
           unknown == IF begin2 = end THEN {begin2 + 1} ELSE UnknownEnds(begin2, end)
           upto == IF known # {} /\ ~cinfo.invoke THEN {}
                   ELSE IF known = {} /\ unknown = {} THEN {begin2 + 1}
                   ELSE unknown
           Known(i) == Node(place, begin2, begin2 + Len(Dictionary[i].surface), Dictionary[i], i)
           tokens == Unknown[cinfo.default_type]
           Guess(e, k) == Node(place, begin2, e, tokens[k], Len(Dictionary) + k)
<1>1. Lookup = {Known(i) : i \in known} \cup {Guess(e, k) : e \in upto, k \in DOMAIN tokens}
  BY DEF Lookup
<1>2. Len(sentence) \in Nat /\ Horizon \in Nat \ {0}
  BY DEF LatticeAssumption
<1>3. end \in place + 1..Len(sentence)
  BY <1>2
<1> HIDE DEF end
<1>4. begin2 \in place..end
  BY <1>2, <1>3, SeekStops
<1>5. cinfo.default_type \in Kinds
  <2>1. (IF begin2 = end THEN end - 1 ELSE begin2) \in 0..Len(sentence) - 1
    BY <1>2, <1>3, <1>4, SMTT(30)
  <2> QED BY <2>1, CharacterKnown
<1> HIDE DEF begin2, cinfo
<1>a. /\ begin2 \in Int /\ end \in Int /\ place \in Int /\ 0 <= place /\ place <= begin2
      /\ begin2 <= end /\ end <= Len(sentence) /\ place < Len(sentence)
  BY <1>2, <1>3, <1>4
<1>b. rest \in Int /\ rest <= Len(sentence)
  BY <1>2, <1>a
<1> HIDE DEF rest
<1>6. \A e \in unknown : e = begin2 + 1 \/ e \in begin2 + 1..end
  BY DEF UnknownEnds
<1>7. upto \subseteq begin2 + 1..Len(sentence) + 1 /\ IsFiniteSet(upto)
  <2>1. upto \subseteq begin2 + 1..Len(sentence) + 1
    <3>1. unknown \subseteq begin2 + 1..Len(sentence) + 1
      <4> HIDE DEF unknown
      <4> QED BY <1>2, <1>a, <1>6
    <3>2. begin2 + 1 \in begin2 + 1..Len(sentence) + 1
      BY <1>2, <1>a
    <3> HIDE DEF unknown, known
    <3> QED BY <3>1, <3>2
  <2> HIDE DEF upto
  <2>2. IsFiniteSet(begin2 + 1..Len(sentence) + 1)
    BY <1>2, <1>3, <1>4, FS_Interval
  <2> QED BY <2>1, <2>2, FS_Subset
<1> HIDE DEF upto, unknown
<1>8. Dictionary \in Seq(Entries(Seq(Characters) \ {<<>>}))
  BY DEF LatticeAssumption
<1>9. tokens \in Seq(Entries({<<>>})) /\ DOMAIN tokens = 1..Len(tokens) /\ Len(tokens) \in Nat
  BY <1>5 DEF LatticeAssumption
<1> HIDE DEF tokens
<1>10. ASSUME NEW i \in known
       PROVE  /\ Known(i) \in Nodes /\ Known(i).from = place
              /\ Known(i).upto \in place + 1..Len(sentence) + 1
  <2>1. /\ i \in Nat /\ i \in DOMAIN Dictionary
        /\ Dictionary[i] \in Entries(Seq(Characters) \ {<<>>})
    BY <1>8
  <2> DEFINE d == Dictionary[i]
  <2>2. d.surface \in Seq(Characters) /\ d.surface # <<>> /\ d.class \in Classes /\ d.wcost \in Int
    BY <2>1 DEF Entries
  <2>3. CommonPrefix(d.surface, begin2, rest)
    BY <2>1
  <2> HIDE DEF d
  <2>4. Len(d.surface) \in Nat \ {0}
    BY <2>2, SMTT(30)
  <2>5. begin2 + Len(d.surface) <= rest
    BY <2>3 DEF CommonPrefix
  <2>6. begin2 \in 0..Len(sentence) /\ place \in 0..Len(sentence)
    BY <1>2, <1>3, <1>4, SMTT(30)
  <2>7. begin2 + Len(d.surface) \in place + 1..Len(sentence) + 1
    <3> DEFINE size == Len(d.surface)
    <3>1. size \in Nat /\ size > 0 /\ begin2 + size <= rest
      BY <2>4, <2>5
    <3> HIDE DEF size
    <3>2. begin2 + size \in place + 1..Len(sentence) + 1
      BY <1>2, <1>a, <1>b, <3>1, SMTT(30)
    <3> QED BY <3>2 DEF size
  <2>8. begin2 + Len(d.surface) \in 0..Len(sentence) + 2
    BY <1>2, <2>7, SMTT(30)
  <2>9. Known(i) = Node(place, begin2, begin2 + Len(d.surface), d, i)
    BY DEF d
  <2> HIDE DEF Known
  <2> QED BY <2>1, <2>2, <2>6, <2>7, <2>8, <2>9 DEF Node, Nodes
<1>11. ASSUME NEW e \in upto, NEW k \in DOMAIN tokens
       PROVE  /\ Guess(e, k) \in Nodes /\ Guess(e, k).from = place
              /\ Guess(e, k).upto \in place + 1..Len(sentence) + 1
  <2>1. tokens[k] \in Entries({<<>>}) /\ k \in Nat
    BY <1>9
  <2>2. tokens[k].class \in Classes /\ tokens[k].wcost \in Int
    BY <2>1 DEF Entries
  <2>3. e \in place + 1..Len(sentence) + 1
    BY <1>2, <1>3, <1>4, <1>7
  <2>4. e \in 0..Len(sentence) + 2 /\ begin2 \in 0..Len(sentence) /\ place \in 0..Len(sentence)
    BY <1>2, <1>3, <1>4, <2>3, SMTT(30)
  <2>5. Len(Dictionary) + k \in Nat
    BY <1>8, <2>1
  <2> QED BY <2>2, <2>3, <2>4, <2>5 DEF Node, Nodes
<1>12. IsFiniteSet({Known(i) : i \in known})
  <2>1. IsFiniteSet(known)
    <3>1. known \subseteq 1..Len(Dictionary) /\ Len(Dictionary) \in Nat
      BY <1>8
    <3> HIDE DEF known
    <3>2. IsFiniteSet(1..Len(Dictionary))
      BY <3>1, FS_Interval
    <3> QED BY <3>1, <3>2, FS_Subset
  <2> DEFINE image == {Known(i) : i \in known}
             f == [i \in known |-> Known(i)]
  <2>2. f \in Surjection(known, image)
    BY DEF Surjection
  <2> HIDE DEF f, image, known, Known
  <2>3. IsFiniteSet(image)
    BY <2>1, <2>2, FS_Surjection
  <2> QED BY <2>3 DEF image
<1>13. IsFiniteSet({Guess(e, k) : e \in upto, k \in DOMAIN tokens})
  <2>1. IsFiniteSet(DOMAIN tokens)
    BY <1>9, FS_Interval
  <2> DEFINE pairs == upto \X DOMAIN tokens
             image == {Guess(e, k) : e \in upto, k \in DOMAIN tokens}
             f == [q \in pairs |-> Guess(q[1], q[2])]
  <2>2. IsFiniteSet(pairs)
    BY <1>7, <2>1, FS_Product
  <2>3. f \in Surjection(pairs, image)
    <3>1. f \in [pairs -> image]
      OBVIOUS
    <3>2. ASSUME NEW t \in image PROVE \E q \in pairs : f[q] = t
      <4>1. PICK e \in upto, k \in DOMAIN tokens : t = Guess(e, k)
        OBVIOUS
      <4>2. <<e, k>> \in pairs /\ f[<<e, k>>] = t
        BY <4>1
      <4> QED BY <4>2
    <3> HIDE DEF f, image, pairs
    <3> QED BY <3>1, <3>2 DEF Surjection
  <2> HIDE DEF f, image, pairs, Guess
  <2>4. IsFiniteSet(image)
    BY <2>2, <2>3, FS_Surjection
  <2> QED BY <2>4 DEF image
<1> DEFINE words == {Known(i) : i \in known}
           guesses == {Guess(e, k) : e \in upto, k \in DOMAIN tokens}
<1>14. \A n \in words \cup guesses : /\ n \in Nodes /\ n.from = place
                                     /\ n.upto \in place + 1..Len(sentence) + 1
  <2> HIDE DEF Known, Guess, known
  <2>1. ASSUME NEW n \in words
        PROVE  n \in Nodes /\ n.from = place /\ n.upto \in place + 1..Len(sentence) + 1
    <3>1. PICK i \in known : n = Known(i)
      OBVIOUS
    <3> QED BY <1>10, <3>1
  <2>2. ASSUME NEW n \in guesses
        PROVE  n \in Nodes /\ n.from = place /\ n.upto \in place + 1..Len(sentence) + 1
    <3>1. PICK e \in upto, k \in DOMAIN tokens : n = Guess(e, k)
      OBVIOUS
    <3> QED BY <1>11, <3>1, SMTT(30)
  <2> HIDE DEF words, guesses
  <2> QED BY <2>1, <2>2
<1>15. Lookup = words \cup guesses /\ IsFiniteSet(words) /\ IsFiniteSet(guesses)
  BY <1>1, <1>12, <1>13
<1> HIDE DEF words, guesses
<1>16. IsFiniteSet(Lookup)
  BY <1>15, FS_Union
<1> QED BY <1>14, <1>15, <1>16

-----------------------------------------------------------------------------
(* The first of the cheapest nodes to the left.                            *)

\* What connecting needs to know of the nodes there are.
Priced == /\ DOMAIN cost \subseteq Nodes /\ cost \in [DOMAIN cost -> Int]
          /\ IsFiniteSet(DOMAIN cost)

LEMMA StepCost ==
  ASSUME LatticeAssumption, Priced, NEW n \in Nodes, NEW m \in DOMAIN cost
  PROVE  LocalCost(m, n) \in Int /\ CostBehind(m, n) \in Int
<1>1. m.class \in Classes /\ n.class \in Classes /\ n.wcost \in Int /\ cost[m] \in Int
  BY DEF Priced, Nodes
<1>2. Connection[m.class][n.class] \in Int
  BY <1>1 DEF LatticeAssumption
<1>3. LocalCost(m, n) \in Int
  <2> DEFINE matrix == Connection[m.class][n.class]
             word == n.wcost
  <2>1. matrix \in Int /\ word \in Int
    BY <1>1, <1>2
  <2>2. matrix + word \in Int
    <3> HIDE DEF matrix, word
    <3> QED BY <2>1
  <2> QED BY <2>2 DEF LocalCost
<1>4. cost[m] + LocalCost(m, n) \in Int
  BY <1>1, <1>3
<1> QED BY <1>3, <1>4 DEF CostBehind

\* BestLeft is one of the nodes to the left, and no other costs less.
LEMMA BestLeftIsBest ==
  ASSUME LatticeAssumption, Priced, NEW n \in Nodes, Affordable(n) # {}
  PROVE  /\ BestLeft(n) \in Lefts(n)
         /\ CostBehind(BestLeft(n), n) \in Int
         /\ \A m \in Lefts(n) : CostBehind(BestLeft(n), n) <= CostBehind(m, n)
<1> DEFINE S == Affordable(n)
           First(m, o) ==
             \/ CostBehind(m, n) < CostBehind(o, n)
             \/ /\ CostBehind(m, n) = CostBehind(o, n)
                /\ m.from > o.from \/ (m.from = o.from /\ m.order <= o.order)
           R == {r \in S \X S : First(r[1], r[2])}
<1>1. S \subseteq DOMAIN cost /\ S \subseteq Lefts(n) /\ IsFiniteSet(S)
  <2>1. S \subseteq DOMAIN cost /\ S \subseteq Lefts(n)
    BY DEF Affordable, Lefts, EndingAt
  <2> HIDE DEF S
  <2> QED BY <2>1, FS_Subset DEF Priced
<1>2. ASSUME NEW m \in S
      PROVE  /\ CostBehind(m, n) \in Int /\ CostBehind(m, n) < CostLimit
             /\ m.from \in Int /\ m.order \in Int
  <2>1. m \in DOMAIN cost /\ m \in Nodes
    BY <1>1 DEF Priced
  <2>2. CostBehind(m, n) \in Int
    BY <2>1, StepCost
  <2>3. m.from \in Int /\ m.order \in Int
    BY <2>1 DEF Nodes
  <2> QED BY <2>2, <2>3 DEF Affordable
<1>3. \A m, o \in S : <<m, o>> \in R <=> First(m, o)
  <2> HIDE DEF S, First
  <2> QED OBVIOUS
<1> HIDE DEF R
<1>4. ASSUME NEW x \in S, NEW y \in S
      PROVE  <<x, y>> \in R \/ <<y, x>> \in R
  <2>1. First(x, y) \/ First(y, x)
    <3> HIDE DEF S
    <3> QED BY <1>2
  <2> QED BY <1>3, <2>1
<1>5. ASSUME NEW x \in S, NEW y \in S, NEW z \in S, <<x, y>> \in R, <<y, z>> \in R
      PROVE  <<x, z>> \in R
  <2>1. First(x, y) /\ First(y, z)
    BY <1>3, <1>5
  <2>2. First(x, z)
    <3> HIDE DEF S
    <3> QED BY <1>2, <2>1
  <2> QED BY <1>3, <2>2
<1>6. \E m \in S : \A o \in S : <<m, o>> \in R
  <2>1. S # {}
    OBVIOUS
  <2> HIDE DEF S
  <2> QED BY <1>1, <1>4, <1>5, <2>1, FirstExists
<1>7. \E m \in S : \A o \in S : First(m, o)
  BY <1>3, <1>6
<1>8. BestLeft(n) \in S /\ \A o \in S : First(BestLeft(n), o)
  BY <1>7 DEF BestLeft
<1> DEFINE best == BestLeft(n)
<1>9. best \in S /\ \A o \in S : First(best, o)
  BY <1>8
<1> HIDE DEF best
<1>10. ASSUME NEW m \in Lefts(n)
       PROVE  CostBehind(best, n) <= CostBehind(m, n)
  <2>1. m \in DOMAIN cost
    BY DEF Lefts, EndingAt
  <2>2. CostBehind(m, n) \in Int /\ CostBehind(best, n) \in Int /\ CostBehind(best, n) < CostLimit
    BY <1>2, <1>9, <2>1, StepCost
  <2>3. CASE m \in S
    <3>1. First(best, m)
      BY <1>9, <2>3
    <3> QED BY <2>2, <3>1
  <2>4. CASE m \notin S
    <3>1. ~(CostBehind(m, n) < CostLimit)
      BY <2>4 DEF Affordable
    <3> QED BY <2>2, <3>1 DEF LatticeAssumption
  <2> QED BY <2>3, <2>4
<1>11. best \in Lefts(n) /\ CostBehind(best, n) \in Int
  BY <1>1, <1>2, <1>9
<1> QED BY <1>10, <1>11 DEF best

-----------------------------------------------------------------------------
(* Connecting nodes that end where no node starts, known or new, keeps the  *)
(* types and the cheapest way to each node.                                 *)
Reached == prev \in [DOMAIN cost \ {Bos} -> DOMAIN cost]

LEMMA ConnectKeeps ==
  ASSUME LatticeAssumption, Priced, Reached, CheapestLeft, Bos \in DOMAIN cost,
         sentence' = sentence,
         NEW list, IsFiniteSet(list), list \subseteq Nodes, list \cap DOMAIN cost = {},
         \A m \in list, n \in DOMAIN cost \cup list : m.upto # n.from,
         Connect(list)
  PROVE  DOMAIN cost' = DOMAIN cost \cup list /\ Priced' /\ Reached' /\ CheapestLeft'
<1> DEFINE old == DOMAIN cost
<1>1. \A n \in list : Affordable(n) # {}
  BY DEF Connect
<1>2. /\ cost' = [n \in old \cup list |-> IF n \in list THEN CostBehind(BestLeft(n), n) ELSE cost[n]]
      /\ prev' = [n \in DOMAIN prev \cup list |-> IF n \in list THEN BestLeft(n) ELSE prev[n]]
  BY DEF Connect
<1>3. DOMAIN cost' = old \cup list /\ DOMAIN prev = old \ {Bos}
  BY <1>2 DEF Reached
<1>4. DOMAIN prev' = DOMAIN cost' \ {Bos}
  <2>1. DOMAIN prev' = (old \ {Bos}) \cup list
    BY <1>2, <1>3
  <2> QED BY <1>3, <2>1
<1>5. ASSUME NEW n \in list
      PROVE  /\ cost'[n] = CostBehind(BestLeft(n), n) /\ cost'[n] \in Int
             /\ prev'[n] = BestLeft(n) /\ prev'[n] \in Lefts(n)
             /\ \A m \in Lefts(n) : cost'[n] <= CostBehind(m, n)
  <2>1. /\ BestLeft(n) \in Lefts(n) /\ CostBehind(BestLeft(n), n) \in Int
        /\ \A m \in Lefts(n) : CostBehind(BestLeft(n), n) <= CostBehind(m, n)
    BY <1>1, BestLeftIsBest
  <2>2. cost'[n] = CostBehind(BestLeft(n), n) /\ prev'[n] = BestLeft(n)
    BY <1>2
  <2> QED BY <2>1, <2>2
<1>6. ASSUME NEW n \in old
      PROVE  cost'[n] = cost[n] /\ cost'[n] \in Int /\ (n # Bos => prev'[n] = prev[n])
  <2>1. n \notin list /\ n \in old \cup list /\ (n # Bos => n \in DOMAIN prev \cup list)
    BY <1>3
  <2>2. cost'[n] = cost[n] /\ (n # Bos => prev'[n] = prev[n])
    BY <1>2, <2>1
  <2>3. cost[n] \in Int
    BY DEF Priced
  <2> QED BY <2>2, <2>3
<1>7. ASSUME NEW n \in DOMAIN cost'
      PROVE  Lefts(n)' = Lefts(n) /\ Lefts(n) \subseteq old
  BY <1>3 DEF Lefts, EndingAt
<1>9. Priced'
  <2>1. old \cup list \subseteq Nodes /\ Nodes' = Nodes
    BY DEF Priced, Nodes
  <2>2. cost' \in [DOMAIN cost' -> Int]
    <3>1. \A n \in DOMAIN cost' : cost'[n] \in Int
      BY <1>3, <1>5, <1>6
    <3>2. cost' = [n \in DOMAIN cost' |-> cost'[n]]
      BY <1>2
    <3> QED BY <3>1, <3>2
  <2>3. IsFiniteSet(old \cup list)
    BY FS_Union DEF Priced
  <2> QED BY <1>3, <2>1, <2>2, <2>3 DEF Priced
<1>10. ASSUME NEW n \in DOMAIN cost', n # Bos
       PROVE  /\ prev'[n] \in Lefts(n)
              /\ cost'[n] = CostBehind(prev'[n], n)
              /\ \A m \in Lefts(n) : cost'[n] <= CostBehind(m, n)
  <2>1. CASE n \in list
    BY <1>5, <2>1
  <2>2. CASE n \in old
    <3>1. /\ prev[n] \in Lefts(n) /\ cost[n] = CostBehind(prev[n], n)
          /\ \A m \in Lefts(n) : cost[n] <= CostBehind(m, n)
      BY <1>10, <2>2 DEF CheapestLeft
    <3> QED BY <1>6, <1>10, <2>2, <3>1
  <2> QED BY <1>3, <2>1, <2>2
<1>11. Reached'
  <2>1. \A n \in DOMAIN cost' \ {Bos} : prev'[n] \in DOMAIN cost'
    BY <1>3, <1>7, <1>10
  <2>2. prev' = [n \in DOMAIN prev' |-> prev'[n]]
    BY <1>2
  <2> QED BY <1>4, <2>1, <2>2 DEF Reached
<1>12. ASSUME NEW n \in DOMAIN cost', n # Bos
       PROVE  (/\ prev[n] \in Lefts(n)
               /\ cost[n] = CostBehind(prev[n], n)
               /\ \A m \in Lefts(n) : cost[n] <= CostBehind(m, n))'
  <2>1. \A m \in Lefts(n) : cost'[m] + LocalCost(m, n) = CostBehind(m, n)
    BY <1>6, <1>7, <1>12 DEF CostBehind
  <2> QED BY <1>7, <1>10, <1>12, <2>1 DEF CostBehind, LocalCost
<1>13. CheapestLeft'
  BY <1>12 DEF CheapestLeft
<1> QED BY <1>3, <1>9, <1>11, <1>13

-----------------------------------------------------------------------------
(* The invariant.  While the analysis goes forward every node starts before *)
(* pos, so a node looked up at pos, which ends behind it, is to the left of *)
(* none of them.                                                            *)
Forward ==
  /\ agenda = {} /\ readings = {}
  /\ \A n \in DOMAIN cost \ {Bos} : n.from < place /\ n.upto <= Len(sentence) + 1

LatticeInv ==
  /\ LatticeTypeOK /\ CheapestLeft /\ IsFiniteSet(DOMAIN cost)
  /\ search # "failed" => Bos \in DOMAIN cost
  /\ search = "failed" => DOMAIN cost = {} /\ agenda = {}
  /\ search = "forward" => Forward

LEMMA NothingToReach == DOMAIN <<>> = {} /\ \A S : <<>> \in [{} -> S]
OBVIOUS

LEMMA BosIsNode ==
  ASSUME LatticeAssumption, sentence \in Sentences
  PROVE  /\ Bos \in Nodes /\ Bos.from = 0 /\ Bos.upto = 0 /\ Len(sentence) \in Nat
         /\ \A p \in 0..Len(sentence) :
              /\ Eos(p) \in Nodes /\ Eos(p).from = p /\ Eos(p).upto = Len(sentence) + 2
<1>1. Len(sentence) \in Nat /\ "BOS" \in Classes
  BY DEF LatticeAssumption
<1> DEFINE L == Len(sentence)
<1>2. 0 \in 0..L /\ 0 \in 0..L + 2 /\ L \in 0..L /\ L + 2 \in 0..L + 2
  BY <1>1
<1> QED BY <1>1, <1>2 DEF Bos, Eos, BosEos, Node, Nodes

LEMMA LatticeStart == LatticeAssumption /\ LatticeInit => LatticeInv
<1> SUFFICES ASSUME LatticeAssumption, LatticeInit PROVE LatticeInv
  OBVIOUS
<1>1. /\ sentence \in Sentences /\ cost = [n \in {Bos} |-> 0] /\ prev = <<>>
      /\ place = 0 /\ search = "forward" /\ agenda = {} /\ readings = {}
  BY DEF LatticeInit
<1>2. DOMAIN cost = {Bos} /\ cost \in [DOMAIN cost -> Int]
  BY <1>1
<1>3. DOMAIN cost \ {Bos} = {}
  BY <1>2
<1>4. prev \in [DOMAIN cost \ {Bos} -> DOMAIN cost]
  BY <1>1, <1>3, NothingToReach
<1>5. Bos \in Nodes /\ place \in 0..Len(sentence)
  BY <1>1, BosIsNode
<1>6. LatticeTypeOK
  BY <1>1, <1>2, <1>4, <1>5 DEF LatticeTypeOK
<1>7. CheapestLeft /\ IsFiniteSet(DOMAIN cost) /\ Forward
  BY <1>1, <1>2, <1>3, FS_Singleton DEF CheapestLeft, Forward
<1> QED BY <1>1, <1>2, <1>6, <1>7 DEF LatticeInv

LEMMA TooLongKeeps ==
  ASSUME LatticeInv, UNCHANGED <<sentence, place, readings>>, search = "forward",
         NEW list, TooLong(list)
  PROVE  LatticeInv'
<1>1. cost' = <<>> /\ prev' = <<>> /\ search' = "failed" /\ agenda' = {} /\ readings' = {}
  BY DEF TooLong, LatticeInv, Forward
<1>2. DOMAIN cost' = {} /\ DOMAIN cost' \ {Bos} = {}
  BY <1>1, NothingToReach
<1>3. cost' \in [DOMAIN cost' -> Int] /\ prev' \in [DOMAIN cost' \ {Bos} -> DOMAIN cost']
  BY <1>1, <1>2, NothingToReach
<1>4. sentence' \in Sentences /\ place' \in 0..Len(sentence')
  BY DEF LatticeInv, LatticeTypeOK
<1>5. LatticeTypeOK'
  BY <1>1, <1>2, <1>3, <1>4 DEF LatticeTypeOK
<1>6. CheapestLeft'
  BY <1>2 DEF CheapestLeft
<1>7. IsFiniteSet(DOMAIN cost')
  BY <1>2, FS_EmptySet
<1> QED BY <1>1, <1>2, <1>5, <1>6, <1>7 DEF LatticeInv

\* What ConnectKeeps leaves to be said about a step that connects.
LEMMA ConnectedKeeps ==
  ASSUME LatticeAssumption, LatticeInv, search = "forward", sentence' = sentence, readings' = readings,
         NEW list, IsFiniteSet(list), list \subseteq Nodes, list \cap DOMAIN cost = {},
         \A m \in list, n \in DOMAIN cost \cup list : m.upto # n.from,
         Connect(list),
         place' \in 0..Len(sentence), search' \in {"forward", "found"},
         \A e \in agenda' : /\ e.path \in Seq(DOMAIN cost \cup list) \ {<<>>}
                            /\ e.fx \in Int /\ e.gx \in Int,
         search' = "forward" =>
           /\ agenda' = {}
           /\ \A n \in (DOMAIN cost \cup list) \ {Bos} : n.from < place' /\ n.upto <= Len(sentence) + 1
  PROVE  LatticeInv'
<1>1. Priced /\ Reached /\ CheapestLeft /\ Bos \in DOMAIN cost /\ readings = {}
  BY DEF LatticeInv, LatticeTypeOK, Priced, Reached, Forward
<1>2. DOMAIN cost' = DOMAIN cost \cup list /\ Priced' /\ Reached' /\ CheapestLeft'
  BY <1>1, ConnectKeeps
<1>3. sentence' \in Sentences /\ place' \in 0..Len(sentence') /\ readings' = {}
  BY <1>1 DEF LatticeInv, LatticeTypeOK
<1>4. LatticeTypeOK'
  BY <1>2, <1>3 DEF LatticeTypeOK, Priced, Reached
<1>5. Bos \in DOMAIN cost' /\ IsFiniteSet(DOMAIN cost')
  BY <1>1, <1>2 DEF Priced
<1>6. search' = "forward" => Forward'
  BY <1>2, <1>3 DEF Forward
<1> QED BY <1>2, <1>4, <1>5, <1>6 DEF LatticeInv

\* A list of nodes from pos: nothing known or new starts where they end.
LEMMA ExtendKeeps ==
  LatticeAssumption /\ LatticeInv /\ Extend => LatticeInv'
<1> SUFFICES ASSUME LatticeAssumption, LatticeInv, Extend PROVE LatticeInv'
  OBVIOUS
<1>1. search = "forward" /\ place < Len(sentence) /\ UNCHANGED <<sentence, readings>>
  BY DEF Extend
<1>2. CASE TooLong(Lookup) /\ UNCHANGED place
  BY <1>1, <1>2, TooLongKeeps
<1>3. CASE Connect(Lookup) /\ place' = place + 1 /\ UNCHANGED <<search, agenda>>
  <2>1. sentence \in Sentences /\ Len(sentence) \in Nat /\ place \in 0..Len(sentence) - 1
    BY <1>1, BosIsNode DEF LatticeInv, LatticeTypeOK
  <2>2. /\ IsFiniteSet(Lookup) /\ Lookup \subseteq Nodes
        /\ \A m \in Lookup : m.from = place /\ m.upto \in place + 1..Len(sentence) + 1
    BY <2>1, LookupForward
  <2> DEFINE list == Lookup
  <2> HIDE DEF list
  <2>3. agenda = {} /\ \A n \in DOMAIN cost \ {Bos} : n.from < place /\ n.upto <= Len(sentence) + 1
    BY <1>1 DEF LatticeInv, Forward
  <2>4. \A m \in list : m # Bos
    BY <2>1, <2>2, BosIsNode, SMTT(30) DEF list
  <2>5. list \cap DOMAIN cost = {}
    <3> SUFFICES ASSUME NEW m \in list, m \in DOMAIN cost PROVE FALSE
      OBVIOUS
    <3>1. m.from = place /\ m.from < place
      BY <2>2, <2>3, <2>4 DEF list
    <3> QED BY <2>1, <3>1
  <2>6. ASSUME NEW m \in list, NEW n \in DOMAIN cost \cup list
        PROVE  m.upto # n.from
    <3>1. m.upto \in Int /\ m.upto > place
      BY <2>1, <2>2 DEF list
    <3>2. n.from \in Int /\ n.from <= place
      <4>1. CASE n = Bos
        BY <2>1, <4>1, BosIsNode, SMTT(60)
      <4>2. CASE n \in list
        BY <2>1, <2>2, <4>2 DEF list
      <4>3. CASE n \in DOMAIN cost \ {Bos}
        <5>1. n \in Nodes /\ n.from < place
          BY <2>3, <4>3 DEF LatticeInv, LatticeTypeOK
        <5>2. n.from \in Int
          BY <2>1, <5>1 DEF Nodes
        <5> QED BY <2>1, <5>1, <5>2
      <4> QED BY <4>1, <4>2, <4>3
    <3> QED BY <2>1, <3>1, <3>2
  <2>7. ASSUME NEW n \in (DOMAIN cost \cup list) \ {Bos}
        PROVE  n.from < place' /\ n.upto <= Len(sentence) + 1
    <3>1. CASE n \in list
      BY <1>3, <2>1, <2>2, <3>1 DEF list
    <3>2. CASE n \in DOMAIN cost \ {Bos}
      <4>1. n \in Nodes /\ n.from < place /\ n.upto <= Len(sentence) + 1
        BY <2>3, <3>2 DEF LatticeInv, LatticeTypeOK
      <4>2. n.from \in Int
        BY <2>1, <4>1 DEF Nodes
      <4> QED BY <1>3, <2>1, <4>1, <4>2
    <3> QED BY <3>1, <3>2
  <2>8. place' \in 0..Len(sentence) /\ search' = "forward" /\ agenda' = {}
    BY <1>1, <1>3, <2>1, <2>3
  <2>9. Connect(list) /\ IsFiniteSet(list) /\ list \subseteq Nodes
    BY <1>3, <2>2 DEF list
  <2> QED BY <1>1, <2>5, <2>6, <2>7, <2>8, <2>9, ConnectedKeeps
<1> QED BY <1>2, <1>3 DEF Extend

\* The end of the sentence: nothing starts behind it.
LEMMA EndKeeps ==
  LatticeAssumption /\ LatticeInv /\ EndOfSentence => LatticeInv'
<1> SUFFICES ASSUME LatticeAssumption, LatticeInv, EndOfSentence PROVE LatticeInv'
  OBVIOUS
<1>1. search = "forward" /\ UNCHANGED <<sentence, place, readings>>
  BY DEF EndOfSentence
<1>2. PICK last \in 0..Len(sentence) :
        \/ TooLong({Eos(last)})
        \/ /\ Connect({Eos(last)}) /\ search' = "found"
           /\ agenda' = {[path |-> <<Eos(last)>>, fx |-> 0, gx |-> 0]}
  BY DEF EndOfSentence
<1>3. CASE TooLong({Eos(last)})
  BY <1>1, <1>3, TooLongKeeps
<1>4. CASE /\ Connect({Eos(last)}) /\ search' = "found"
           /\ agenda' = {[path |-> <<Eos(last)>>, fx |-> 0, gx |-> 0]}
  <2> DEFINE eos == Eos(last)
             list == {eos}
  <2>1. sentence \in Sentences /\ Len(sentence) \in Nat /\ place \in 0..Len(sentence)
    BY BosIsNode DEF LatticeInv, LatticeTypeOK
  <2>2. eos \in Nodes /\ eos.from = last /\ eos.upto = Len(sentence) + 2
    BY <2>1, BosIsNode
  <2> HIDE DEF eos
  <2>3. ASSUME NEW n \in DOMAIN cost
        PROVE  n.from \in 0..Len(sentence) /\ (n = Bos \/ n.upto <= Len(sentence) + 1)
    <3>1. n \in Nodes
      BY DEF LatticeInv, LatticeTypeOK
    <3> QED BY <1>1, <3>1 DEF LatticeInv, Forward, Nodes
  <2>4. eos \notin DOMAIN cost
    <3> SUFFICES ASSUME eos \in DOMAIN cost PROVE FALSE
      OBVIOUS
    <3>1. eos = Bos \/ eos.upto <= Len(sentence) + 1
      BY <2>3
    <3>2. CASE eos = Bos
      <4>1. eos.upto = 0
        BY <2>1, <3>2, BosIsNode
      <4> QED BY <2>1, <2>2, <4>1
    <3>3. CASE eos.upto <= Len(sentence) + 1
      BY <2>1, <2>2, <3>3
    <3> QED BY <3>1, <3>2, <3>3
  <2>5. ASSUME NEW m \in list, NEW n \in DOMAIN cost \cup list PROVE m.upto # n.from
    <3>1. n.from \in 0..Len(sentence)
      BY <2>2, <2>3
    <3> QED BY <2>1, <2>2, <3>1
  <2>6. ASSUME NEW e \in agenda'
        PROVE  /\ e.path \in Seq(DOMAIN cost \cup list) \ {<<>>}
               /\ e.fx \in Int /\ e.gx \in Int
    <3>1. e = [path |-> <<eos>>, fx |-> 0, gx |-> 0]
      BY <1>4 DEF eos
    <3>2. <<eos>> \in Seq(DOMAIN cost \cup list) /\ <<eos>> # <<>>
      OBVIOUS
    <3> QED BY <3>1, <3>2
  <2>7. IsFiniteSet(list) /\ list \subseteq Nodes /\ list \cap DOMAIN cost = {}
    <3>1. IsFiniteSet(list)
      BY FS_Singleton
    <3>2. list \subseteq Nodes /\ list \cap DOMAIN cost = {}
      BY <2>2, <2>4
    <3> QED BY <3>1, <3>2
  <2>8. Connect(list) /\ place' \in 0..Len(sentence) /\ search' = "found"
    BY <1>1, <1>4, <2>1 DEF eos
  <2> HIDE DEF list
  <2> QED BY <1>1, <2>5, <2>6, <2>7, <2>8, ConnectedKeeps
<1> QED BY <1>2, <1>3, <1>4

LEMMA PassKeeps ==
  LatticeAssumption /\ LatticeInv /\ Pass => LatticeInv'
<1> SUFFICES ASSUME LatticeAssumption, LatticeInv, Pass PROVE LatticeInv'
  OBVIOUS
<1>1. /\ search = "forward" /\ place < Len(sentence) /\ place' = place + 1
      /\ UNCHANGED <<sentence, cost, prev, search, agenda, readings>>
  BY DEF Pass
<1>2. sentence \in Sentences /\ Len(sentence) \in Nat /\ place \in 0..Len(sentence)
  BY BosIsNode DEF LatticeInv, LatticeTypeOK
<1>3. place' \in 0..Len(sentence)
  BY <1>1, <1>2
<1>4. LatticeTypeOK'
  BY <1>1, <1>3 DEF LatticeInv, LatticeTypeOK, Nodes
<1>5. CheapestLeft'
  BY <1>1 DEF LatticeInv, CheapestLeft, Lefts, EndingAt, CostBehind, LocalCost
<1>6. Forward'
  <2>1. ASSUME NEW n \in DOMAIN cost \ {Bos} PROVE n.from < place + 1
    <3>1. n.from < place /\ n \in Nodes
      BY <1>1 DEF LatticeInv, Forward, LatticeTypeOK
    <3>2. n.from \in Int
      BY <1>2, <3>1 DEF Nodes
    <3> QED BY <1>2, <3>1, <3>2
  <2> QED BY <1>1, <2>1 DEF LatticeInv, Forward
<1> QED BY <1>1, <1>4, <1>5, <1>6 DEF LatticeInv

\* Asking for readings changes no node.
LEMMA ReadingKeeps ==
  LatticeAssumption /\ LatticeInv /\ (Give \/ Expand) => LatticeInv'
<1> SUFFICES ASSUME LatticeAssumption, LatticeInv, Give \/ Expand PROVE LatticeInv'
  OBVIOUS
<1>1. UNCHANGED <<sentence, cost, prev, place, search>> /\ agenda # {}
  BY DEF Give, Expand, Tops
<1>2. search = "found"
  BY <1>1 DEF LatticeInv, LatticeTypeOK, Forward
<1>3. CheapestLeft'
  BY <1>1 DEF LatticeInv, CheapestLeft, Lefts, EndingAt, CostBehind, LocalCost
<1>4. \A e \in agenda : e.path \in Seq(DOMAIN cost) \ {<<>>} /\ e.fx \in Int /\ e.gx \in Int
  BY DEF LatticeInv, LatticeTypeOK
<1>5. /\ \A e \in agenda' : e.path \in Seq(DOMAIN cost) \ {<<>>} /\ e.fx \in Int /\ e.gx \in Int
      /\ readings' \subseteq Seq(DOMAIN cost)
  <2>1. CASE Give
    BY <1>4, <2>1 DEF Give, Tops, LatticeInv, LatticeTypeOK
  <2>2. CASE Expand
    <3>1. PICK top \in agenda :
            agenda' = (agenda \ {top}) \cup {Behind(top, m) : m \in Lefts(Head(top.path))}
      BY <2>2 DEF Expand, Tops
    <3>2. Head(top.path) \in DOMAIN cost /\ top.path \in Seq(DOMAIN cost) /\ top.gx \in Int
      BY <1>4
    <3>3. ASSUME NEW m \in Lefts(Head(top.path))
          PROVE  /\ Behind(top, m).path \in Seq(DOMAIN cost) \ {<<>>}
                 /\ Behind(top, m).fx \in Int /\ Behind(top, m).gx \in Int
      <4> DEFINE head == Head(top.path)
      <4>1. m \in DOMAIN cost /\ cost[m] \in Int
        BY DEF Lefts, EndingAt, LatticeInv, LatticeTypeOK
      <4>2. LocalCost(m, head) \in Int
        <5>1. head \in Nodes /\ Priced
          BY <3>2 DEF LatticeInv, LatticeTypeOK, Priced
        <5> QED BY <4>1, <5>1, StepCost
      <4>3. <<m>> \o top.path \in Seq(DOMAIN cost) /\ <<m>> \o top.path # <<>>
        BY <3>2, <4>1
      <4> DEFINE gx == LocalCost(m, head) + top.gx
      <4>4. gx \in Int /\ cost[m] + gx \in Int
        <5> HIDE DEF head
        <5> QED BY <3>2, <4>1, <4>2
      <4>5. Behind(top, m) = [path |-> <<m>> \o top.path, gx |-> gx, fx |-> cost[m] + gx]
        BY DEF Behind
      <4> HIDE DEF gx, head
      <4> QED BY <4>3, <4>4, <4>5
    <3>4. readings' \subseteq Seq(DOMAIN cost)
      BY <2>2 DEF Expand, LatticeInv, LatticeTypeOK
    <3> QED BY <1>4, <3>1, <3>3, <3>4
  <2> QED BY <2>1, <2>2
<1>6. LatticeTypeOK'
  BY <1>1, <1>5 DEF LatticeInv, LatticeTypeOK, Nodes
<1> QED BY <1>1, <1>2, <1>3, <1>6 DEF LatticeInv

LEMMA LatticeStep ==
  LatticeAssumption /\ LatticeInv /\ [LatticeNext]_latticeVars => LatticeInv'
<1> SUFFICES ASSUME LatticeAssumption, LatticeInv, [LatticeNext]_latticeVars PROVE LatticeInv'
  OBVIOUS
<1>1. CASE UNCHANGED latticeVars
  BY <1>1 DEF latticeVars, LatticeInv, LatticeTypeOK, CheapestLeft, Forward, Nodes, Lefts,
              EndingAt, CostBehind, LocalCost
<1> QED BY <1>1, PassKeeps, ExtendKeeps, EndKeeps, ReadingKeeps DEF LatticeNext

LEMMA LatticeInvariant == LatticeSpec => []LatticeInv
<1>1. LatticeInit => LatticeInv
  BY LatticeAssumption, LatticeStart
<1>2. LatticeInv /\ [LatticeNext]_latticeVars => LatticeInv'
  BY LatticeAssumption, LatticeStep
<1> QED BY <1>1, <1>2, PTL DEF LatticeSpec

(* Whatever the dictionary, the sentence and the costs: nodes, costs and    *)
(* the elements of the queue keep their types; no lookup gives a node that  *)
(* ends more than one place behind the sentence.                            *)
THEOREM LatticeTypeCorrect == LatticeSpec => []LatticeTypeOK
<1>1. LatticeInv => LatticeTypeOK
  BY DEF LatticeInv
<1> QED BY <1>1, LatticeInvariant, PTL

(* Every node keeps the cheapest way to it by a node before it, at every    *)
(* step of the analysis and while readings are asked for.                   *)
THEOREM CheapestKept == LatticeSpec => []CheapestLeft
<1>1. LatticeInv => CheapestLeft
  BY DEF LatticeInv
<1> QED BY <1>1, LatticeInvariant, PTL

(* Both together: what Viterbi::viterbi keeps at every step.                *)
THEOREM LatticeIsSound == LatticeSpec => []LatticeSound
<1>1. LatticeInv => LatticeSound
  BY DEF LatticeInv, LatticeSound
<1> QED BY <1>1, LatticeInvariant, PTL

-----------------------------------------------------------------------------
(* What the words of a reading cover.                                      *)

\* The kinds of a blank are only those of blanks: skipping, which compares each
\* character with the one before it, then skips nothing else.
BlanksAlone ==
  \A c \in Characters :
    IsKindOf(Info[Blank], Info[c]) => Info[c].kinds \subseteq Info[Blank].kinds

Skipped(p) == IsKindOf(Info[Blank], At(p))
Blanks(from, upto) == BlanksAlone => \A p \in from..upto - 1 : Skipped(p)

LEMMA SeekSkips ==
  ASSUME LatticeAssumption, sentence \in Sentences,
         NEW begin \in 0..Len(sentence), NEW end \in begin..Len(sentence)
  PROVE  Blanks(begin, SeekToOtherType(begin, end, Info[Blank]))
<1> SUFFICES ASSUME BlanksAlone
             PROVE  \A p \in begin..SeekToOtherType(begin, end, Info[Blank]) - 1 : Skipped(p)
  BY DEF Blanks
<1> DEFINE c == Info[Blank]
           Kin(p) == IsKindOf(IF p = begin THEN c ELSE At(p - 1), At(p))
           S == {q \in begin..end : q = end \/ ~Kin(q)}
           P(q) == (q = end \/ ~Kin(q)) /\ \A p \in begin..q - 1 : Kin(p)
           stop == SeekToOtherType(begin, end, c)
<1>0. /\ sentence \in Seq(Characters) /\ Len(sentence) \in Nat
      /\ begin \in Int /\ end \in Int /\ 0 <= begin /\ begin <= end /\ end <= Len(sentence)
  BY DEF LatticeAssumption
<1>1. stop \in begin..end /\ P(stop)
  <2> HIDE DEF Kin
  <2>1. S \in SUBSET (begin..end) /\ S # {}
    <3>1. end \in begin..end
      BY <1>0
    <3>2. end \in S
      BY <3>1
    <3> QED BY <3>2
  <2>2. PICK m \in S : \A o \in S : m <= o
    <3> HIDE DEF S
    <3> QED BY <1>0, <2>1, LeastPlace
  <2>3. \A p \in begin..m - 1 : Kin(p)
    BY <1>0, <2>2
  <2>4. \E q \in begin..end : P(q)
    BY <2>2, <2>3
  <2>5. stop = CHOOSE q \in begin..end : P(q)
    BY DEF SeekToOtherType, Kin
  <2> QED BY <2>4, <2>5
<1> HIDE DEF stop
<1>2. ASSUME NEW p \in begin..stop - 1 PROVE p \in 0..Len(sentence) - 1 /\ Kin(p)
  BY <1>0, <1>1
<1>3. ASSUME NEW p \in 0..Len(sentence) - 1, Skipped(p)
      PROVE  At(p).kinds \subseteq c.kinds
  <2>1. sentence[p + 1] \in Characters
    BY <1>0
  <2> QED BY <1>3, <2>1 DEF Skipped, At, BlanksAlone
<1> DEFINE Q == {k \in Nat : begin + k < stop => Skipped(begin + k)}
<1>4. Q \in SUBSET Nat /\ 0 \in Q
  <2>1. begin + 0 < stop => Skipped(begin + 0)
    <3> SUFFICES ASSUME begin < stop PROVE Skipped(begin)
      BY <1>0
    <3>1. begin \in begin..stop - 1
      BY <1>0, <1>1
    <3> QED BY <1>2, <3>1 DEF Skipped
  <2> QED BY <2>1
<1>5. ASSUME NEW k \in Q PROVE k + 1 \in Q
  <2> SUFFICES ASSUME begin + (k + 1) < stop PROVE Skipped(begin + (k + 1))
    OBVIOUS
  <2> DEFINE p == begin + k
  <2>1. /\ p \in begin..stop - 1 /\ p + 1 \in begin..stop - 1 /\ p + 1 # begin /\ (p + 1) - 1 = p
        /\ p < stop /\ begin + (k + 1) = p + 1
    BY <1>0, <1>1
  <2>2. Skipped(p)
    BY <2>1
  <2> HIDE DEF p
  <2>3. IsKindOf(At(p), At(p + 1))
    BY <1>2, <2>1
  <2>4. At(p).kinds \subseteq c.kinds
    BY <1>2, <1>3, <2>1, <2>2
  <2>5. Skipped(p + 1)
    BY <2>3, <2>4 DEF IsKindOf, Skipped
  <2> QED BY <2>1, <2>5
<1>6. \A k \in Nat : k \in Q
  <2> HIDE DEF Q
  <2> QED BY <1>4, <1>5, Induction
<1>7. ASSUME NEW p \in begin..stop - 1 PROVE Skipped(p)
  <2>1. p - begin \in Nat /\ begin + (p - begin) = p /\ p < stop
    BY <1>0, <1>1
  <2> QED BY <1>6, <2>1
<1> QED BY <1>7 DEF stop

\* A word that lookup gives begins behind blanks only, and one that ends behind
\* the sentence begins at its end.
IsWord(n) ==
  /\ n.from <= n.begin /\ n.begin < n.upto /\ n.upto <= Len(sentence) + 1
  /\ Blanks(n.from, n.begin)
  /\ n.upto = Len(sentence) + 1 => n.begin = Len(sentence)

LEMMA LookupWords ==
  ASSUME LatticeAssumption, sentence \in Sentences, place \in 0..Len(sentence) - 1
  PROVE  Lookup # {} /\ \A n \in Lookup : IsWord(n)
<1> DEFINE end == IF Len(sentence) - place >= Horizon THEN place + Horizon ELSE Len(sentence)
           begin2 == SeekToOtherType(place, end, Info[Blank])
           cinfo == At(IF begin2 = end THEN end - 1 ELSE begin2)
           rest == IF begin2 = end THEN Len(sentence) ELSE end
           known == {i \in DOMAIN Dictionary : CommonPrefix(Dictionary[i].surface, begin2, rest)}
           unknown == IF begin2 = end THEN {begin2 + 1} ELSE UnknownEnds(begin2, end)
           upto == IF known # {} /\ ~cinfo.invoke THEN {}
                   ELSE IF known = {} /\ unknown = {} THEN {begin2 + 1}
                   ELSE unknown
           Known(i) == Node(place, begin2, begin2 + Len(Dictionary[i].surface), Dictionary[i], i)
           tokens == Unknown[cinfo.default_type]
           Guess(e, k) == Node(place, begin2, e, tokens[k], Len(Dictionary) + k)
           words == {Known(i) : i \in known}
           guesses == {Guess(e, k) : e \in upto, k \in DOMAIN tokens}
<1>1. Lookup = words \cup guesses
  BY DEF Lookup
<1>2. Len(sentence) \in Nat /\ Horizon \in Nat \ {0}
  BY DEF LatticeAssumption
<1>3. end \in place + 1..Len(sentence)
  BY <1>2
<1> HIDE DEF end
<1>4. begin2 \in place..end /\ Blanks(place, begin2)
  <2>1. /\ place \in Int /\ end \in Int /\ place <= end
        /\ place \in 0..Len(sentence) /\ end \in place..Len(sentence)
    BY <1>2, <1>3
  <2> QED BY <2>1, SeekStops, SeekSkips
<1>5. cinfo.default_type \in Kinds
  <2>1. (IF begin2 = end THEN end - 1 ELSE begin2) \in 0..Len(sentence) - 1
    BY <1>2, <1>3, <1>4, SMTT(30)
  <2> QED BY <2>1, CharacterKnown
<1> HIDE DEF begin2, cinfo
<1>6. \A e \in unknown : e = begin2 + 1 \/ e \in begin2 + 1..end
  BY DEF UnknownEnds
<1>7. /\ begin2 \in Int /\ end \in Int /\ place \in Int /\ 0 <= place /\ place <= begin2
      /\ begin2 <= end /\ end <= Len(sentence) /\ place < Len(sentence)
  BY <1>2, <1>3, <1>4
<1>a. rest \in Int /\ rest <= Len(sentence)
  BY <1>2, <1>7
<1> HIDE DEF rest
<1>8. tokens \in Seq(Entries({<<>>})) /\ tokens # <<>>
  BY <1>5 DEF LatticeAssumption
<1>9. 1 \in DOMAIN tokens
  BY <1>8
<1>10. upto # {} \/ known # {}
  <2> HIDE DEF known, unknown
  <2> QED OBVIOUS
<1>11. ASSUME NEW e \in upto
       PROVE  e \in Int /\ begin2 < e /\ e <= Len(sentence) + 1
              /\ (e = Len(sentence) + 1 => begin2 = Len(sentence))
  <2>1. e \in begin2 + 1..end \/ e = begin2 + 1
    <3> HIDE DEF unknown, known
    <3> QED BY <1>6
  <2> HIDE DEF unknown, upto
  <2>2. CASE e \in begin2 + 1..end
    BY <1>2, <1>7, <2>2, SMTT(60)
  <2>3. CASE e = begin2 + 1
    BY <1>2, <1>7, <2>3, SMTT(30)
  <2> QED BY <2>1, <2>2, <2>3
<1>12. ASSUME NEW i \in known PROVE IsWord(Known(i))
  <2>1. Dictionary[i] \in Entries(Seq(Characters) \ {<<>>})
    BY DEF LatticeAssumption
  <2> DEFINE size == Len(Dictionary[i].surface)
  <2>2. Dictionary[i].surface \in Seq(Characters) /\ Dictionary[i].surface # <<>>
    BY <2>1 DEF Entries
  <2>3. size \in Nat \ {0}
    BY <2>2
  <2>4. begin2 + size <= rest
    BY DEF CommonPrefix
  <2>5. Known(i) = Node(place, begin2, begin2 + size, Dictionary[i], i)
    OBVIOUS
  <2> HIDE DEF size, Known, known
  <2>6. /\ Known(i).from = place /\ Known(i).begin = begin2 /\ Known(i).upto = begin2 + size
    BY <2>5 DEF Node
  <2>7. /\ place <= begin2 /\ begin2 < begin2 + size /\ begin2 + size <= Len(sentence)
    BY <1>2, <1>7, <1>a, <2>3, <2>4
  <2>8. begin2 + size \in Int
    BY <1>7, <2>3
  <2> HIDE DEF Blanks
  <2> QED BY <1>2, <1>4, <2>6, <2>7, <2>8, SMTT(30) DEF IsWord
<1>13. ASSUME NEW e \in upto, NEW k \in DOMAIN tokens PROVE IsWord(Guess(e, k))
  <2>1. /\ Guess(e, k).from = place /\ Guess(e, k).begin = begin2 /\ Guess(e, k).upto = e
    BY DEF Node
  <2> HIDE DEF Guess, upto, tokens
  <2> QED BY <1>4, <1>7, <1>11, <2>1 DEF IsWord
<1>14. Lookup # {}
  <2> HIDE DEF known, upto, tokens, Known, Guess
  <2>1. CASE known # {}
    <3>1. PICK i \in known : TRUE
      BY <2>1
    <3>2. Known(i) \in words
      BY <3>1
    <3> HIDE DEF words, guesses
    <3> QED BY <1>1, <3>2
  <2>2. CASE upto # {}
    <3>1. PICK e \in upto : TRUE
      BY <2>2
    <3>2. Guess(e, 1) \in guesses
      BY <1>9, <3>1
    <3> HIDE DEF words, guesses
    <3> QED BY <1>1, <3>2
  <2> QED BY <1>10, <2>1, <2>2
<1>15. ASSUME NEW n \in Lookup PROVE IsWord(n)
  <2> HIDE DEF known, upto, tokens, Known, Guess
  <2>1. (\E i \in known : n = Known(i)) \/ (\E e \in upto, k \in DOMAIN tokens : n = Guess(e, k))
    BY <1>1
  <2> QED BY <1>12, <1>13, <2>1
<1> QED BY <1>14, <1>15

\* The end is connected behind blanks only.
IsEnd(n) ==
  /\ n.from <= Len(sentence) /\ n.begin = Len(sentence) /\ n.upto = Len(sentence) + 2
  /\ Blanks(n.from, Len(sentence))

\* Where a word ends, one starts, until the last place; so nothing but blanks is
\* left behind that.
WordsInv ==
  /\ \A n \in DOMAIN cost \ {Bos} : IsWord(n) \/ (search = "found" /\ IsEnd(n))
  /\ search = "forward" =>
       \A p \in 0..place - 1 : EndingAt(p) # {} => \E n \in DOMAIN cost \ {Bos} : n.from = p
  /\ search = "found" =>
       \E n \in DOMAIN cost \ {Bos} :
         IsEnd(n) /\ \A m \in DOMAIN cost : m.upto = Len(sentence) + 2 => m = n

LEMMA WordsSame ==
  ASSUME sentence' = sentence
  PROVE  \A n : IsWord(n)' = IsWord(n) /\ IsEnd(n)' = IsEnd(n)
BY DEF IsWord, IsEnd, Blanks, Skipped, At

LEMMA WordsStart == LatticeInit => WordsInv
BY DEF LatticeInit, WordsInv

LEMMA WordsExtend ==
  ASSUME LatticeAssumption, LatticeInv, WordsInv, Extend
  PROVE  WordsInv'
<1>1. search = "forward" /\ place < Len(sentence) /\ sentence' = sentence
  BY DEF Extend
<1>2. CASE TooLong(Lookup)
  <2>1. cost' = <<>> /\ search' = "failed"
    BY <1>2 DEF TooLong
  <2>2. DOMAIN cost' = {}
    BY <2>1, NothingToReach
  <2> QED BY <2>1, <2>2 DEF WordsInv
<1>3. CASE Connect(Lookup) /\ place' = place + 1 /\ UNCHANGED <<search, agenda>>
  <2>1. sentence \in Sentences /\ Len(sentence) \in Nat /\ place \in 0..Len(sentence) - 1
    BY <1>1, BosIsNode DEF LatticeInv, LatticeTypeOK
  <2> DEFINE list == Lookup
  <2>2. \A m \in list : m.from = place /\ m.upto \in place + 1..Len(sentence) + 1
    BY <2>1, LookupForward
  <2>3. list # {} /\ \A m \in list : IsWord(m)
    BY <2>1, LookupWords
  <2>4. DOMAIN cost' = DOMAIN cost \cup list /\ search' = "forward" /\ place' = place + 1
    BY <1>1, <1>3 DEF Connect
  <2> HIDE DEF list
  <2>5. \A m \in list : m # Bos
    BY <2>1, <2>2, BosIsNode, SMTT(30)
  <2>6. \A n \in DOMAIN cost' \ {Bos} : IsWord(n)'
    BY <1>1, <2>3, <2>4, WordsSame DEF WordsInv
  <2>7. ASSUME NEW p \in 0..place' - 1, EndingAt(p)' # {}
        PROVE  \E n \in DOMAIN cost' \ {Bos} : n.from = p
    <3>1. p \in 0..place - 1 \/ p = place
      BY <2>1, <2>4
    <3>2. CASE p = place
      BY <2>2, <2>3, <2>4, <2>5, <3>2
    <3>3. CASE p \in 0..place - 1
      <4>1. \A m \in list : m.upto # p
        BY <2>1, <2>2, <3>3
      <4>2. EndingAt(p) # {}
        BY <2>4, <2>7, <4>1 DEF EndingAt
      <4>3. PICK n \in DOMAIN cost \ {Bos} : n.from = p
        BY <1>1, <3>3, <4>2 DEF WordsInv
      <4> QED BY <2>4, <4>3
    <3> QED BY <3>1, <3>2, <3>3
  <2> QED BY <2>4, <2>6, <2>7 DEF WordsInv
<1> QED BY <1>2, <1>3 DEF Extend

LEMMA WordsEnd ==
  ASSUME LatticeAssumption, LatticeInv, WordsInv, EndOfSentence
  PROVE  WordsInv'
<1>1. search = "forward" /\ place = Len(sentence) /\ sentence' = sentence
  BY DEF EndOfSentence
<1>2. PICK last \in 0..Len(sentence) :
        /\ EndingAt(last) # {} /\ \A p \in last + 1..Len(sentence) : EndingAt(p) = {}
        /\ TooLong({Eos(last)}) \/ (Connect({Eos(last)}) /\ search' = "found")
  BY DEF EndOfSentence
<1>3. CASE TooLong({Eos(last)})
  <2>1. cost' = <<>> /\ search' = "failed"
    BY <1>3 DEF TooLong
  <2>2. DOMAIN cost' = {}
    BY <2>1, NothingToReach
  <2> QED BY <2>1, <2>2 DEF WordsInv
<1>4. CASE Connect({Eos(last)}) /\ search' = "found"
  <2> DEFINE eos == Eos(last)
  <2>1. sentence \in Sentences /\ Len(sentence) \in Nat
    BY BosIsNode DEF LatticeInv, LatticeTypeOK
  <2>2. /\ eos.from = last /\ eos.upto = Len(sentence) + 2 /\ eos.begin = Len(sentence)
        /\ Bos.upto = 0
    BY <2>1, BosIsNode DEF Eos, Node
  <2>3. DOMAIN cost' = DOMAIN cost \cup {eos}
    BY <1>4 DEF Connect
  <2> HIDE DEF eos
  <2>4. Blanks(last, Len(sentence))
    <3>1. CASE last = Len(sentence)
      BY <2>1, <3>1 DEF Blanks
    <3>2. CASE last # Len(sentence)
      <4>1. last \in 0..place - 1
        BY <1>1, <2>1, <3>2
      <4>2. PICK n \in DOMAIN cost \ {Bos} : n.from = last
        BY <1>1, <1>2, <4>1 DEF WordsInv
      <4>3. IsWord(n) /\ n \in Nodes
        BY <1>1 DEF WordsInv, LatticeInv, LatticeTypeOK
      <4>4. n.upto \in Int /\ n.begin \in Int
        BY <2>1, <4>3 DEF Nodes
      <4>5. n.upto \notin last + 1..Len(sentence)
        BY <1>2 DEF EndingAt
      <4>6. n.upto = Len(sentence) + 1
        BY <2>1, <4>2, <4>3, <4>4, <4>5 DEF IsWord
      <4> QED BY <4>2, <4>3, <4>6 DEF IsWord
    <3> QED BY <3>1, <3>2
  <2>5. IsEnd(eos)
    BY <2>2, <2>4 DEF IsEnd
  <2>6. eos # Bos
    BY <2>1, <2>2
  <2>7. \A n \in DOMAIN cost \ {Bos} : IsWord(n)
    BY <1>1 DEF WordsInv
  <2>8. ASSUME NEW m \in DOMAIN cost' PROVE m.upto = Len(sentence) + 2 => m = eos
    <3>1. CASE m \in DOMAIN cost \ {Bos}
      <4>1. IsWord(m) /\ m \in Nodes
        BY <2>7, <3>1 DEF LatticeInv, LatticeTypeOK
      <4>2. m.upto \in Int
        BY <2>1, <4>1 DEF Nodes
      <4> QED BY <2>1, <4>1, <4>2 DEF IsWord
    <3> QED BY <2>1, <2>2, <2>3, <3>1
  <2> QED BY <1>1, <1>4, <2>3, <2>5, <2>6, <2>7, <2>8, WordsSame DEF WordsInv
<1> QED BY <1>2, <1>3, <1>4

LEMMA WordsStep ==
  ASSUME LatticeAssumption, LatticeInv, WordsInv, [LatticeNext]_latticeVars
  PROVE  WordsInv'
<1>1. CASE Pass
  <2>1. /\ search = "forward" /\ EndingAt(place) = {} /\ place' = place + 1
        /\ UNCHANGED <<sentence, cost, search>>
    BY <1>1 DEF Pass
  <2>2. place \in Nat
    BY BosIsNode DEF LatticeInv, LatticeTypeOK
  <2>3. \A p : EndingAt(p)' = EndingAt(p)
    BY <2>1 DEF EndingAt
  <2>4. \A p \in 0..place' - 1 : p \in 0..place - 1 \/ p = place
    BY <2>1, <2>2
  <2> QED BY <2>1, <2>3, <2>4, WordsSame DEF WordsInv
<1>2. CASE Give \/ Expand \/ UNCHANGED latticeVars
  <2>1. UNCHANGED <<sentence, cost, search, place>>
    BY <1>2 DEF Give, Expand, latticeVars
  <2>2. \A p : EndingAt(p)' = EndingAt(p)
    BY <2>1 DEF EndingAt
  <2> QED BY <2>1, <2>2, WordsSame DEF WordsInv
<1> QED BY <1>1, <1>2, WordsExtend, WordsEnd DEF LatticeNext

-----------------------------------------------------------------------------
(* Ways, whole or the end of one: each node ends where the next one starts. *)
Chain(w) ==
  /\ w \in Seq(DOMAIN cost) /\ w # <<>>
  /\ \A i \in 2..Len(w) : w[i] # Bos /\ w[i - 1] \in Lefts(w[i])

ToEnd(w) == w[Len(w)].upto = Len(sentence) + 2

ChainsInv ==
  /\ search # "found" => agenda = {} /\ readings = {}
  /\ \A e \in agenda : Chain(e.path) /\ ToEnd(e.path)
  /\ \A w \in readings : Chain(w) /\ ToEnd(w) /\ w[1] = Bos

LEMMA ChainShape ==
  ASSUME NEW S, NEW w \in Seq(S), w # <<>>
  PROVE  /\ Len(w) \in Nat \ {0} /\ 1 \in 1..Len(w) /\ Len(w) \in 1..Len(w)
         /\ Head(w) = w[1] /\ \A i \in 1..Len(w) : w[i] \in S
OBVIOUS

LEMMA Prepended ==
  ASSUME NEW S, NEW w \in Seq(S), NEW m \in S
  PROVE  /\ <<m>> \o w \in Seq(S) /\ <<m>> \o w # <<>> /\ Len(<<m>> \o w) = Len(w) + 1
         /\ (<<m>> \o w)[1] = m /\ \A i \in 1..Len(w) : (<<m>> \o w)[i + 1] = w[i]
OBVIOUS

LEMMA ChainLonger ==
  ASSUME NEW w, Chain(w), w[1] # Bos, NEW m \in Lefts(w[1])
  PROVE  /\ Chain(<<m>> \o w) /\ (<<m>> \o w)[1] = m
         /\ ToEnd(w) => ToEnd(<<m>> \o w)
<1> DEFINE v == <<m>> \o w
<1>1. w \in Seq(DOMAIN cost) /\ w # <<>> /\ Len(w) \in Nat \ {0} /\ m \in DOMAIN cost
  BY ChainShape DEF Chain, Lefts, EndingAt
<1>2. /\ v \in Seq(DOMAIN cost) /\ v # <<>> /\ Len(v) = Len(w) + 1
      /\ v[1] = m /\ \A i \in 1..Len(w) : v[i + 1] = w[i]
  BY <1>1, Prepended
<1> HIDE DEF v
<1>3. ASSUME NEW i \in 2..Len(v) PROVE v[i] # Bos /\ v[i - 1] \in Lefts(v[i])
  <2>1. i - 1 \in 1..Len(w) /\ (i - 1) + 1 = i
    BY <1>1, <1>2
  <2>2. v[i] = w[i - 1]
    BY <1>2, <2>1
  <2>3. CASE i = 2
    BY <1>2, <2>2, <2>3
  <2>4. CASE i # 2
    <3>1. i - 1 \in 2..Len(w) /\ (i - 1) - 1 \in 1..Len(w) /\ ((i - 1) - 1) + 1 = i - 1
      BY <1>1, <1>2, <2>4
    <3>2. v[i - 1] = w[(i - 1) - 1]
      BY <1>2, <3>1
    <3> QED BY <2>2, <3>1, <3>2 DEF Chain
  <2> QED BY <2>3, <2>4
<1>4. v[Len(v)] = w[Len(w)]
  BY <1>1, <1>2, ChainShape
<1> QED BY <1>2, <1>3, <1>4 DEF Chain, ToEnd, v

LEMMA ChainsSame ==
  ASSUME sentence' = sentence, cost' = cost
  PROVE  \A w : Chain(w)' = Chain(w) /\ ToEnd(w)' = ToEnd(w)
BY DEF Chain, ToEnd, Lefts, EndingAt

LEMMA ChainsStep ==
  ASSUME LatticeAssumption, LatticeInv, ChainsInv, [LatticeNext]_latticeVars
  PROVE  ChainsInv'
<1>1. CASE Pass \/ UNCHANGED latticeVars
  <2>1. UNCHANGED <<sentence, cost, search, agenda, readings>>
    BY <1>1 DEF Pass, latticeVars
  <2> QED BY <2>1, ChainsSame DEF ChainsInv
<1>2. CASE Extend
  <2>1. agenda = {} /\ readings = {} /\ readings' = readings /\ agenda' = {} /\ search' # "found"
    BY <1>2 DEF Extend, TooLong, ChainsInv
  <2> QED BY <2>1 DEF ChainsInv
<1>3. CASE EndOfSentence
  <2>1. search = "forward" /\ readings' = readings /\ sentence' = sentence
    BY <1>3 DEF EndOfSentence
  <2>2. readings = {}
    BY <2>1 DEF ChainsInv
  <2>3. PICK last \in 0..Len(sentence) :
          \/ TooLong({Eos(last)})
          \/ /\ Connect({Eos(last)}) /\ search' = "found"
             /\ agenda' = {[path |-> <<Eos(last)>>, fx |-> 0, gx |-> 0]}
    BY <1>3 DEF EndOfSentence
  <2>4. CASE TooLong({Eos(last)})
    BY <2>1, <2>2, <2>4 DEF TooLong, ChainsInv
  <2>5. CASE /\ Connect({Eos(last)}) /\ search' = "found"
             /\ agenda' = {[path |-> <<Eos(last)>>, fx |-> 0, gx |-> 0]}
    <3>0. PICK eos : eos = Eos(last)
      OBVIOUS
    <3>1. eos \in DOMAIN cost' /\ eos.upto = Len(sentence) + 2
      BY <2>5, <3>0, BosIsNode DEF Connect, LatticeInv, LatticeTypeOK
    <3>2. PICK w : w = <<eos>>
      OBVIOUS
    <3>3. w \in Seq(DOMAIN cost') /\ w # <<>> /\ Len(w) = 1 /\ w[1] = eos /\ 2..1 = {}
      BY <3>1, <3>2
    <3>4. Chain(w)' /\ ToEnd(w)'
      BY <2>1, <3>1, <3>3 DEF Chain, ToEnd
    <3>5. \A e \in agenda' : e.path = w
      BY <2>5, <3>0, <3>2
    <3> QED BY <2>1, <2>2, <2>5, <3>4, <3>5 DEF ChainsInv
  <2> QED BY <2>3, <2>4, <2>5
<1>4. CASE Give
  <2>1. PICK top \in agenda :
          /\ Head(top.path) = Bos /\ readings' = readings \cup {top.path}
          /\ agenda' = agenda \ {top}
    BY <1>4 DEF Give, Tops
  <2>2. UNCHANGED <<sentence, cost, search>>
    BY <1>4 DEF Give
  <2>3. Chain(top.path) /\ ToEnd(top.path) /\ top.path[1] = Bos
    BY <2>1, ChainShape DEF ChainsInv, Chain
  <2> QED BY <2>1, <2>2, <2>3, ChainsSame DEF ChainsInv
<1>5. CASE Expand
  <2>1. PICK top \in agenda :
          /\ Head(top.path) # Bos
          /\ agenda' = (agenda \ {top}) \cup {Behind(top, m) : m \in Lefts(Head(top.path))}
    BY <1>5 DEF Expand, Tops
  <2>2. UNCHANGED <<sentence, cost, search, readings>>
    BY <1>5 DEF Expand
  <2>3. Chain(top.path) /\ ToEnd(top.path) /\ top.path[1] = Head(top.path)
    BY <2>1, ChainShape DEF ChainsInv, Chain
  <2>4. ASSUME NEW m \in Lefts(Head(top.path))
        PROVE  Chain(Behind(top, m).path) /\ ToEnd(Behind(top, m).path)
    <3>1. Behind(top, m).path = <<m>> \o top.path
      BY DEF Behind
    <3> QED BY <2>1, <2>3, <3>1, ChainLonger
  <2> QED BY <2>1, <2>2, <2>4, ChainsSame DEF ChainsInv
<1> QED BY <1>1, <1>2, <1>3, <1>4, <1>5 DEF LatticeNext

\* Along a way nodes end ever later.
LEMMA ChainForward ==
  ASSUME LatticeAssumption, LatticeInv, WordsInv, search = "found", NEW w, Chain(w)
  PROVE  /\ \A i \in 1..Len(w) : w[i] \in Nodes /\ w[i].from \in Int /\ w[i].begin \in Int
                                /\ w[i].upto \in Int
         /\ \A i \in 2..Len(w) :
              /\ w[i].from = w[i - 1].upto /\ w[i].from <= w[i].begin /\ w[i].from < w[i].upto
              /\ IsWord(w[i]) \/ IsEnd(w[i])
         /\ \A i \in 1..Len(w) : \A j \in 1..Len(w) : i < j => w[i].upto <= w[j].from
<1>1. w \in Seq(DOMAIN cost) /\ DOMAIN cost \subseteq Nodes /\ Len(w) \in Nat
      /\ Len(sentence) \in Nat
  BY BosIsNode DEF Chain, LatticeInv, LatticeTypeOK
<1>2. ASSUME NEW i \in 1..Len(w)
      PROVE  /\ w[i] \in Nodes /\ w[i] \in DOMAIN cost
             /\ w[i].from \in 0..Len(sentence) /\ w[i].begin \in Int /\ w[i].upto \in Int
  <2>1. w[i] \in DOMAIN cost /\ w[i] \in Nodes
    BY <1>1
  <2>2. /\ w[i].from \in 0..Len(sentence) /\ w[i].begin \in 0..Len(sentence)
        /\ w[i].upto \in 0..Len(sentence) + 2
    BY <2>1 DEF Nodes
  <2> QED BY <1>1, <2>1, <2>2
<1>3. ASSUME NEW i \in 2..Len(w)
      PROVE  /\ w[i].from = w[i - 1].upto /\ w[i].from <= w[i].begin /\ w[i].from < w[i].upto
             /\ IsWord(w[i]) \/ IsEnd(w[i])
  <2>1. i \in 1..Len(w) /\ w[i] # Bos /\ w[i - 1] \in Lefts(w[i])
    BY <1>1 DEF Chain
  <2>2. w[i].from = w[i - 1].upto
    BY <2>1 DEF Lefts, EndingAt
  <2>3. IsWord(w[i]) \/ IsEnd(w[i])
    BY <1>2, <2>1 DEF WordsInv
  <2>4. /\ w[i].from \in Int /\ w[i].begin \in Int /\ w[i].upto \in Int
        /\ w[i].from <= Len(sentence)
    BY <1>1, <1>2, <2>1
  <2>5. w[i].from <= w[i].begin /\ w[i].from < w[i].upto
    BY <1>1, <2>3, <2>4, SMTT(60) DEF IsWord, IsEnd
  <2> QED BY <2>2, <2>3, <2>5
<1> DEFINE P == {k \in Nat : \A i, j \in 1..Len(w) : j = i + (k + 1) => w[i].upto <= w[j].from}
<1>4. P \in SUBSET Nat /\ 0 \in P
  <2>1. ASSUME NEW i \in 1..Len(w), NEW j \in 1..Len(w), j = i + (0 + 1)
        PROVE  w[i].upto <= w[j].from
    <3>1. j \in 2..Len(w) /\ j - 1 = i
      BY <2>1
    <3>2. w[j].from = w[i].upto /\ w[i].upto \in Int
      BY <1>2, <1>3, <3>1
    <3> QED BY <3>2
  <2> QED BY <2>1
<1>5. ASSUME NEW k \in P PROVE k + 1 \in P
  <2> SUFFICES ASSUME NEW i \in 1..Len(w), NEW j \in 1..Len(w), j = i + ((k + 1) + 1)
               PROVE  w[i].upto <= w[j].from
    OBVIOUS
  <2>1. /\ j - 1 \in 1..Len(w) /\ j \in 2..Len(w) /\ j - 1 = i + (k + 1) /\ j - 1 \in 2..Len(w)
    BY <1>1
  <2>2. w[i].upto <= w[j - 1].from
    BY <2>1
  <2>3. w[j - 1].from < w[j - 1].upto /\ w[j].from = w[j - 1].upto
    BY <1>3, <2>1
  <2>4. w[i].upto \in Int /\ w[j - 1].from \in Int /\ w[j - 1].upto \in Int /\ w[j].from \in Int
    BY <1>1, <1>2, <2>1
  <2> QED BY <2>2, <2>3, <2>4
<1>6. \A k \in Nat : k \in P
  <2> HIDE DEF P
  <2> QED BY <1>4, <1>5, Induction
<1>7. ASSUME NEW i \in 1..Len(w), NEW j \in 1..Len(w), i < j PROVE w[i].upto <= w[j].from
  <2>1. j - (i + 1) \in Nat /\ j = i + ((j - (i + 1)) + 1)
    BY <1>1, <1>7
  <2> QED BY <1>6, <2>1
<1>8. \A i \in 1..Len(w) : w[i].from \in Int
  BY <1>1, <1>2
<1> QED BY <1>2, <1>3, <1>7, <1>8

WordsOf(w) == {w[i] : i \in 1..Len(w) - 1}
Readers(w, p) == {n \in WordsOf(w) : n.begin <= p /\ p < n.upto}

\* A way through the lattice reads each character that is not skipped once: the
\* first of its nodes that ends behind it does, and no other.
LEMMA WayReadsAll ==
  ASSUME LatticeAssumption, BlanksAlone, LatticeInv, WordsInv, search = "found",
         NEW w, Chain(w), ToEnd(w), w[1] = Bos
  PROVE  /\ \A n \in WordsOf(w) : n.upto <= Len(sentence)
         /\ \A p \in 0..Len(sentence) - 1 : Skipped(p) \/ Cardinality(Readers(w, p)) = 1
<1>1. /\ sentence \in Sentences /\ Len(sentence) \in Nat /\ DOMAIN cost \subseteq Nodes
      /\ w \in Seq(DOMAIN cost) /\ Len(w) \in Nat \ {0} /\ Bos.upto = 0
  BY BosIsNode, ChainShape DEF Chain, LatticeInv, LatticeTypeOK
<1> DEFINE L == Len(sentence)
<1>2. ASSUME NEW i \in 1..Len(w)
      PROVE  w[i].from \in 0..L /\ w[i].begin \in Int /\ w[i].upto \in Int
  <2>1. w[i] \in Nodes
    BY <1>1
  <2>2. w[i].from \in 0..L /\ w[i].begin \in 0..L /\ w[i].upto \in 0..L + 2
    BY <2>1 DEF Nodes
  <2> QED BY <1>1, <2>2
<1>3. /\ \A i \in 2..Len(w) :
           /\ w[i].from = w[i - 1].upto /\ w[i].from <= w[i].begin /\ w[i].from < w[i].upto
           /\ IsWord(w[i]) \/ IsEnd(w[i])
      /\ \A i \in 1..Len(w) : \A j \in 1..Len(w) : i < j => w[i].upto <= w[j].from
  BY ChainForward
<1>4. ASSUME NEW n \in WordsOf(w) PROVE n.upto <= L
  <2>1. PICK i \in 1..Len(w) - 1 : n = w[i]
    BY DEF WordsOf
  <2>2. i + 1 \in 1..Len(w) /\ i \in 1..Len(w) /\ i < i + 1
    BY <1>1
  <2>3. w[i].upto <= w[i + 1].from
    BY <1>3, <2>2
  <2> QED BY <1>1, <1>2, <2>1, <2>2, <2>3
<1>5. ASSUME NEW p \in 0..L - 1, ~Skipped(p) PROVE Cardinality(Readers(w, p)) = 1
  <2> DEFINE S == {i \in 1..Len(w) : p < w[i].upto}
  <2>1. Len(w) \in S
    <3>1. w[Len(w)].upto = L + 2 /\ Len(w) \in 1..Len(w)
      BY <1>1 DEF ToEnd
    <3> QED BY <1>1, <3>1
  <2>2. PICK i \in S : \A o \in S : i <= o
    <3>1. S \in SUBSET (1..Len(w)) /\ S # {} /\ Len(w) \in Int /\ 1 \in Int
      <4>1. S \in SUBSET (1..Len(w)) /\ S # {}
        BY <2>1
      <4> HIDE DEF S
      <4> QED BY <1>1, <4>1
    <3> HIDE DEF S
    <3> QED BY <3>1, LeastPlace
  <2>3. i \in 2..Len(w) /\ i - 1 \in 1..Len(w) /\ i - 1 < i
    <3>1. i # 1
      <4> SUFFICES ASSUME i = 1 PROVE FALSE
        OBVIOUS
      <4>1. p < 0
        BY <1>1, <2>2
      <4> QED BY <1>1, <4>1
    <3> QED BY <1>1, <3>1
  <2>4. w[i - 1].upto <= p
    <3>1. i - 1 \notin S
      BY <1>1, <2>2, <2>3, SMTT(30)
    <3>2. w[i - 1].upto \in Int /\ ~(p < w[i - 1].upto)
      BY <1>2, <2>3, <3>1
    <3> QED BY <3>2
  <2>5. w[i].from <= p /\ p < w[i].upto
    BY <1>3, <2>2, <2>3, <2>4
  <2>6. w[i].begin <= p
    <3> SUFFICES ASSUME p < w[i].begin PROVE FALSE
      BY <1>1, <1>2, <2>2, SMTT(30)
    <3>1. p \in w[i].from..w[i].begin - 1
      BY <1>1, <1>2, <2>5, SMTT(30)
    <3>2. CASE IsWord(w[i])
      BY <1>5, <3>1, <3>2 DEF IsWord, Blanks
    <3>3. CASE IsEnd(w[i])
      BY <1>5, <3>1, <3>3 DEF IsEnd, Blanks
    <3> QED BY <1>3, <2>3, <3>2, <3>3
  <2>7. i \in 1..Len(w) - 1
    <3> SUFFICES ASSUME i = Len(w) PROVE FALSE
      BY <1>1, <2>2
    <3>1. w[i].upto = L + 2
      BY DEF ToEnd
    <3>2. IsEnd(w[i])
      <4>1. ~IsWord(w[i])
        BY <1>1, <3>1 DEF IsWord
      <4> QED BY <1>3, <2>3, <4>1
    <3>3. w[i].begin = L
      BY <3>2 DEF IsEnd
    <3> QED BY <1>1, <2>6, <3>3
  <2>8. ASSUME NEW j \in 1..Len(w) - 1, w[j].begin <= p, p < w[j].upto PROVE j = i
    <3>1. j \in 1..Len(w) /\ i \in 1..Len(w)
      BY <1>1
    <3>2. ~(i < j)
      <4> SUFFICES ASSUME i < j PROVE FALSE
        OBVIOUS
      <4>1. w[i].upto <= w[j].from /\ j \in 2..Len(w)
        BY <1>1, <1>3, <3>1
      <4>2. w[j].from <= w[j].begin
        BY <1>3, <4>1
      <4>3. /\ w[i].upto \in Int /\ w[j].from \in Int /\ w[j].begin \in Int
        BY <1>2, <3>1
      <4> QED BY <2>5, <2>8, <4>1, <4>2, <4>3
    <3>3. ~(j < i)
      <4> SUFFICES ASSUME j < i PROVE FALSE
        OBVIOUS
      <4>1. j \in S
        BY <2>8, <3>1
      <4> QED BY <1>1, <2>2, <4>1, SMTT(30)
    <3> QED BY <1>1, <3>1, <3>2, <3>3
  <2>9. Readers(w, p) = {w[i]}
    <3>1. w[i] \in Readers(w, p)
      BY <2>5, <2>6, <2>7 DEF Readers, WordsOf
    <3>2. \A n \in Readers(w, p) : n = w[i]
      BY <2>8 DEF Readers, WordsOf
    <3> QED BY <3>1, <3>2
  <2> QED BY <2>9, FS_Singleton
<1> QED BY <1>4, <1>5

-----------------------------------------------------------------------------
(* Functions over the nodes may be defined by those of the nodes before.    *)
Depth == [n \in DOMAIN cost |-> IF n = Bos THEN 0 ELSE n.from + 1]

LEMMA DepthGrows ==
  ASSUME LatticeAssumption, LatticeInv, WordsInv
  PROVE  /\ Len(sentence) + 1 \in Nat /\ Depth \in [DOMAIN cost -> 0..Len(sentence) + 1]
         /\ \A n \in DOMAIN cost \ {Bos} : \A m \in Lefts(n) :
              m \in DOMAIN cost /\ Depth[m] < Depth[n]
<1>1. sentence \in Sentences /\ Len(sentence) \in Nat /\ DOMAIN cost \subseteq Nodes
  BY BosIsNode DEF LatticeInv, LatticeTypeOK
<1>2. ASSUME NEW n \in DOMAIN cost
      PROVE  n.from \in 0..Len(sentence) /\ n.begin \in Int /\ n.upto \in Int
  <2>1. n \in Nodes
    BY <1>1
  <2> QED BY <1>1, <2>1 DEF Nodes
<1>3. ASSUME NEW n \in DOMAIN cost PROVE Depth[n] \in 0..Len(sentence) + 1
  BY <1>1, <1>2 DEF Depth
<1>4. ASSUME NEW n \in DOMAIN cost \ {Bos}, NEW m \in Lefts(n)
      PROVE  m \in DOMAIN cost /\ Depth[m] < Depth[n]
  <2>1. m \in DOMAIN cost /\ m.upto = n.from
    BY DEF Lefts, EndingAt
  <2>2. CASE m = Bos
    BY <1>1, <1>2, <2>1, <2>2 DEF Depth
  <2>3. CASE m # Bos
    <3>1. IsWord(m) \/ IsEnd(m)
      BY <2>1, <2>3 DEF WordsInv
    <3>2. m.from < m.upto
      BY <1>1, <1>2, <2>1, <3>1 DEF IsWord, IsEnd
    <3> QED BY <1>2, <2>1, <2>3, <3>2 DEF Depth
  <2> QED BY <2>2, <2>3
<1>5. Depth = [n \in DOMAIN cost |-> Depth[n]]
  BY DEF Depth
<1> HIDE DEF Depth
<1>6. Depth \in [DOMAIN cost -> 0..Len(sentence) + 1]
  BY <1>3, <1>5
<1> QED BY <1>1, <1>4, <1>6

\* Whole ways to a node.
WayTo(w, n) == Chain(w) /\ w[1] = Bos /\ w[Len(w)] = n

LEMMA TheEndIsLast ==
  ASSUME WordsInv, search = "found"
  PROVE  /\ TheEnd \in DOMAIN cost /\ TheEnd.upto = Len(sentence) + 2
         /\ \A w : WayTo(w, TheEnd) <=> Chain(w) /\ w[1] = Bos /\ ToEnd(w)
<1>1. PICK n \in DOMAIN cost \ {Bos} :
        IsEnd(n) /\ \A m \in DOMAIN cost : m.upto = Len(sentence) + 2 => m = n
  BY DEF WordsInv
<1>2. TheEnd \in DOMAIN cost /\ TheEnd.upto = Len(sentence) + 2 /\ TheEnd = n
  BY <1>1 DEF TheEnd, IsEnd
<1>3. ASSUME NEW w, Chain(w) PROVE w[Len(w)] \in DOMAIN cost
  BY <1>3, ChainShape DEF Chain
<1> QED BY <1>1, <1>2, <1>3 DEF WayTo, ToEnd

\* One node more.
LEMMA WayLonger ==
  ASSUME NEW n \in DOMAIN cost \ {Bos}, NEW m \in Lefts(n), NEW w, WayTo(w, m)
  PROVE  WayTo(Append(w, n), n)
<1> DEFINE v == Append(w, n)
<1>1. w \in Seq(DOMAIN cost) /\ w # <<>> /\ Len(w) \in Nat \ {0}
  BY ChainShape DEF Chain, WayTo
<1>2. /\ v \in Seq(DOMAIN cost) /\ v # <<>> /\ Len(v) = Len(w) + 1 /\ v[Len(w) + 1] = n
      /\ \A i \in 1..Len(w) : v[i] = w[i]
  BY <1>1
<1> HIDE DEF v
<1>3. ASSUME NEW i \in 2..Len(v) PROVE v[i] # Bos /\ v[i - 1] \in Lefts(v[i])
  <2>1. i - 1 \in 1..Len(w) /\ (i \in 2..Len(w) \/ i = Len(w) + 1)
    BY <1>1, <1>2
  <2>2. CASE i \in 2..Len(w)
    <3>1. w[i] # Bos /\ w[i - 1] \in Lefts(w[i])
      BY <2>2 DEF WayTo, Chain
    <3> QED BY <1>2, <2>1, <2>2, <3>1
  <2>3. CASE i = Len(w) + 1
    <3>1. i - 1 = Len(w) /\ v[i - 1] = m
      BY <1>1, <1>2, <2>1, <2>3 DEF WayTo
    <3> QED BY <1>2, <2>3, <3>1
  <2> QED BY <2>1, <2>2, <2>3
<1>4. v[1] = Bos /\ v[Len(v)] = n
  BY <1>1, <1>2 DEF WayTo
<1> QED BY <1>2, <1>3, <1>4 DEF WayTo, Chain, v

\* A way to a node that is not the first is a way to one to its left, and more.
LEMMA WayShorter ==
  ASSUME NEW n \in DOMAIN cost, NEW w, WayTo(w, n)
  PROVE  /\ n = Bos => w = <<Bos>>
         /\ n # Bos => \E m \in Lefts(n), v \in Seq(DOMAIN cost) : WayTo(v, m) /\ w = Append(v, n)
<1>1. w \in Seq(DOMAIN cost) /\ w # <<>> /\ Len(w) \in Nat \ {0}
  BY ChainShape DEF Chain, WayTo
<1>2. ASSUME n = Bos PROVE w = <<Bos>>
  <2>1. Len(w) \notin 2..Len(w)
    BY <1>2 DEF WayTo, Chain
  <2>2. Len(w) = 1 /\ w[1] = Bos
    <3>1. w[1] = Bos
      BY DEF WayTo
    <3> DEFINE N == Len(w)
    <3>2. N \in Nat \ {0} /\ N \notin 2..N
      BY <1>1, <2>1
    <3>3. N = 1
      <4> HIDE DEF N
      <4> QED BY <3>2
    <3> QED BY <3>1, <3>3
  <2> QED BY <1>1, <2>2
<1>3. ASSUME n # Bos
      PROVE  \E m \in Lefts(n), v \in Seq(DOMAIN cost) : WayTo(v, m) /\ w = Append(v, n)
  <2>1. Len(w) # 1
    BY <1>3 DEF WayTo
  <2>2. /\ Len(w) \in 2..Len(w) /\ Len(w) - 1 \in Nat \ {0} /\ Len(w) - 1 \in 1..Len(w)
    <3> DEFINE N == Len(w)
    <3>1. N \in Nat \ {0} /\ N # 1
      BY <1>1, <2>1
    <3>2. N \in 2..N /\ N - 1 \in Nat \ {0} /\ N - 1 \in 1..N
      <4> HIDE DEF N
      <4> QED BY <3>1
    <3> QED BY <3>2
  <2> DEFINE v == SubSeq(w, 1, Len(w) - 1)
             m == w[Len(w) - 1]
  <2>3. /\ v \in Seq(DOMAIN cost) /\ v # <<>> /\ Len(v) = Len(w) - 1
        /\ \A i \in 1..Len(v) : v[i] = w[i]
    <3>1. v \in Seq(DOMAIN cost) /\ Len(v) = Len(w) - 1 /\ \A i \in 1..Len(v) : v[i] = w[i]
      BY <1>1, <2>2, SubSeqProperties
    <3> QED BY <2>2, <3>1
  <2> HIDE DEF v
  <2>4. w = Append(v, n)
    <3>1. /\ Append(v, n) \in Seq(DOMAIN cost) /\ Len(Append(v, n)) = Len(w)
          /\ Append(v, n)[Len(w)] = n
          /\ \A i \in 1..Len(v) : Append(v, n)[i] = v[i]
      BY <1>1, <2>2, <2>3
    <3>2. \A i \in 1..Len(w) : Append(v, n)[i] = w[i]
      BY <1>1, <2>2, <2>3, <3>1 DEF WayTo
    <3> QED BY <1>1, <3>1, <3>2, SeqEqual
  <2>5. m \in Lefts(n)
    BY <2>2 DEF WayTo, Chain
  <2>6. Chain(v)
    <3> SUFFICES ASSUME NEW i \in 2..Len(v) PROVE v[i] # Bos /\ v[i - 1] \in Lefts(v[i])
      BY <2>3 DEF Chain
    <3>1. i \in 2..Len(w) /\ i \in 1..Len(v) /\ i - 1 \in 1..Len(v)
      BY <1>1, <2>2, <2>3
    <3> QED BY <2>3, <3>1 DEF WayTo, Chain
  <2>7. v[1] = Bos /\ v[Len(v)] = m
    BY <2>2, <2>3 DEF WayTo
  <2> QED BY <2>3, <2>4, <2>5, <2>6, <2>7 DEF WayTo
<1> QED BY <1>2, <1>3

LEMMA FirstWay == ASSUME Bos \in DOMAIN cost PROVE WayTo(<<Bos>>, Bos)
<1> DEFINE b == Bos
<1>1. b \in DOMAIN cost
  OBVIOUS
<1> HIDE DEF b
<1>2. PICK w : w = <<b>>
  OBVIOUS
<1>3. w \in Seq(DOMAIN cost) /\ w # <<>> /\ Len(w) = 1 /\ w[1] = b /\ 2..1 = {}
  BY <1>1, <1>2
<1> QED BY <1>2, <1>3 DEF WayTo, Chain, b

\* The way back from each node, by the nodes before it.
Backwards(to) ==
  /\ to \in [DOMAIN cost -> Seq(DOMAIN cost)]
  /\ \A n \in DOMAIN cost : to[n] = IF n = Bos THEN <<n>> ELSE Append(to[prev[n]], n)

LEMMA BestWayExists ==
  ASSUME LatticeAssumption, LatticeInv, WordsInv
  PROVE  \E to : Backwards(to) /\ BestWay = to[TheEnd]
<1> DEFINE D == DOMAIN cost
           S == Seq(D)
           Longer(f, n) == IF n = Bos THEN <<n>> ELSE Append(f[prev[n]], n)
           Is(f) == f = [n \in D |-> Longer(f, n)]
           G == [f \in [D -> S] |-> [n \in D |-> Longer(f, n)]]
           start == [n \in D |-> <<>>]
<1>1. \A n \in D \ {Bos} : prev[n] \in Lefts(n) /\ prev[n] \in D
  BY DEF LatticeInv, LatticeTypeOK, CheapestLeft
<1>2. /\ Len(sentence) + 1 \in Nat /\ Depth \in [D -> 0..Len(sentence) + 1]
      /\ \A n \in D \ {Bos} : Depth[prev[n]] < Depth[n]
  BY <1>1, DepthGrows
<1>3. start \in [D -> S]
  OBVIOUS
<1>4. ASSUME NEW f \in [D -> S], NEW n \in D PROVE Longer(f, n) \in S
  <2>1. CASE n = Bos
    BY <2>1
  <2>2. CASE n # Bos
    <3>1. f[prev[n]] \in S
      BY <1>1, <2>2
    <3> QED BY <2>2, <3>1
  <2> QED BY <2>1, <2>2
<1>5. G \in [[D -> S] -> [D -> S]]
  <2> HIDE DEF Longer, S
  <2> QED BY <1>4
<1>6. \A f \in [D -> S] : /\ G[f] = [n \in D |-> Longer(f, n)]
                          /\ \A n \in D : G[f][n] = Longer(f, n)
  <2> HIDE DEF Longer, S
  <2> QED OBVIOUS
<1>7. ASSUME NEW f \in [D -> S], NEW g \in [D -> S], NEW n \in D,
             \A m \in D : Depth[m] < Depth[n] => f[m] = g[m]
      PROVE  G[f][n] = G[g][n]
  <2>1. Longer(f, n) = Longer(g, n)
    BY <1>1, <1>2, <1>7
  <2> HIDE DEF Longer, S, G, D
  <2>2. G[f][n] = Longer(f, n) /\ G[g][n] = Longer(g, n)
    BY <1>6
  <2> QED BY <2>1, <2>2
<1>8. \E f : Fixed(f, G, D, S)
  <2> DEFINE N == Len(sentence) + 1
  <2>1. N \in Nat /\ Depth \in [D -> 0..N]
    BY <1>2
  <2>2. ByRank(G, D, S, Depth)
    <3> HIDE DEF G, S, D
    <3> QED BY <1>7 DEF ByRank
  <2> HIDE DEF G, S, D, start, N
  <2> QED BY <1>3, <1>5, <2>1, <2>2, RecursionByRank, Zenon
<1>9. PICK f \in [D -> S] : Is(f)
  <2> HIDE DEF G, Longer, S, D
  <2> QED BY <1>6, <1>8, ZenonT(60) DEF Fixed
<1> DEFINE to == CHOOSE g : Is(g)
<1>10. Is(to)
  BY <1>9, ZenonT(60)
<1>11. BestWay = to[TheEnd]
  BY DEF BestWay
<1> HIDE DEF to
<1>12. \A n \in D : to[n] = Longer(to, n)
  BY <1>10
<1> DEFINE P == {k \in Nat : \A n \in D : Depth[n] < k => to[n] \in S}
<1>13. P \in SUBSET Nat /\ 0 \in P
  BY <1>2
<1>14. ASSUME NEW k \in P PROVE k + 1 \in P
  <2> SUFFICES ASSUME NEW n \in D, Depth[n] < k + 1 PROVE to[n] \in S
    OBVIOUS
  <2>1. CASE n = Bos
    <3>1. to[n] = <<n>>
      BY <1>12, <2>1
    <3>2. <<n>> \in S
      OBVIOUS
    <3> QED BY <3>1, <3>2
  <2>2. CASE n # Bos
    <3>1. prev[n] \in D /\ Depth[prev[n]] < Depth[n] /\ Depth[n] \in Nat /\ Depth[prev[n]] \in Nat
      BY <1>1, <1>2, <2>2
    <3>2. Depth[prev[n]] < k
      <4>1. k \in Nat
        OBVIOUS
      <4> QED BY <3>1, <4>1
    <3>3. to[prev[n]] \in S
      BY <3>1, <3>2
    <3>4. to[n] = Append(to[prev[n]], n)
      BY <1>12, <2>2
    <3>5. \A v \in S : Append(v, n) \in S
      OBVIOUS
    <3> QED BY <3>3, <3>4, <3>5
  <2> QED BY <2>1, <2>2
<1>15. \A k \in Nat : k \in P
  <2> HIDE DEF P
  <2> QED BY <1>13, <1>14, Induction
<1>16. \A n \in D : to[n] \in S
  <2> SUFFICES ASSUME NEW n \in D PROVE to[n] \in S
    OBVIOUS
  <2>1. Depth[n] + 1 \in Nat /\ Depth[n] < Depth[n] + 1
    BY <1>2
  <2> QED BY <1>15, <2>1
<1>17. to \in [D -> S]
  <2>1. to = [n \in D |-> to[n]]
    BY <1>10
  <2> HIDE DEF S, D
  <2> QED BY <1>16, <2>1
<1> QED BY <1>11, <1>12, <1>17 DEF Backwards

\* What the analysis answers is a way through the lattice.
LEMMA BackwardsIsWay ==
  ASSUME LatticeAssumption, LatticeInv, WordsInv, search = "found", NEW to, Backwards(to)
  PROVE  \A n \in DOMAIN cost : WayTo(to[n], n)
<1> DEFINE P == {k \in Nat : \A n \in DOMAIN cost : Depth[n] < k => WayTo(to[n], n)}
<1>1. \A n \in DOMAIN cost \ {Bos} : prev[n] \in Lefts(n) /\ prev[n] \in DOMAIN cost
  BY DEF LatticeInv, LatticeTypeOK, CheapestLeft
<1>2. /\ \A n \in DOMAIN cost : Depth[n] \in Nat
      /\ \A n \in DOMAIN cost \ {Bos} : Depth[prev[n]] < Depth[n]
  BY <1>1, DepthGrows
<1>3. Bos \in DOMAIN cost
  BY DEF LatticeInv
<1>4. P \in SUBSET Nat /\ 0 \in P
  BY <1>2
<1>5. ASSUME NEW k \in P PROVE k + 1 \in P
  <2> SUFFICES ASSUME NEW n \in DOMAIN cost, Depth[n] < k + 1 PROVE WayTo(to[n], n)
    OBVIOUS
  <2>1. CASE n = Bos
    BY <1>3, <2>1, FirstWay DEF Backwards
  <2>2. CASE n # Bos
    <3>1. /\ prev[n] \in DOMAIN cost /\ prev[n] \in Lefts(n) /\ Depth[prev[n]] < Depth[n]
          /\ Depth[n] \in Nat /\ Depth[prev[n]] \in Nat /\ k \in Nat
      BY <1>1, <1>2, <2>2
    <3>2. Depth[prev[n]] < k
      BY <3>1
    <3>3. WayTo(to[prev[n]], prev[n])
      BY <3>1, <3>2
    <3>4. to[n] = Append(to[prev[n]], n)
      BY <2>2 DEF Backwards
    <3> QED BY <2>2, <3>1, <3>3, <3>4, WayLonger
  <2> QED BY <2>1, <2>2
<1>6. \A k \in Nat : k \in P
  <2> HIDE DEF P
  <2> QED BY <1>4, <1>5, Induction
<1>7. ASSUME NEW n \in DOMAIN cost PROVE WayTo(to[n], n)
  <2>1. Depth[n] + 1 \in Nat /\ Depth[n] < Depth[n] + 1
    BY <1>2
  <2> QED BY <1>6, <2>1
<1> QED BY <1>7

\* Whole readings, and the answer, are ways.
ReadingInv == LatticeInv /\ WordsInv /\ ChainsInv

LEMMA ReadingInvariant == LatticeSpec => []ReadingInv
<1>1. LatticeInit => ReadingInv
  BY LatticeAssumption, LatticeStart, WordsStart DEF ReadingInv, ChainsInv, LatticeInit
<1>2. ReadingInv /\ [LatticeNext]_latticeVars => ReadingInv'
  BY LatticeAssumption, LatticeStep, WordsStep, ChainsStep DEF ReadingInv
<1> QED BY <1>1, <1>2, PTL DEF LatticeSpec

LEMMA ReadsAll == LatticeAssumption /\ BlanksAlone /\ ReadingInv => NothingUnread
<1> SUFFICES ASSUME LatticeAssumption, BlanksAlone, ReadingInv, search = "found",
                    NEW way \in {BestWay} \cup readings
             PROVE  LET words == {way[i] : i \in 1..Len(way) - 1}
                        Reading(p) == {w \in words : w.begin <= p /\ p < w.upto}
                    IN /\ \A w \in words : w.upto <= Len(sentence)
                       /\ \A p \in 0..Len(sentence) - 1 :
                            IsKindOf(Info[Blank], At(p)) \/ Cardinality(Reading(p)) = 1
  BY DEF NothingUnread
<1>1. Chain(way) /\ ToEnd(way) /\ way[1] = Bos
  <2>1. CASE way = BestWay
    <3>1. PICK to : Backwards(to) /\ BestWay = to[TheEnd]
      BY BestWayExists DEF ReadingInv
    <3> QED BY <2>1, <3>1, BackwardsIsWay, TheEndIsLast DEF ReadingInv
  <2>2. CASE way \in readings
    BY <2>2 DEF ReadingInv, ChainsInv
  <2> QED BY <2>1, <2>2
<1>2. /\ \A n \in WordsOf(way) : n.upto <= Len(sentence)
      /\ \A p \in 0..Len(sentence) - 1 : Skipped(p) \/ Cardinality(Readers(way, p)) = 1
  BY <1>1, WayReadsAll DEF ReadingInv
<1> QED BY <1>2 DEF WordsOf, Readers, Skipped

(* If skipping blanks skips nothing else, no character of any sentence is   *)
(* lost or read twice, in the answer or in any further reading, whatever    *)
(* the dictionary, the unknown words and the costs.                         *)
THEOREM NothingIsUnread == BlanksAlone => (LatticeSpec => []NothingUnread)
<1> SUFFICES ASSUME BlanksAlone PROVE LatticeSpec => []NothingUnread
  OBVIOUS
<1>1. ReadingInv => NothingUnread
  BY LatticeAssumption, ReadsAll
<1>2. LatticeSpec => []ReadingInv
  BY ReadingInvariant
<1> QED BY <1>1, <1>2, PTL

-----------------------------------------------------------------------------
(* All ways through the lattice, and what they cost.                       *)

LEMMA WaysAreAll ==
  ASSUME LatticeAssumption, LatticeInv, WordsInv, search = "found"
  PROVE  \A w : w \in Ways <=> WayTo(w, TheEnd)
<1> DEFINE D == DOMAIN cost
           S == SUBSET Seq(D)
           Longer(f, n) == IF n = Bos THEN {<<n>>}
                           ELSE {Append(w, n) : w \in UNION {f[m] : m \in Lefts(n)}}
           Is(f) == f = [n \in D |-> Longer(f, n)]
           G == [f \in [D -> S] |-> [n \in D |-> Longer(f, n)]]
           start == [n \in D |-> {}]
<1>1. /\ Len(sentence) + 1 \in Nat /\ Depth \in [D -> 0..Len(sentence) + 1]
      /\ \A n \in D \ {Bos} : \A m \in Lefts(n) : m \in D /\ Depth[m] < Depth[n]
  BY DepthGrows
<1>2. start \in [D -> S]
  OBVIOUS
<1>3. ASSUME NEW f \in [D -> S], NEW n \in D PROVE Longer(f, n) \in S
  <2>1. CASE n = Bos
    <3>1. <<n>> \in Seq(D)
      OBVIOUS
    <3> QED BY <2>1, <3>1
  <2>2. CASE n # Bos
    <3>1. ASSUME NEW w \in UNION {f[m] : m \in Lefts(n)} PROVE Append(w, n) \in Seq(D)
      <4>1. PICK m \in Lefts(n) : w \in f[m]
        OBVIOUS
      <4>2. w \in Seq(D)
        BY <1>1, <2>2, <4>1
      <4> QED BY <4>2
    <3> QED BY <2>2, <3>1, ZenonT(50)
  <2> QED BY <2>1, <2>2
<1>4. G \in [[D -> S] -> [D -> S]]
  <2> HIDE DEF Longer, S
  <2> QED BY <1>3
<1>5. \A f \in [D -> S] : /\ G[f] = [n \in D |-> Longer(f, n)]
                          /\ \A n \in D : G[f][n] = Longer(f, n)
  <2> HIDE DEF Longer, S
  <2> QED OBVIOUS
<1>6. ByRank(G, D, S, Depth)
  <2> SUFFICES ASSUME NEW f \in [D -> S], NEW g \in [D -> S], NEW n \in D,
                      \A m \in D : Depth[m] < Depth[n] => f[m] = g[m]
               PROVE  G[f][n] = G[g][n]
    <3> HIDE DEF G, S, D
    <3> QED BY DEF ByRank
  <2>1. Longer(f, n) = Longer(g, n)
    <3>1. CASE n = Bos
      BY <3>1
    <3>2. CASE n # Bos
      <4>1. \A m \in Lefts(n) : f[m] = g[m]
        BY <1>1, <3>2
      <4>2. {f[m] : m \in Lefts(n)} = {g[m] : m \in Lefts(n)}
        BY <4>1
      <4> QED BY <3>2, <4>2
    <3> QED BY <3>1, <3>2
  <2> HIDE DEF Longer, S, G, D
  <2>2. G[f][n] = Longer(f, n) /\ G[g][n] = Longer(g, n)
    BY <1>5
  <2> QED BY <2>1, <2>2
<1>7. \E f : Fixed(f, G, D, S)
  <2> DEFINE N == Len(sentence) + 1
  <2>1. N \in Nat /\ Depth \in [D -> 0..N]
    BY <1>1
  <2> HIDE DEF G, S, D, start, N
  <2> QED BY <1>2, <1>4, <1>6, <2>1, RecursionByRank, Zenon
<1>8. PICK f \in [D -> S] : Is(f)
  <2> HIDE DEF G, Longer, S, D
  <2> QED BY <1>5, <1>7 DEF Fixed
<1> DEFINE to == CHOOSE g : Is(g)
<1>9. Is(to)
  BY <1>8
<1>10. Ways = to[TheEnd]
  BY DEF Ways
<1> HIDE DEF to
<1>11. \A n \in D : to[n] = Longer(to, n)
  BY <1>9
<1> DEFINE P == {k \in Nat : \A n \in D : Depth[n] < k => \A w : w \in to[n] <=> WayTo(w, n)}
<1>12. P \in SUBSET Nat /\ 0 \in P
  BY <1>1
<1>13. ASSUME NEW k \in P PROVE k + 1 \in P
  <2>0. k \in Nat /\ k + 1 \in Nat
    OBVIOUS
  <2> SUFFICES ASSUME NEW n \in D, Depth[n] < k + 1, NEW w PROVE w \in to[n] <=> WayTo(w, n)
    BY <2>0, Zenon
  <2>1. CASE n = Bos
    <3>1. to[n] = {<<n>>} /\ WayTo(<<Bos>>, Bos)
      BY <1>11, <2>1, FirstWay
    <3> QED BY <2>1, <3>1, WayShorter
  <2>2. CASE n # Bos
    <3>1. ASSUME NEW m \in Lefts(n) PROVE m \in D /\ \A v : v \in to[m] <=> WayTo(v, m)
      <4>1. m \in D /\ Depth[m] < Depth[n] /\ Depth[m] \in Nat /\ Depth[n] \in Nat /\ k \in Nat
        BY <1>1, <2>2
      <4>2. Depth[m] < k
        BY <4>1
      <4> QED BY <4>1, <4>2
    <3>2. to[n] = {Append(v, n) : v \in UNION {to[m] : m \in Lefts(n)}}
      BY <1>11, <2>2
    <3>3. w \in to[n] <=> \E m \in Lefts(n) : \E v \in to[m] : w = Append(v, n)
      <4>1. w \in to[n] <=> \E v \in UNION {to[m] : m \in Lefts(n)} : w = Append(v, n)
        BY <3>2, Zenon
      <4>2. \A v : v \in UNION {to[m] : m \in Lefts(n)} <=> \E m \in Lefts(n) : v \in to[m]
        OBVIOUS
      <4> QED BY <4>1, <4>2, Zenon
    <3>4. ASSUME w \in to[n] PROVE WayTo(w, n)
      <4>0. PICK m \in Lefts(n) : \E v \in to[m] : w = Append(v, n)
        BY <3>3, <3>4
      <4>1. PICK v \in to[m] : w = Append(v, n)
        BY <4>0
      <4>2. WayTo(v, m)
        BY <3>1
      <4> QED BY <2>2, <4>1, <4>2, WayLonger
    <3>5. ASSUME WayTo(w, n) PROVE w \in to[n]
      <4>1. PICK m \in Lefts(n), v \in Seq(D) : WayTo(v, m) /\ w = Append(v, n)
        BY <2>2, <3>5, WayShorter
      <4> QED BY <3>1, <3>3, <4>1
    <3> QED BY <3>4, <3>5
  <2> QED BY <2>1, <2>2
<1>14. \A k \in Nat : k \in P
  <2> HIDE DEF P
  <2> QED BY <1>12, <1>13, Induction
<1>15. TheEnd \in D
  BY TheEndIsLast
<1>16. Depth[TheEnd] + 1 \in Nat /\ Depth[TheEnd] < Depth[TheEnd] + 1
  BY <1>1, <1>15
<1> QED BY <1>10, <1>14, <1>15, <1>16

\* What a way costs up to each of its nodes.
CostsAlong(w, f) ==
  /\ f \in [1..Len(w) -> Int] /\ f[1] = 0
  /\ \A i \in 2..Len(w) : f[i] = f[i - 1] + LocalCost(w[i - 1], w[i])

LEMMA StepsCost ==
  ASSUME LatticeAssumption, LatticeInv
  PROVE  \A m, n \in DOMAIN cost : LocalCost(m, n) \in Int /\ CostBehind(m, n) \in Int /\ cost[m] \in Int
<1>1. Priced /\ DOMAIN cost \subseteq Nodes
  BY DEF LatticeInv, LatticeTypeOK, Priced
<1>2. \A m \in DOMAIN cost : cost[m] \in Int
  BY <1>1 DEF Priced
<1>3. ASSUME NEW m \in DOMAIN cost, NEW n \in DOMAIN cost
      PROVE  LocalCost(m, n) \in Int /\ CostBehind(m, n) \in Int
  BY <1>1, StepCost
<1> QED BY <1>2, <1>3

LEMMA WayCostIs ==
  ASSUME LatticeAssumption, LatticeInv, NEW w \in Seq(DOMAIN cost), w # <<>>
  PROVE  \E f : CostsAlong(w, f) /\ WayCost(w) = f[Len(w)]
<1> DEFINE N == Len(w)
           step == [i \in 2..N |-> LocalCost(w[i - 1], w[i])]
           next == [x \in Nat \X Int |-> IF x[1] + 1 \in 2..N THEN x[2] + step[x[1] + 1] ELSE 0]
           Is(f) == f = [i \in 1..N |-> IF i = 1 THEN 0 ELSE f[i - 1] + LocalCost(w[i - 1], w[i])]
<1>1. N \in Nat \ {0} /\ N - 1 \in Nat
  BY ChainShape
<1>2. ASSUME NEW i \in 2..N PROVE step[i] \in Int /\ step[i] = LocalCost(w[i - 1], w[i])
  <2>1. i \in 1..N /\ i - 1 \in 1..N
    BY <1>1
  <2>2. w[i] \in DOMAIN cost /\ w[i - 1] \in DOMAIN cost
    BY <2>1
  <2> QED BY <2>2, StepsCost
<1>3. next \in [Nat \X Int -> Int]
  <2> HIDE DEF step
  <2> QED BY <1>1, <1>2
<1>4. PICK g : Recurs(g, Int, 0, next, N - 1)
  <2>1. 0 \in Int
    OBVIOUS
  <2> HIDE DEF next, N
  <2> QED BY <1>1, <1>3, <2>1, RecursionUpTo, Zenon
<1>5. /\ g \in [0..N - 1 -> Int] /\ g[0] = 0
      /\ \A k \in 1..N - 1 : g[k] = next[<<k, g[k - 1]>>]
  <2> HIDE DEF next
  <2> QED BY <1>4 DEF Recurs
<1>6. ASSUME NEW k \in 1..N - 1 PROVE g[k] = g[k - 1] + step[k + 1]
  <2>1. k - 1 \in 0..N - 1 /\ k + 1 \in 2..N /\ k \in Nat
    BY <1>1
  <2>2. <<k, g[k - 1]>> \in Nat \X Int
    BY <1>5, <2>1
  <2> HIDE DEF step
  <2>3. next[<<k, g[k - 1]>>] = g[k - 1] + step[k + 1]
    BY <2>1, <2>2
  <2> QED BY <1>5, <2>3
<1> HIDE DEF step, next
<1> DEFINE f == [i \in 1..N |-> g[i - 1]]
<1>7. Is(f)
  <2>1. ASSUME NEW i \in 1..N
        PROVE  f[i] = IF i = 1 THEN 0 ELSE f[i - 1] + LocalCost(w[i - 1], w[i])
    <3>1. CASE i = 1
      BY <1>5, <3>1
    <3>2. CASE i # 1
      <4>1. /\ i \in 2..N /\ i - 1 \in 1..N - 1 /\ i - 1 \in 1..N /\ (i - 1) + 1 = i
        BY <1>1, <3>2
      <4>2. g[i - 1] = g[(i - 1) - 1] + step[i]
        BY <1>6, <4>1
      <4> QED BY <1>2, <3>2, <4>1, <4>2
    <3> QED BY <3>1, <3>2
  <2>2. f = [i \in 1..N |-> f[i]]
    OBVIOUS
  <2> HIDE DEF f
  <2> QED BY <2>1, <2>2
<1> HIDE DEF f
<1> DEFINE sum == CHOOSE h : Is(h)
<1>8. Is(sum)
  BY <1>7
<1>9. WayCost(w) = sum[N]
  BY DEF WayCost
<1> HIDE DEF sum
<1>10. \A i \in 1..N : sum[i] = IF i = 1 THEN 0 ELSE sum[i - 1] + LocalCost(w[i - 1], w[i])
  BY <1>8
<1>11. \A i \in 2..N : i \in 1..N /\ i # 1
  BY <1>1
<1>12. sum[1] = 0 /\ \A i \in 2..N : sum[i] = sum[i - 1] + LocalCost(w[i - 1], w[i])
  <2>1. 1 \in 1..N
    BY <1>1
  <2> QED BY <1>10, <1>11, <2>1
<1>13. \A i \in 1..N : sum[i] \in Int
  <2> DEFINE P == {k \in Nat : k + 1 <= N => sum[k + 1] \in Int}
  <2>1. P \in SUBSET Nat /\ 0 \in P
    BY <1>12
  <2>2. ASSUME NEW k \in P PROVE k + 1 \in P
    <3> SUFFICES ASSUME (k + 1) + 1 <= N PROVE sum[(k + 1) + 1] \in Int
      OBVIOUS
    <3>1. (k + 1) + 1 \in 2..N /\ ((k + 1) + 1) - 1 = k + 1 /\ k + 1 <= N
      BY <1>1
    <3>2. sum[k + 1] \in Int
      BY <3>1
    <3>3. sum[(k + 1) + 1] = sum[k + 1] + step[(k + 1) + 1] /\ step[(k + 1) + 1] \in Int
      BY <1>2, <1>12, <3>1
    <3> QED BY <3>2, <3>3
  <2>3. \A k \in Nat : k \in P
    <3> HIDE DEF P
    <3> QED BY <2>1, <2>2, Induction
  <2> SUFFICES ASSUME NEW i \in 1..N PROVE sum[i] \in Int
    OBVIOUS
  <2>4. i - 1 \in Nat /\ (i - 1) + 1 = i /\ i <= N
    BY <1>1
  <2> QED BY <2>3, <2>4
<1>14. sum \in [1..N -> Int]
  <2>1. sum = [i \in 1..N |-> sum[i]]
    BY <1>8
  <2> QED BY <1>13, <2>1
<1> QED BY <1>9, <1>12, <1>14 DEF CostsAlong

\* One way is part of another, behind d of its nodes.
PartOf(v, w, d) == Len(v) + d <= Len(w) /\ \A i \in 1..Len(v) : w[i + d] = v[i]
Shifted(v, f, g, d) == \A i \in 1..Len(v) : g[i + d] = g[1 + d] + f[i]

\* Then it costs what the other costs from there on.
LEMMA CostsShift ==
  ASSUME LatticeAssumption, LatticeInv, NEW v \in Seq(DOMAIN cost), NEW w \in Seq(DOMAIN cost),
         NEW f, NEW g, CostsAlong(v, f), CostsAlong(w, g), v # <<>>,
         NEW d \in Nat, PartOf(v, w, d)
  PROVE  Shifted(v, f, g, d)
<1>1. /\ Len(v) \in Nat \ {0} /\ Len(w) \in Nat
      /\ Len(v) + d <= Len(w) /\ \A i \in 1..Len(v) : w[i + d] = v[i]
  BY ChainShape DEF PartOf
<1>2. \A i \in 1..Len(v) : i + d \in 1..Len(w) /\ g[i + d] \in Int /\ f[i] \in Int
  <2>1. f \in [1..Len(v) -> Int] /\ g \in [1..Len(w) -> Int]
    BY DEF CostsAlong
  <2>2. \A i \in 1..Len(v) : i + d \in 1..Len(w)
    BY <1>1
  <2> QED BY <2>1, <2>2
<1> DEFINE P == {k \in Nat : k + 1 <= Len(v) => g[(k + 1) + d] = g[1 + d] + f[k + 1]}
<1>3. P \in SUBSET Nat /\ 0 \in P
  <2>1. 1 \in 1..Len(v) /\ f[1] = 0 /\ g[1 + d] \in Int
    BY <1>1, <1>2 DEF CostsAlong
  <2> QED BY <2>1
<1>4. ASSUME NEW k \in P PROVE k + 1 \in P
  <2> SUFFICES ASSUME (k + 1) + 1 <= Len(v)
               PROVE  g[((k + 1) + 1) + d] = g[1 + d] + f[(k + 1) + 1]
    OBVIOUS
  <2>1. /\ k \in Nat /\ (k + 1) + 1 \in 2..Len(v) /\ ((k + 1) + 1) - 1 = k + 1 /\ k + 1 \in 1..Len(v)
        /\ ((k + 1) + 1) + d \in 2..Len(w) /\ (((k + 1) + 1) + d) - 1 = (k + 1) + d
        /\ (k + 1) + 1 \in 1..Len(v) /\ 1 \in 1..Len(v)
    BY <1>1
  <2>2. f[(k + 1) + 1] = f[k + 1] + LocalCost(v[k + 1], v[(k + 1) + 1])
    BY <2>1 DEF CostsAlong
  <2>3. g[((k + 1) + 1) + d] = g[(k + 1) + d] + LocalCost(w[(k + 1) + d], w[((k + 1) + 1) + d])
    BY <2>1 DEF CostsAlong
  <2>4. w[(k + 1) + d] = v[k + 1] /\ w[((k + 1) + 1) + d] = v[(k + 1) + 1]
    BY <1>1, <2>1
  <2>5. LocalCost(v[k + 1], v[(k + 1) + 1]) \in Int
    <3>1. v[k + 1] \in DOMAIN cost /\ v[(k + 1) + 1] \in DOMAIN cost
      BY <2>1
    <3> QED BY <3>1, StepsCost
  <2>6. g[(k + 1) + d] = g[1 + d] + f[k + 1]
    BY <2>1
  <2>7. g[1 + d] \in Int /\ f[k + 1] \in Int
    BY <1>2, <2>1
  <2> DEFINE local == LocalCost(v[k + 1], v[(k + 1) + 1])
  <2>8. /\ f[(k + 1) + 1] = f[k + 1] + local /\ g[((k + 1) + 1) + d] = (g[1 + d] + f[k + 1]) + local
        /\ local \in Int
    BY <2>2, <2>3, <2>4, <2>5, <2>6
  <2> HIDE DEF local
  <2> QED BY <2>7, <2>8, SMTT(60)
<1>5. \A k \in Nat : k \in P
  <2> HIDE DEF P
  <2> QED BY <1>3, <1>4, Induction
<1> SUFFICES ASSUME NEW i \in 1..Len(v) PROVE g[i + d] = g[1 + d] + f[i]
  BY DEF Shifted
<1>6. i - 1 \in Nat /\ (i - 1) + 1 = i /\ i <= Len(v)
  BY <1>1
<1> QED BY <1>5, <1>6

\* The first step of a way, and the last.
LEMMA WayCostGrows ==
  ASSUME LatticeAssumption, LatticeInv, NEW w \in Seq(DOMAIN cost), w # <<>>,
         NEW m \in DOMAIN cost
  PROVE  /\ WayCost(w) \in Int
         /\ WayCost(<<m>> \o w) = LocalCost(m, w[1]) + WayCost(w)
         /\ WayCost(Append(w, m)) = WayCost(w) + LocalCost(w[Len(w)], m)
<1>1. /\ Len(w) \in Nat \ {0} /\ 1 \in 1..Len(w) /\ Len(w) \in 1..Len(w)
      /\ \A i \in 1..Len(w) : w[i] \in DOMAIN cost
  BY ChainShape
<1>2. PICK f : CostsAlong(w, f) /\ WayCost(w) = f[Len(w)]
  BY WayCostIs
<1>3. WayCost(w) \in Int
  <2>1. f \in [1..Len(w) -> Int]
    BY <1>2 DEF CostsAlong
  <2> QED BY <1>1, <1>2, <2>1
<1>4. LocalCost(m, w[1]) \in Int /\ LocalCost(w[Len(w)], m) \in Int
  BY <1>1, StepsCost
<1>5. WayCost(<<m>> \o w) = LocalCost(m, w[1]) + WayCost(w)
  <2> DEFINE v == <<m>> \o w
  <2>1. /\ v \in Seq(DOMAIN cost) /\ v # <<>> /\ Len(v) = Len(w) + 1
        /\ v[1] = m /\ \A i \in 1..Len(w) : v[i + 1] = w[i]
    BY Prepended
  <2> HIDE DEF v
  <2>2. PICK g : CostsAlong(v, g) /\ WayCost(v) = g[Len(v)]
    BY <2>1, WayCostIs
  <2>3. \A i \in 1..Len(w) : g[i + 1] = g[1 + 1] + f[i]
    <3>0. PICK d \in Nat : d = 1
      OBVIOUS
    <3>1. PartOf(w, v, d)
      BY <1>1, <2>1, <3>0 DEF PartOf
    <3>2. Shifted(w, f, g, d)
      BY <1>2, <2>1, <2>2, <3>1, CostsShift, Zenon
    <3> QED BY <3>0, <3>2 DEF Shifted
  <2>4. 2 \in 2..Len(v) /\ 2 - 1 = 1 /\ v[2] = w[1]
    BY <1>1, <2>1
  <2>5. g[2] = LocalCost(m, w[1])
    <3>1. g[2] = g[1] + LocalCost(v[1], v[2]) /\ g[1] = 0
      BY <2>2, <2>4 DEF CostsAlong
    <3> DEFINE local == LocalCost(m, w[1])
    <3>2. g[2] = 0 + local /\ local \in Int
      BY <1>4, <2>1, <2>4, <3>1
    <3> HIDE DEF local
    <3>3. g[2] = local
      BY <3>2
    <3> QED BY <3>3 DEF local
  <2>6. WayCost(v) = g[Len(w) + 1] /\ g[Len(w) + 1] = g[1 + 1] + f[Len(w)]
    BY <1>1, <2>1, <2>2, <2>3
  <2> QED BY <1>2, <2>5, <2>6 DEF v
<1>6. WayCost(Append(w, m)) = WayCost(w) + LocalCost(w[Len(w)], m)
  <2> DEFINE v == Append(w, m)
  <2>1. /\ v \in Seq(DOMAIN cost) /\ v # <<>> /\ Len(v) = Len(w) + 1
        /\ v[Len(w) + 1] = m /\ \A i \in 1..Len(w) : v[i] = w[i]
    BY <1>1
  <2> HIDE DEF v
  <2>2. PICK g : CostsAlong(v, g) /\ WayCost(v) = g[Len(v)]
    BY <2>1, WayCostIs
  <2>3. g[Len(w)] = f[Len(w)]
    <3>0. PICK d \in Nat : d = 0
      OBVIOUS
    <3>1. PartOf(w, v, d)
      BY <1>1, <2>1, <3>0 DEF PartOf
    <3>2. Shifted(w, f, g, d)
      BY <1>2, <2>1, <2>2, <3>1, CostsShift, Zenon
    <3>3. Len(w) + d = Len(w) /\ 1 + d = 1
      BY <1>1, <3>0
    <3>4. g[1] = 0 /\ f[Len(w)] \in Int
      BY <1>2, <1>3, <2>2 DEF CostsAlong
    <3>5. g[Len(w)] = 0 + f[Len(w)]
      BY <1>1, <3>2, <3>3, <3>4 DEF Shifted
    <3> QED BY <3>4, <3>5
  <2>5. Len(v) \in 2..Len(v) /\ Len(v) - 1 = Len(w)
    BY <1>1, <2>1
  <2>6. g[Len(v)] = g[Len(w)] + LocalCost(v[Len(w)], v[Len(v)])
    BY <2>2, <2>5 DEF CostsAlong
  <2> QED BY <1>1, <1>2, <2>1, <2>2, <2>3, <2>6 DEF v
<1> QED BY <1>3, <1>5, <1>6

LEMMA FirstCostsNothing ==
  ASSUME LatticeAssumption, LatticeInv, NEW n \in DOMAIN cost
  PROVE  WayCost(<<n>>) = 0
<1>1. PICK w : w = <<n>>
  OBVIOUS
<1>2. w \in Seq(DOMAIN cost) /\ w # <<>> /\ Len(w) = 1
  BY <1>1
<1>3. PICK f : CostsAlong(w, f) /\ WayCost(w) = f[Len(w)]
  BY <1>2, WayCostIs
<1> QED BY <1>1, <1>2, <1>3 DEF CostsAlong

BosFree == search # "failed" => cost[Bos] = 0

\* No way gets anywhere for less than the node says.
LEMMA LeastAlong ==
  ASSUME LatticeAssumption, LatticeInv, NEW w, Chain(w), w[1] = Bos, cost[Bos] = 0,
         NEW f, CostsAlong(w, f)
  PROVE  \A i \in 1..Len(w) : cost[w[i]] <= f[i]
<1>1. w \in Seq(DOMAIN cost) /\ Len(w) \in Nat \ {0} /\ f \in [1..Len(w) -> Int]
  BY ChainShape DEF Chain, CostsAlong
<1> DEFINE P == {k \in Nat : k + 1 <= Len(w) => cost[w[k + 1]] <= f[k + 1]}
<1>2. P \in SUBSET Nat /\ 0 \in P
  <2>1. f[1] = 0 /\ cost[w[1]] = 0
    BY DEF CostsAlong
  <2> QED BY <2>1
<1>3. ASSUME NEW k \in P PROVE k + 1 \in P
  <2> SUFFICES ASSUME (k + 1) + 1 <= Len(w) PROVE cost[w[(k + 1) + 1]] <= f[(k + 1) + 1]
    OBVIOUS
  <2> DEFINE j == k + 1
  <2>1. /\ j \in 1..Len(w) /\ j + 1 \in 1..Len(w) /\ j + 1 \in 2..Len(w) /\ (j + 1) - 1 = j
        /\ cost[w[j]] <= f[j]
    BY <1>1
  <2> HIDE DEF j
  <2>2. w[j + 1] # Bos /\ w[j] \in Lefts(w[j + 1]) /\ w[j + 1] \in DOMAIN cost /\ w[j] \in DOMAIN cost
    BY <1>1, <2>1 DEF Chain
  <2>3. cost[w[j + 1]] <= cost[w[j]] + LocalCost(w[j], w[j + 1])
    BY <2>2 DEF LatticeInv, CheapestLeft, CostBehind
  <2>4. f[j + 1] = f[j] + LocalCost(w[j], w[j + 1])
    BY <2>1 DEF CostsAlong
  <2>5. /\ LocalCost(w[j], w[j + 1]) \in Int /\ cost[w[j]] \in Int /\ cost[w[j + 1]] \in Int
        /\ f[j] \in Int
    BY <1>1, <2>1, <2>2, StepsCost
  <2> DEFINE local == LocalCost(w[j], w[j + 1])
             a == cost[w[j]]
             b == cost[w[j + 1]]
  <2>6. b <= a + local /\ f[j + 1] = f[j] + local /\ local \in Int /\ a \in Int /\ b \in Int
        /\ a <= f[j]
    BY <2>1, <2>3, <2>4, <2>5
  <2> HIDE DEF local, a, b
  <2>7. b <= f[j + 1]
    BY <2>5, <2>6
  <2> QED BY <2>7 DEF b, j
<1>4. \A k \in Nat : k \in P
  <2> HIDE DEF P
  <2> QED BY <1>2, <1>3, Induction
<1> SUFFICES ASSUME NEW i \in 1..Len(w) PROVE cost[w[i]] <= f[i]
  OBVIOUS
<1>5. i - 1 \in Nat /\ (i - 1) + 1 = i /\ i <= Len(w)
  BY <1>1
<1> QED BY <1>4, <1>5

\* So a way costs at least what its end says, and what one of its nodes says
\* and the rest costs.
LEMMA WayCostsAtLeast ==
  ASSUME LatticeAssumption, LatticeInv, NEW w, Chain(w), w[1] = Bos, cost[Bos] = 0
  PROVE  /\ cost[w[Len(w)]] <= WayCost(w)
         /\ \A v \in Seq(DOMAIN cost), d \in Nat :
              v # <<>> /\ PartOf(v, w, d) /\ Len(w) = Len(v) + d =>
                cost[v[1]] + WayCost(v) <= WayCost(w)
<1>1. w \in Seq(DOMAIN cost) /\ w # <<>> /\ Len(w) \in 1..Len(w)
  BY ChainShape DEF Chain
<1>2. PICK g : CostsAlong(w, g) /\ WayCost(w) = g[Len(w)]
  BY <1>1, WayCostIs
<1>3. \A i \in 1..Len(w) : cost[w[i]] <= g[i]
  BY <1>2, LeastAlong
<1>4. ASSUME NEW v \in Seq(DOMAIN cost), NEW d \in Nat,
             v # <<>>, PartOf(v, w, d), Len(w) = Len(v) + d
      PROVE  cost[v[1]] + WayCost(v) <= WayCost(w)
  <2>1. PICK f : CostsAlong(v, f) /\ WayCost(v) = f[Len(v)]
    BY <1>4, WayCostIs
  <2>2. Shifted(v, f, g, d)
    BY <1>1, <1>2, <1>4, <2>1, CostsShift, Zenon
  <2>3. /\ Len(v) \in Nat \ {0} /\ 1 \in 1..Len(v) /\ Len(v) \in 1..Len(v)
        /\ v[1] \in DOMAIN cost
    BY <1>4, ChainShape
  <2>4. WayCost(w) = g[1 + d] + WayCost(v)
    BY <1>2, <1>4, <2>1, <2>2, <2>3 DEF Shifted
  <2>5. 1 + d \in 1..Len(w) /\ w[1 + d] = v[1]
    BY <1>4, <2>3 DEF PartOf
  <2>6. cost[v[1]] <= g[1 + d]
    BY <1>3, <2>5
  <2>7. cost[v[1]] \in Int /\ g[1 + d] \in Int /\ f[Len(v)] \in Int
    <3>1. f \in [1..Len(v) -> Int] /\ g \in [1..Len(w) -> Int]
      BY <1>2, <2>1 DEF CostsAlong
    <3> QED BY <2>3, <2>5, <3>1, StepsCost
  <2> QED BY <2>1, <2>4, <2>6, <2>7
<1> QED BY <1>1, <1>2, <1>3, <1>4

\* And the answer costs what the end says.
LEMMA BestCosts ==
  ASSUME LatticeAssumption, LatticeInv, WordsInv, search = "found", cost[Bos] = 0,
         NEW to, Backwards(to)
  PROVE  \A n \in DOMAIN cost : WayCost(to[n]) = cost[n]
<1> DEFINE P == {k \in Nat : \A n \in DOMAIN cost : Depth[n] < k => WayCost(to[n]) = cost[n]}
<1>1. \A n \in DOMAIN cost \ {Bos} :
        prev[n] \in Lefts(n) /\ prev[n] \in DOMAIN cost /\ cost[n] = CostBehind(prev[n], n)
  BY DEF LatticeInv, LatticeTypeOK, CheapestLeft
<1>2. /\ \A n \in DOMAIN cost : Depth[n] \in Nat
      /\ \A n \in DOMAIN cost \ {Bos} : Depth[prev[n]] < Depth[n]
  BY <1>1, DepthGrows
<1>3. Bos \in DOMAIN cost /\ \A n \in DOMAIN cost : WayTo(to[n], n)
  BY BackwardsIsWay DEF LatticeInv
<1>4. P \in SUBSET Nat /\ 0 \in P
  BY <1>2
<1>5. ASSUME NEW k \in P PROVE k + 1 \in P
  <2> SUFFICES ASSUME NEW n \in DOMAIN cost, Depth[n] < k + 1 PROVE WayCost(to[n]) = cost[n]
    OBVIOUS
  <2>1. CASE n = Bos
    <3>1. to[n] = <<n>>
      BY <2>1 DEF Backwards
    <3> QED BY <2>1, <3>1, FirstCostsNothing
  <2>2. CASE n # Bos
    <3>1. /\ prev[n] \in DOMAIN cost /\ Depth[prev[n]] < Depth[n]
          /\ Depth[n] \in Nat /\ Depth[prev[n]] \in Nat /\ k \in Nat
      BY <1>1, <1>2, <2>2
    <3>2. Depth[prev[n]] < k
      BY <3>1
    <3>3. WayCost(to[prev[n]]) = cost[prev[n]]
      BY <3>1, <3>2
    <3>4. to[n] = Append(to[prev[n]], n)
      BY <2>2 DEF Backwards
    <3>5. /\ to[prev[n]] \in Seq(DOMAIN cost) /\ to[prev[n]] # <<>>
          /\ to[prev[n]][Len(to[prev[n]])] = prev[n]
      BY <1>3, <3>1 DEF WayTo, Chain
    <3>6. WayCost(to[n]) = WayCost(to[prev[n]]) + LocalCost(prev[n], n)
      BY <3>4, <3>5, WayCostGrows
    <3> QED BY <1>1, <2>2, <3>3, <3>6 DEF CostBehind
  <2> QED BY <2>1, <2>2
<1>6. \A k \in Nat : k \in P
  <2> HIDE DEF P
  <2> QED BY <1>4, <1>5, Induction
<1>7. ASSUME NEW n \in DOMAIN cost PROVE WayCost(to[n]) = cost[n]
  <2>1. Depth[n] + 1 \in Nat /\ Depth[n] < Depth[n] + 1
    BY <1>2
  <2> QED BY <1>6, <2>1
<1> QED BY <1>7

LEMMA FirstStepCosts == ASSUME NEW n PROVE WayCost(<<n>>) = 0
<1> DEFINE w == <<n>>
           Is(f) == f = [i \in 1..Len(w) |-> IF i = 1 THEN 0 ELSE f[i - 1] + LocalCost(w[i - 1], w[i])]
           nothing == [i \in 1..1 |-> 0]
           sum == CHOOSE f : Is(f)
<1>1. Len(w) = 1 /\ 1 \in 1..1 /\ \A i \in 1..1 : i = 1
  OBVIOUS
<1>2. Is(nothing)
  <2> DEFINE g == [i \in 1..Len(w) |-> IF i = 1 THEN 0 ELSE nothing[i - 1] + LocalCost(w[i - 1], w[i])]
  <2>1. g = [i \in 1..1 |-> 0]
    BY <1>1
  <2> QED BY <2>1
<1>3. Is(sum)
  <2> HIDE DEF Is
  <2> QED BY <1>2
<1>4. WayCost(w) = sum[Len(w)]
  BY DEF WayCost
<1>5. sum[1] = 0
  <2> HIDE DEF sum
  <2> QED BY <1>1, <1>3
<1> QED BY <1>1, <1>4, <1>5

-----------------------------------------------------------------------------
(* The order of the readings.                                              *)

LEMMA BosStaysFree ==
  ASSUME LatticeAssumption, LatticeInv, BosFree, [LatticeNext]_latticeVars
  PROVE  BosFree'
<1>0. sentence \in Sentences /\ Len(sentence) \in Nat
  BY BosIsNode DEF LatticeInv, LatticeTypeOK
<1>1. ASSUME NEW list, Connect(list), \A n \in list : n # Bos, search = "forward"
      PROVE  cost'[Bos] = 0
  <2>1. Bos \in DOMAIN cost /\ cost[Bos] = 0 /\ Bos \notin list
    BY <1>1 DEF LatticeInv, BosFree
  <2>2. cost'[Bos] = cost[Bos]
    BY <1>1, <2>1 DEF Connect
  <2> QED BY <2>1, <2>2
<1>2. CASE Extend
  <2>1. search = "forward" /\ place < Len(sentence)
    BY <1>2 DEF Extend
  <2>2. TooLong(Lookup) \/ Connect(Lookup)
    BY <1>2 DEF Extend
  <2>3. \A n \in Lookup : n # Bos
    <3>1. place \in 0..Len(sentence) - 1
      BY <1>0, <2>1 DEF LatticeInv, LatticeTypeOK
    <3>2. \A n \in Lookup : n.upto \in place + 1..Len(sentence) + 1
      BY <1>0, <3>1, LookupForward
    <3>3. \A n \in Lookup : n.upto # 0
      <4> HIDE DEF Lookup
      <4> QED BY <1>0, <3>1, <3>2
    <3>4. Bos.upto = 0
      BY <1>0, BosIsNode
    <3> QED BY <3>3, <3>4
  <2> QED BY <1>1, <2>1, <2>2, <2>3 DEF BosFree, TooLong
<1>3. CASE EndOfSentence
  <2>1. search = "forward"
    BY <1>3 DEF EndOfSentence
  <2>2. PICK last \in 0..Len(sentence) : TooLong({Eos(last)}) \/ Connect({Eos(last)})
    BY <1>3 DEF EndOfSentence
  <2>3. Eos(last).upto # Bos.upto
    BY <1>0, BosIsNode
  <2>4. \A n \in {Eos(last)} : n # Bos
    BY <2>3
  <2> QED BY <1>1, <2>1, <2>2, <2>4 DEF BosFree, TooLong
<1>4. CASE Pass \/ Give \/ Expand \/ UNCHANGED latticeVars
  BY <1>4 DEF Pass, Give, Expand, latticeVars, BosFree
<1> QED BY <1>2, <1>3, <1>4 DEF LatticeNext

\* A reading, and an element of the queue it may still come out of: the element
\* is its end, behind d of its nodes.
Whole(w) == Chain(w) /\ w[1] = Bos /\ ToEnd(w)
EndOf(e, w, d) == d \in Nat /\ PartOf(e.path, w, d) /\ Len(w) = Len(e.path) + d
Queued(w) == \E e \in agenda : \E d : EndOf(e, w, d)

\* No reading that ends like an element costs less than this.
Least(e) == cost[e.path[1]] + e.gx

\* Only the first element of all, the end alone, is not in the order of Least.
OrderInv ==
  search = "found" =>
    /\ \A e \in agenda : /\ e.gx = WayCost(e.path)
                         /\ e.fx = Least(e) \/ (readings = {} /\ agenda = {e})
    /\ \A w \in readings, e \in agenda : WayCost(w) <= Least(e)
    /\ \A w : Whole(w) => w \in readings \/ Queued(w)

LEMMA OrderEnd ==
  ASSUME LatticeAssumption, LatticeInv, WordsInv, WordsInv', ChainsInv, EndOfSentence
  PROVE  OrderInv'
<1>1. search = "forward" /\ readings' = readings /\ sentence' = sentence
  BY DEF EndOfSentence
<1>2. readings' = {}
  BY <1>1 DEF ChainsInv
<1>3. PICK last \in 0..Len(sentence) :
        \/ TooLong({Eos(last)})
        \/ /\ Connect({Eos(last)}) /\ search' = "found"
           /\ agenda' = {[path |-> <<Eos(last)>>, fx |-> 0, gx |-> 0]}
  BY DEF EndOfSentence
<1>4. CASE TooLong({Eos(last)})
  BY <1>4 DEF TooLong, OrderInv
<1>5. CASE /\ Connect({Eos(last)}) /\ search' = "found"
           /\ agenda' = {[path |-> <<Eos(last)>>, fx |-> 0, gx |-> 0]}
  <2>1. PICK eos : eos = Eos(last)
    OBVIOUS
  <2>2. eos \in DOMAIN cost' /\ eos.upto = Len(sentence) + 2
    BY <1>5, <2>1, BosIsNode DEF Connect, LatticeInv, LatticeTypeOK
  <2>3. PICK e : e = [path |-> <<eos>>, fx |-> 0, gx |-> 0]
    OBVIOUS
  <2>4. agenda' = {e}
    BY <1>5, <2>1, <2>3
  <2>5. e.gx = WayCost(e.path) /\ Len(e.path) = 1 /\ e.path[1] = eos
    BY <2>3, FirstStepCosts
  <2>6. ASSUME NEW w, Whole(w)' PROVE Queued(w)'
    <3>1. /\ w \in Seq(DOMAIN cost') /\ w # <<>>
          /\ w[Len(w)].upto = Len(sentence) + 2
      BY <1>1, <2>6 DEF Whole, Chain, ToEnd
    <3>2. Len(w) \in Nat \ {0} /\ w[Len(w)] \in DOMAIN cost'
      BY <3>1, ChainShape
    <3>3. w[Len(w)] = eos
      BY <1>1, <1>5, <2>2, <3>1, <3>2 DEF WordsInv
    <3> DEFINE N == Len(w)
    <3>4. PICK d : d = N - 1
      OBVIOUS
    <3>5. d \in Nat /\ 1 + d = N /\ \A i \in 1..1 : i + d = N /\ i = 1
      <4>1. N \in Nat \ {0}
        BY <3>2
      <4> HIDE DEF N
      <4> QED BY <3>4, <4>1
    <3>6. PartOf(e.path, w, d)
      BY <2>5, <3>2, <3>3, <3>5 DEF PartOf
    <3>7. EndOf(e, w, d)
      BY <2>5, <3>5, <3>6 DEF EndOf
    <3> QED BY <2>4, <3>7 DEF Queued
  <2> QED BY <1>2, <2>4, <2>5, <2>6 DEF OrderInv
<1> QED BY <1>3, <1>4, <1>5

LEMMA OrderGive ==
  ASSUME LatticeAssumption, LatticeInv, ChainsInv, BosFree, OrderInv, Give
  PROVE  OrderInv'
<1>1. PICK top \in agenda :
        /\ \A f \in agenda : top.fx <= f.fx
        /\ Head(top.path) = Bos /\ readings' = readings \cup {top.path}
        /\ agenda' = agenda \ {top}
  BY DEF Give, Tops
<1>2. UNCHANGED <<sentence, cost, search>>
  BY DEF Give
<1>3. search = "found"
  BY <1>1 DEF ChainsInv
<1>4. Chain(top.path) /\ ToEnd(top.path) /\ top.path[1] = Bos /\ cost[Bos] = 0
  BY <1>1, <1>3, ChainShape DEF ChainsInv, Chain, BosFree
<1>5. \A e : Least(e)' = Least(e)
  BY <1>2 DEF Least
<1>6. \A w : Whole(w)' = Whole(w)
  BY <1>2, ChainsSame DEF Whole
<1>7. ASSUME NEW e \in agenda'
      PROVE  /\ e.gx = WayCost(e.path) /\ e.fx = Least(e)
             /\ \A w \in readings' : WayCost(w) <= Least(e)
  <2>1. e \in agenda /\ agenda # {e} /\ agenda # {top}
    BY <1>1, <1>7
  <2>2. e.gx = WayCost(e.path) /\ e.fx = Least(e) /\ top.fx = Least(top) /\ top.gx = WayCost(top.path)
    BY <1>3, <2>1 DEF OrderInv
  <2>3. \A w \in readings : WayCost(w) <= Least(e)
    BY <1>3, <2>1 DEF OrderInv
  <2>4. WayCost(top.path) <= Least(e)
    <3>1. top.gx \in Int
      BY DEF LatticeInv, LatticeTypeOK
    <3>2. Least(top) = top.gx
      BY <1>4, <3>1 DEF Least
    <3> QED BY <1>1, <2>1, <2>2, <3>2
  <2> QED BY <1>1, <2>2, <2>3, <2>4
<1>8. ASSUME NEW w, Whole(w) PROVE w \in readings' \/ Queued(w)'
  <2>1. CASE w \in readings
    BY <1>1, <2>1
  <2>2. CASE Queued(w)
    <3>1. PICK e \in agenda : \E d : EndOf(e, w, d)
      BY <2>2 DEF Queued
    <3>2. PICK d : EndOf(e, w, d)
      BY <3>1
    <3>3. CASE e # top
      BY <1>1, <3>2, <3>3 DEF Queued
    <3>4. CASE e = top
      <4>1. /\ d \in Nat /\ Len(w) = Len(top.path) + d /\ PartOf(top.path, w, d)
            /\ top.path \in Seq(DOMAIN cost) /\ top.path # <<>>
            /\ w \in Seq(DOMAIN cost) /\ w # <<>>
        BY <1>4, <1>8, <3>2, <3>4 DEF EndOf, Whole, Chain
      <4>2. /\ Len(top.path) \in Nat \ {0} /\ Len(w) \in Nat \ {0} /\ 1 \in 1..Len(top.path)
            /\ \A i \in 1..Len(top.path) : w[i + d] = top.path[i]
        BY <4>1, ChainShape DEF PartOf
      <4>3. w[1 + d] = Bos
        BY <1>4, <4>2
      <4>4. d = 0
        <5>1. 1 + d \notin 2..Len(w)
          BY <1>8, <4>3 DEF Whole, Chain
        <5> QED BY <4>1, <4>2, <5>1
      <4>5. Len(w) = Len(top.path) /\ \A i \in 1..Len(w) : w[i] = top.path[i]
        BY <4>1, <4>2, <4>4
      <4>6. w = top.path
        BY <4>1, <4>5, SeqEqual
      <4> QED BY <1>1, <4>6
    <3> QED BY <3>3, <3>4
  <2> QED BY <1>3, <1>8, <2>1, <2>2 DEF OrderInv
<1> QED BY <1>5, <1>6, <1>7, <1>8 DEF OrderInv

LEMMA OrderExpand ==
  ASSUME LatticeAssumption, LatticeInv, ChainsInv, OrderInv, Expand
  PROVE  OrderInv'
<1>1. PICK top \in agenda :
        /\ Head(top.path) # Bos
        /\ agenda' = (agenda \ {top}) \cup {Behind(top, m) : m \in Lefts(Head(top.path))}
  BY DEF Expand, Tops
<1>2. UNCHANGED <<sentence, cost, search, readings>>
  BY DEF Expand
<1>3. search = "found"
  BY <1>1 DEF ChainsInv
<1>4. PICK head : head = Head(top.path)
  OBVIOUS
<1>5. /\ Chain(top.path) /\ top.path \in Seq(DOMAIN cost) /\ top.path # <<>>
      /\ top.path[1] = head /\ head # Bos /\ head \in DOMAIN cost
      /\ top.gx \in Int /\ top.gx = WayCost(top.path)
  <2>1. Chain(top.path) /\ top.path \in Seq(DOMAIN cost) /\ top.path # <<>>
    BY <1>1 DEF ChainsInv, Chain
  <2>2. top.gx \in Int
    BY DEF LatticeInv, LatticeTypeOK
  <2> QED BY <1>1, <1>3, <1>4, <2>1, <2>2, ChainShape DEF OrderInv
<1>6. \A e : Least(e)' = Least(e)
  BY <1>2 DEF Least
<1>7. \A w : Whole(w)' = Whole(w)
  BY <1>2, ChainsSame DEF Whole
<1>8. ASSUME NEW m \in Lefts(head)
      PROVE  LET e == Behind(top, m)
             IN /\ e.path = <<m>> \o top.path /\ e.path[1] = m /\ e.gx = WayCost(e.path)
                /\ e.fx = Least(e)
                /\ Least(top) <= Least(e) /\ Least(e) \in Int /\ Least(top) \in Int
  <2>1. PICK e : e = Behind(top, m)
    OBVIOUS
  <2>2. m \in DOMAIN cost
    BY DEF Lefts, EndingAt
  <2>3. PICK local : local = LocalCost(m, head)
    OBVIOUS
  <2>4. local \in Int /\ cost[m] \in Int /\ cost[head] \in Int
    BY <1>5, <2>2, <2>3, StepsCost
  <2>5. /\ e.path = <<m>> \o top.path /\ e.gx = local + top.gx /\ e.fx = cost[m] + e.gx
    BY <1>4, <2>1, <2>3 DEF Behind
  <2>6. e.path[1] = m
    BY <1>5, <2>2, <2>5, Prepended
  <2>7. e.gx = WayCost(e.path)
    <3>1. WayCost(<<m>> \o top.path) = LocalCost(m, top.path[1]) + WayCost(top.path)
      BY <1>5, <2>2, WayCostGrows
    <3> QED BY <1>5, <2>3, <2>5, <3>1
  <2>8. cost[head] <= cost[m] + local
    BY <1>5, <2>3 DEF LatticeInv, CheapestLeft, CostBehind
  <2>9. Least(e) = cost[m] + e.gx /\ Least(top) = cost[head] + top.gx
    BY <1>5, <2>6 DEF Least
  <2>10. Least(top) <= Least(e) /\ Least(e) \in Int /\ Least(top) \in Int
    <3> DEFINE a == cost[m]
               b == cost[head]
               g == top.gx
               h == e.gx
               low == Least(top)
               high == Least(e)
    <3>1. /\ a \in Int /\ b \in Int /\ b <= a + local /\ g \in Int /\ h = local + g
          /\ high = a + h /\ low = b + g
      BY <1>5, <2>4, <2>5, <2>8, <2>9
    <3>2. low <= high /\ high \in Int /\ low \in Int
      <4> HIDE DEF a, b, g, h, low, high
      <4> QED BY <2>4, <3>1
    <3> QED BY <3>2
  <2> QED BY <2>1, <2>5, <2>6, <2>7, <2>9, <2>10
<1>9. ASSUME NEW e \in agenda'
      PROVE  /\ e.gx = WayCost(e.path) /\ e.fx = Least(e)
             /\ \A w \in readings : WayCost(w) <= Least(e)
  <2>1. CASE e \in agenda \ {top}
    <3>1. e \in agenda /\ agenda # {e}
      BY <2>1
    <3> QED BY <1>3, <3>1 DEF OrderInv
  <2>2. CASE e \notin agenda \ {top}
    <3>1. PICK m \in Lefts(head) : e = Behind(top, m)
      BY <1>1, <1>4, <2>2
    <3>2. /\ e.gx = WayCost(e.path) /\ e.fx = Least(e)
          /\ Least(top) <= Least(e) /\ Least(e) \in Int /\ Least(top) \in Int
      BY <1>8, <3>1
    <3>3. ASSUME NEW w \in readings PROVE WayCost(w) <= Least(e)
      <4>1. WayCost(w) <= Least(top)
        BY <1>3 DEF OrderInv
      <4>2. WayCost(w) \in Int
        <5>1. w \in Seq(DOMAIN cost) /\ w # <<>> /\ Bos \in DOMAIN cost
          BY <1>3 DEF ChainsInv, Chain, LatticeInv
        <5> QED BY <5>1, WayCostGrows
      <4> QED BY <3>2, <4>1, <4>2
    <3> QED BY <3>2, <3>3
  <2> QED BY <2>1, <2>2
<1>10. ASSUME NEW w, Whole(w) PROVE w \in readings \/ Queued(w)'
  <2> SUFFICES ASSUME Queued(w) PROVE Queued(w)'
    BY <1>3, <1>10 DEF OrderInv
  <2>1. PICK e \in agenda : \E d : EndOf(e, w, d)
    BY DEF Queued
  <2>2. PICK d : EndOf(e, w, d)
    BY <2>1
  <2>3. CASE e # top
    BY <1>1, <2>2, <2>3 DEF Queued
  <2>4. CASE e = top
    <3>1. /\ d \in Nat /\ Len(w) = Len(top.path) + d /\ Len(top.path) \in Nat \ {0}
          /\ w \in Seq(DOMAIN cost) /\ w # <<>> /\ w[1] = Bos
          /\ \A i \in 1..Len(top.path) : w[i + d] = top.path[i]
      BY <1>5, <1>10, <2>2, <2>4, ChainShape DEF EndOf, PartOf, Whole, Chain
    <3>2. w[1 + d] = head /\ d # 0
      <4>1. w[1 + d] = head
        <5>1. PICK i : i = 1
          OBVIOUS
        <5>2. i \in 1..Len(top.path)
          BY <3>1, <5>1
        <5>3. w[i + d] = top.path[i]
          BY <3>1, <5>2
        <5> QED BY <1>5, <5>1, <5>3
      <4>2. d = 0 => 1 + d = 1
        OBVIOUS
      <4> QED BY <1>5, <3>1, <4>1, <4>2
    <3>3. PICK m : m = w[d]
      OBVIOUS
    <3>4. m \in Lefts(head) /\ m \in DOMAIN cost
      <4>1. 1 + d \in 2..Len(w) /\ (1 + d) - 1 = d
        BY <3>1, <3>2
      <4>2. w[(1 + d) - 1] \in Lefts(w[1 + d])
        BY <1>10, <4>1 DEF Whole, Chain
      <4> QED BY <3>2, <3>3, <4>1, <4>2 DEF Lefts, EndingAt
    <3>5. PICK f : f = Behind(top, m)
      OBVIOUS
    <3>6. f \in agenda'
      BY <1>1, <1>4, <3>4, <3>5
    <3>7. /\ Len(f.path) = Len(top.path) + 1 /\ f.path[1] = m
          /\ \A i \in 1..Len(top.path) : f.path[i + 1] = top.path[i]
      <4>1. f.path = <<m>> \o top.path
        BY <1>8, <3>4, <3>5
      <4> QED BY <1>5, <3>4, <4>1, Prepended
    <3>8. PICK c : c = d - 1
      OBVIOUS
    <3>9. c \in Nat /\ c + 1 = d
      <4>1. d \in Nat /\ d # 0
        BY <3>1, <3>2
      <4> QED BY <3>8, <4>1
    <3>10. ASSUME NEW i \in 1..Len(f.path) PROVE w[i + c] = f.path[i]
      <4>1. CASE i = 1
        BY <3>3, <3>7, <3>9, <4>1
      <4>2. CASE i # 1
        <5>1. PICK j : j = i - 1
          OBVIOUS
        <5>2. j \in 1..Len(top.path) /\ j + 1 = i /\ j + d = i + c
          BY <3>1, <3>7, <3>9, <4>2, <5>1
        <5>3. f.path[j + 1] = top.path[j] /\ w[j + d] = top.path[j]
          BY <3>1, <3>7, <5>2
        <5> QED BY <5>2, <5>3
      <4> QED BY <4>1, <4>2
    <3>11. Len(w) = Len(f.path) + c /\ Len(f.path) + c <= Len(w)
      <4> DEFINE p == Len(top.path)
                 q == Len(f.path)
                 r == Len(w)
      <4>1. p \in Nat /\ q = p + 1 /\ r = p + d /\ c + 1 = d /\ c \in Nat
        BY <3>1, <3>7, <3>9
      <4>2. r = q + c /\ q + c <= r
        <5> HIDE DEF p, q, r
        <5> QED BY <4>1
      <4> QED BY <4>2
    <3>12. EndOf(f, w, c)
      BY <3>9, <3>10, <3>11 DEF EndOf, PartOf
    <3> QED BY <3>6, <3>12 DEF Queued
  <2> QED BY <2>3, <2>4
<1> QED BY <1>2, <1>6, <1>7, <1>9, <1>10 DEF OrderInv

LEMMA OrderStep ==
  ASSUME LatticeAssumption, LatticeInv, WordsInv, WordsInv', ChainsInv, BosFree, OrderInv,
         [LatticeNext]_latticeVars
  PROVE  OrderInv'
<1>1. CASE UNCHANGED latticeVars
  <2>1. UNCHANGED <<sentence, cost, search, agenda, readings>>
    BY <1>1 DEF latticeVars
  <2>2. \A w : Whole(w)' = Whole(w)
    BY <2>1, ChainsSame DEF Whole
  <2>3. \A w : Queued(w)' = Queued(w)
    BY <2>1 DEF Queued
  <2>4. \A e : Least(e)' = Least(e)
    BY <2>1 DEF Least
  <2> QED BY <2>1, <2>2, <2>3, <2>4 DEF OrderInv
<1>2. CASE Pass \/ Extend
  <2>1. search' # "found"
    BY <1>2 DEF Pass, Extend, TooLong
  <2> QED BY <2>1 DEF OrderInv
<1> QED BY <1>1, <1>2, OrderEnd, OrderGive, OrderExpand DEF LatticeNext

OrderedInv == ReadingInv /\ BosFree /\ OrderInv

LEMMA OrderInvariant == LatticeSpec => []OrderedInv
<1>1. LatticeInit => OrderedInv
  <2> SUFFICES ASSUME LatticeInit PROVE OrderedInv
    OBVIOUS
  <2>1. ReadingInv
    BY LatticeAssumption, LatticeStart, WordsStart DEF ReadingInv, ChainsInv, LatticeInit
  <2>2. BosFree /\ OrderInv
    BY DEF LatticeInit, BosFree, OrderInv
  <2> QED BY <2>1, <2>2 DEF OrderedInv
<1>2. OrderedInv /\ [LatticeNext]_latticeVars => OrderedInv'
  <2> SUFFICES ASSUME OrderedInv, [LatticeNext]_latticeVars PROVE OrderedInv'
    OBVIOUS
  <2>1. LatticeInv' /\ WordsInv' /\ ChainsInv'
    BY LatticeAssumption, LatticeStep, WordsStep, ChainsStep DEF ReadingInv, OrderedInv
  <2>2. BosFree' /\ OrderInv'
    BY <2>1, LatticeAssumption, BosStaysFree, OrderStep DEF ReadingInv, OrderedInv
  <2> QED BY <2>1, <2>2 DEF ReadingInv, OrderedInv
<1> QED BY <1>1, <1>2, PTL DEF LatticeSpec

LEMMA AnswerIsLeast ==
  ASSUME LatticeAssumption, LatticeInv, WordsInv, BosFree
  PROVE  BestIsLeast
<1> SUFFICES ASSUME search = "found"
             PROVE  /\ BestWay \in Ways /\ WayCost(BestWay) = cost[TheEnd]
                    /\ \A way \in Ways : WayCost(BestWay) <= WayCost(way)
  BY DEF BestIsLeast
<1>1. cost[Bos] = 0 /\ TheEnd \in DOMAIN cost
  BY TheEndIsLast DEF BosFree
<1>2. PICK to : Backwards(to) /\ BestWay = to[TheEnd]
  BY BestWayExists
<1>3. WayTo(BestWay, TheEnd)
  BY <1>1, <1>2, BackwardsIsWay
<1>4. WayCost(BestWay) = cost[TheEnd]
  BY <1>1, <1>2, BestCosts
<1>5. ASSUME NEW way \in Ways PROVE cost[TheEnd] <= WayCost(way)
  <2>1. WayTo(way, TheEnd)
    BY WaysAreAll
  <2>2. Chain(way) /\ way[1] = Bos /\ way[Len(way)] = TheEnd
    BY <2>1 DEF WayTo
  <2> QED BY <1>1, <2>2, WayCostsAtLeast
<1>6. BestWay \in Ways
  BY <1>3, WaysAreAll
<1> QED BY <1>4, <1>5, <1>6

LEMMA ReadingsOrdered == LatticeAssumption /\ OrderedInv => ReadingsInOrder
<1> SUFFICES ASSUME LatticeAssumption, OrderedInv PROVE ReadingsInOrder
  OBVIOUS
<1>1. LatticeInv /\ WordsInv /\ ChainsInv /\ BosFree /\ OrderInv
  BY DEF OrderedInv, ReadingInv
<1>2. search = "found" => \A w : w \in Ways <=> Whole(w)
  BY <1>1, WaysAreAll, TheEndIsLast DEF Whole
<1>3. CheapestFirst
  <2> SUFFICES ASSUME search = "found", NEW given \in readings, NEW way \in Ways \ readings
               PROVE  WayCost(given) <= WayCost(way)
    BY DEF CheapestFirst
  <2>1. Whole(way) /\ Queued(way)
    BY <1>1, <1>2 DEF OrderInv
  <2>2. PICK e \in agenda : \E d : EndOf(e, way, d)
    BY <2>1 DEF Queued
  <2>3. PICK d : EndOf(e, way, d)
    BY <2>2
  <2>4. WayCost(given) <= Least(e) /\ e.gx = WayCost(e.path)
    BY <1>1 DEF OrderInv
  <2>5. Chain(e.path) /\ e.path \in Seq(DOMAIN cost) /\ e.path # <<>>
    BY <1>1 DEF ChainsInv, Chain
  <2>6. PICK v : v = e.path
    OBVIOUS
  <2>7. cost[v[1]] + WayCost(v) <= WayCost(way)
    BY <1>1, <2>1, <2>3, <2>5, <2>6, WayCostsAtLeast DEF EndOf, Whole, BosFree
  <2>8. WayCost(given) \in Int /\ WayCost(way) \in Int /\ Least(e) \in Int
    <3>1. given \in Seq(DOMAIN cost) /\ given # <<>> /\ Bos \in DOMAIN cost
      BY <1>1 DEF ChainsInv, Chain, LatticeInv
    <3>2. way \in Seq(DOMAIN cost) /\ way # <<>>
      BY <2>1 DEF Whole, Chain
    <3>3. cost[v[1]] \in Int /\ e.gx \in Int
      BY <1>1, <2>5, <2>6, ChainShape, StepsCost DEF LatticeInv, LatticeTypeOK
    <3>4. Least(e) \in Int
      BY <2>6, <3>3 DEF Least
    <3> QED BY <1>1, <3>1, <3>2, <3>4, WayCostGrows
  <2>9. Least(e) <= WayCost(way)
    BY <2>4, <2>6, <2>7 DEF Least
  <2> QED BY <2>4, <2>8, <2>9
<1>4. NoneMissing
  <2> SUFFICES ASSUME search = "found", agenda = {} PROVE readings = Ways
    BY DEF NoneMissing
  <2>1. \A w : ~Queued(w)
    BY DEF Queued
  <2>2. \A w : Whole(w) => w \in readings
    BY <1>1, <2>1 DEF OrderInv
  <2>3. \A w \in readings : Whole(w)
    BY <1>1 DEF ChainsInv, Whole
  <2> QED BY <1>2, <2>2, <2>3
<1> QED BY <1>1, <1>3, <1>4, AnswerIsLeast DEF ReadingsInOrder

(* Whatever the dictionary, the costs and the sentence: what the analysis   *)
(* answers is the cheapest way there is, the readings come in the order of  *)
(* their costs, and when none is left every way through the lattice was     *)
(* given.  It is so because an element of the queue is ordered by what the  *)
(* cheapest of its readings costs.                                          *)
THEOREM ReadingsComeInOrder == LatticeSpec => []ReadingsInOrder
<1>1. OrderedInv => ReadingsInOrder
  BY LatticeAssumption, ReadingsOrdered
<1>2. LatticeSpec => []OrderedInv
  BY OrderInvariant
<1> QED BY <1>1, <1>2, PTL
=================================================================================
