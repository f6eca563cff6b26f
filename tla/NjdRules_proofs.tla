---------------------------- MODULE NjdRules_proofs ----------------------------
(***************************************************************************)
(* Proofs about the list NJD and the rules that walk over it.  The list,    *)
(* for any number of addresses: its two directions always agree, no pointer *)
(* dangles, a sweep leaves no silent word behind it, and all of it is what  *)
(* the rules take it for, a sequence of words.  The rule for numbers, in a  *)
(* text of any length: its counters run out with the digits, so that no     *)
(* unit is looked up outside the tables and none is put behind the last     *)
(* word, and the words it leaves say the numbers that were written.  The    *)
(* rules for accents: words are joined to phrases, and a phrase ends up     *)
(* with its accent on one of its moras or on none, if what the dictionary   *)
(* says of a word fits the word.  The rule for whispered vowels: its window *)
(* is always where the running mora is, and the vowels it leaves whispered  *)
(* are those it may.                                                        *)
(***************************************************************************)
EXTENDS NjdList, NjdDigits, NjdAccent, NjdVowels, LeastElements, SequenceTheorems, FiniteSetTheorems, TLAPS

\* An address that is not allocated keeps no links (calloc clears a node).
Blank == \A n \in Nodes \ live : next[n] = Null /\ prev[n] = Null

ListInv == ListTypeOK /\ Linked /\ Blank /\ SweptClean

\* What Linked says of the word at place i.
LinkedAt(i) ==
  /\ next[words[i]] = (IF i = Len(words) THEN Null ELSE words[i + 1])
  /\ prev[words[i]] = (IF i = 1 THEN Null ELSE words[i - 1])

-----------------------------------------------------------------------------
\* A word of a sequence without repetitions is found at its place.
LEMMA PlaceOfWord ==
  ASSUME NEW S, NEW seq \in Seq(S), IsInjective(seq), NEW i \in 1..Len(seq)
  PROVE  Place(seq, seq[i]) = i
  BY DEF Place, IsInjective

LEMMA WordAtPlace ==
  ASSUME NEW S, NEW seq \in Seq(S), NEW n \in ToSet(seq)
  PROVE  Place(seq, n) \in 1..Len(seq) /\ seq[Place(seq, n)] = n
  BY DEF Place, ToSet

\* RemoveAt closes the gap.
LEMMA Removed ==
  ASSUME NEW S, NEW seq \in Seq(S), NEW k \in 1..Len(seq)
  PROVE  /\ RemoveAt(seq, k) \in Seq(S)
         /\ Len(RemoveAt(seq, k)) = Len(seq) - 1
         /\ \A i \in 1..(Len(seq) - 1) :
              RemoveAt(seq, k)[i] = IF i < k THEN seq[i] ELSE seq[i + 1]
<1> DEFINE a == SubSeq(seq, 1, k - 1)
           b == SubSeq(seq, k + 1, Len(seq))
<1>1. a \in Seq(S) /\ Len(a) = k - 1 /\ \A i \in 1..(k - 1) : a[i] = seq[i]
  <2>1. \A i \in 1..(k - 1) : seq[i] \in S
    OBVIOUS
  <2> QED
    BY <2>1, SubSeqProperties
<1>2. /\ b \in Seq(S) /\ Len(b) = Len(seq) - k
      /\ \A i \in 1..(Len(seq) - k) : b[i] = seq[k + i]
  <2>1. \A i \in (k + 1)..Len(seq) : seq[i] \in S
    OBVIOUS
  <2>2. k + 1 \in Int /\ Len(seq) \in Int
    OBVIOUS
  <2>3. /\ b \in Seq(S) /\ Len(b) = (IF k + 1 <= Len(seq) THEN Len(seq) - (k + 1) + 1 ELSE 0)
        /\ \A i \in 1..(Len(seq) - (k + 1) + 1) : b[i] = seq[(k + 1) + i - 1]
    BY <2>1, <2>2, SubSeqProperties
  <2> QED
    BY <2>3
<1> HIDE DEF a, b
<1>3. /\ a \o b \in Seq(S) /\ Len(a \o b) = Len(a) + Len(b)
      /\ \A i \in 1..(Len(a) + Len(b)) :
           (a \o b)[i] = IF i <= Len(a) THEN a[i] ELSE b[i - Len(a)]
  BY <1>1, <1>2, ConcatProperties
<1>4. RemoveAt(seq, k) = a \o b
  BY DEF RemoveAt, a, b
<1>5. k \in Nat /\ k <= Len(seq) /\ Len(seq) \in Nat
  OBVIOUS
<1>6. Len(a \o b) = Len(seq) - 1
  BY <1>1, <1>2, <1>3, <1>5
<1>7. ASSUME NEW i \in 1..(Len(seq) - 1)
      PROVE  (a \o b)[i] = IF i < k THEN seq[i] ELSE seq[i + 1]
  <2>1. CASE i < k
    BY <2>1, <1>1, <1>2, <1>3, <1>5
  <2>2. CASE i >= k
    <3>1. i - Len(a) \in 1..(Len(seq) - k) /\ ~(i <= Len(a)) /\ k + (i - Len(a)) = i + 1
      BY <2>2, <1>1, <1>5
    <3>2. (a \o b)[i] = b[i - Len(a)]
      BY <3>1, <1>1, <1>2, <1>3, <1>5
    <3>3. b[i - Len(a)] = seq[i + 1]
      BY <3>1, <1>2
    <3> QED
      BY <3>2, <3>3, <2>2
  <2>3. i < k \/ i >= k
    BY <1>5
  <2> QED
    BY <2>1, <2>2, <2>3
<1> QED
  BY <1>3, <1>4, <1>6, <1>7

\* A word taken out of a sequence without repetitions is gone, and the others
\* are there once.
LEMMA RemovedWord ==
  ASSUME NEW S, NEW seq \in Seq(S), IsInjective(seq), NEW k \in 1..Len(seq)
  PROVE  /\ IsInjective(RemoveAt(seq, k))
         /\ ToSet(RemoveAt(seq, k)) = ToSet(seq) \ {seq[k]}
<1> DEFINE t == RemoveAt(seq, k)
<1>1. /\ t \in Seq(S) /\ Len(t) = Len(seq) - 1
      /\ \A i \in 1..(Len(seq) - 1) : t[i] = IF i < k THEN seq[i] ELSE seq[i + 1]
  BY Removed
<1> HIDE DEF t
<1>2. \A i, j \in 1..Len(seq) : seq[i] = seq[j] => i = j
  BY DEF IsInjective
<1>3. IsInjective(t)
  BY <1>1, <1>2 DEF IsInjective
<1>4. ToSet(t) \subseteq ToSet(seq) \ {seq[k]}
  BY <1>1, <1>2 DEF ToSet
<1>5. ASSUME NEW i \in 1..Len(seq), i # k
      PROVE  seq[i] \in ToSet(t)
  <2>1. i < k => i \in 1..Len(t) /\ t[i] = seq[i]
    BY <1>1
  <2>2. i > k => i - 1 \in 1..Len(t) /\ t[i - 1] = seq[i]
    BY <1>1
  <2> QED
    BY <2>1, <2>2, <1>1, <1>5 DEF ToSet
<1>6. ToSet(seq) \ {seq[k]} \subseteq ToSet(t)
  BY <1>5 DEF ToSet
<1> QED
  BY <1>3, <1>4, <1>6 DEF t

\* InsertAt makes room.
LEMMA Inserted ==
  ASSUME NEW S, NEW seq \in Seq(S), NEW k \in 1..(Len(seq) + 1), NEW x \in S
  PROVE  /\ InsertAt(seq, k, x) \in Seq(S)
         /\ Len(InsertAt(seq, k, x)) = Len(seq) + 1
         /\ \A i \in 1..(Len(seq) + 1) :
              InsertAt(seq, k, x)[i] =
                IF i < k THEN seq[i] ELSE IF i = k THEN x ELSE seq[i - 1]
<1> DEFINE a == SubSeq(seq, 1, k - 1)
           b == SubSeq(seq, k, Len(seq))
           c == a \o <<x>>
<1>1. a \in Seq(S) /\ Len(a) = k - 1 /\ \A i \in 1..(k - 1) : a[i] = seq[i]
  <2>1. \A i \in 1..(k - 1) : seq[i] \in S
    OBVIOUS
  <2> QED
    BY <2>1, SubSeqProperties
<1>2. /\ b \in Seq(S) /\ Len(b) = Len(seq) - k + 1
      /\ \A i \in 1..(Len(seq) - k + 1) : b[i] = seq[k + i - 1]
  <2>1. \A i \in k..Len(seq) : seq[i] \in S
    OBVIOUS
  <2>2. k \in Int /\ Len(seq) \in Int
    OBVIOUS
  <2>3. /\ b \in Seq(S) /\ Len(b) = (IF k <= Len(seq) THEN Len(seq) - k + 1 ELSE 0)
        /\ \A i \in 1..(Len(seq) - k + 1) : b[i] = seq[k + i - 1]
    BY <2>1, <2>2, SubSeqProperties
  <2> QED
    BY <2>3
<1> HIDE DEF a, b
<1>3. /\ c \in Seq(S) /\ Len(c) = k
      /\ \A i \in 1..k : c[i] = IF i < k THEN seq[i] ELSE x
  BY <1>1
<1> HIDE DEF c
<1>4. /\ c \o b \in Seq(S) /\ Len(c \o b) = Len(c) + Len(b)
      /\ \A i \in 1..(Len(c) + Len(b)) :
           (c \o b)[i] = IF i <= Len(c) THEN c[i] ELSE b[i - Len(c)]
  BY <1>2, <1>3, ConcatProperties
<1>5. InsertAt(seq, k, x) = c \o b
  BY DEF InsertAt, a, b, c
<1> QED
  BY <1>2, <1>3, <1>4, <1>5

\* A new word is there once, and the others still are.
LEMMA InsertedWord ==
  ASSUME NEW S, NEW seq \in Seq(S), IsInjective(seq), NEW k \in 1..(Len(seq) + 1),
         NEW x \in S, x \notin ToSet(seq)
  PROVE  /\ IsInjective(InsertAt(seq, k, x))
         /\ ToSet(InsertAt(seq, k, x)) = ToSet(seq) \cup {x}
<1> DEFINE t == InsertAt(seq, k, x)
<1>1. /\ t \in Seq(S) /\ Len(t) = Len(seq) + 1
      /\ \A i \in 1..(Len(seq) + 1) :
           t[i] = IF i < k THEN seq[i] ELSE IF i = k THEN x ELSE seq[i - 1]
  BY Inserted
<1> HIDE DEF t
<1>2. /\ \A i, j \in 1..Len(seq) : seq[i] = seq[j] => i = j
      /\ \A i \in 1..Len(seq) : seq[i] # x
  BY DEF IsInjective, ToSet
<1>3. IsInjective(t)
  <2>1. ASSUME NEW i \in 1..Len(t), NEW j \in 1..Len(t), i < j
        PROVE  t[i] # t[j]
    <3>1. CASE i # k /\ j # k
      <4>1. t[i] = (IF i < k THEN seq[i] ELSE seq[i - 1]) /\ t[j] = (IF j < k THEN seq[j] ELSE seq[j - 1])
        BY <3>1, <1>1
      <4>2. CASE j < k
        BY <4>1, <4>2, <2>1, <1>1, <1>2
      <4>3. CASE i < k /\ j > k
        <5>1. i \in 1..Len(seq) /\ j - 1 \in 1..Len(seq) /\ i # j - 1
          BY <4>3, <1>1
        <5> QED
          BY <5>1, <4>1, <4>3, <1>2
      <4>4. CASE i > k
        <5>1. i - 1 \in 1..Len(seq) /\ j - 1 \in 1..Len(seq) /\ i - 1 # j - 1
          BY <4>4, <2>1, <1>1
        <5> QED
          BY <5>1, <4>1, <4>4, <2>1, <1>2
      <4> QED
        BY <4>2, <4>3, <4>4, <3>1, <2>1
    <3>2. CASE i = k
      BY <3>2, <2>1, <1>1, <1>2
    <3>3. CASE j = k
      BY <3>3, <2>1, <1>1, <1>2
    <3> QED
      BY <3>1, <3>2, <3>3
  <2> QED
    BY <2>1, <1>1 DEF IsInjective
<1>4. ToSet(t) \subseteq ToSet(seq) \cup {x}
  BY <1>1 DEF ToSet
<1>5. x \in ToSet(t)
  BY <1>1 DEF ToSet
<1>6. ASSUME NEW i \in 1..Len(seq)
      PROVE  seq[i] \in ToSet(t)
  <2>1. i < k => i \in 1..Len(t) /\ t[i] = seq[i]
    BY <1>1
  <2>2. i >= k => i + 1 \in 1..Len(t) /\ t[i + 1] = seq[i]
    BY <1>1
  <2>3. \A j \in 1..Len(t) : t[j] \in ToSet(t)
    BY <1>1 DEF ToSet
  <2>4. i < k \/ i >= k
    BY <1>6
  <2> QED
    BY <2>1, <2>2, <2>3, <2>4
<1>7. ToSet(seq) \subseteq ToSet(t)
  BY <1>6 DEF ToSet
<1> QED
  BY <1>3, <1>4, <1>5, <1>7 DEF t

-----------------------------------------------------------------------------
\* The invariant in terms of places.
LEMMA Links ==
  ASSUME ListTypeOK, Linked
  PROVE  /\ words \in Seq(Nodes) /\ words \in Seq(live) /\ Len(words) \in Nat
         /\ \A i, j \in 1..Len(words) : words[i] = words[j] => i = j
         /\ \A i \in 1..Len(words) : words[i] \in live /\ LinkedAt(i)
         /\ \A n \in live : Place(words, n) \in 1..Len(words) /\ words[Place(words, n)] = n
         /\ \A i \in 1..Len(words) : Place(words, words[i]) = i
<1>1. words \in Seq(live) /\ words \in Seq(Nodes) /\ Len(words) \in Nat
  BY DEF ListTypeOK
<1>0. IsInjective(words) /\ live = ToSet(words)
  BY DEF Linked
<1>2. \A i, j \in 1..Len(words) : words[i] = words[j] => i = j
  BY <1>0, <1>1 DEF IsInjective
<1>3. \A i \in 1..Len(words) : words[i] \in live /\ LinkedAt(i)
  BY <1>1 DEF Linked, LinkedAt
<1>4. \A n \in live : Place(words, n) \in 1..Len(words) /\ words[Place(words, n)] = n
  BY <1>0, <1>1, WordAtPlace
<1>5. \A i \in 1..Len(words) : Place(words, words[i]) = i
  BY <1>0, <1>1, PlaceOfWord
<1> QED
  BY <1>1, <1>2, <1>3, <1>4, <1>5

\* The ends in terms of places.
LEMMA Ends ==
  ASSUME ListTypeOK, Linked
  PROVE  /\ (head = Null) <=> (Len(words) = 0)
         /\ Len(words) > 0 => head = words[1] /\ tail = words[Len(words)]
         /\ Len(words) = 0 => head = Null /\ tail = Null /\ words = <<>>
<1>1. words \in Seq(live) /\ Len(words) \in Nat /\ Null \notin live
  BY ListAssumption DEF ListTypeOK
<1>2. (words = <<>>) <=> (Len(words) = 0)
  BY <1>1, EmptySeq
<1>3. Len(words) > 0 => words[1] \in live
  BY <1>1
<1> QED
  BY <1>1, <1>2, <1>3 DEF Linked

\* The empty list.
LEMMA ListStart == ListInit => ListInv
<1> SUFFICES ASSUME ListInit PROVE ListInv
  OBVIOUS
<1>1. words = <<>> /\ words \in Seq(live) /\ Len(words) = 0
  BY DEF ListInit
<1>2. ListTypeOK
  BY <1>1 DEF ListInit, ListTypeOK
<1>3. Linked
  <2>1. IsInjective(words)
    BY <1>1 DEF IsInjective
  <2>2. ToSet(words) = {}
    BY <1>1 DEF ToSet
  <2> QED
    BY <2>1, <2>2, <1>1 DEF ListInit, Linked
<1> QED
  BY <1>2, <1>3 DEF ListInit, ListInv, Blank, SweptClean

-----------------------------------------------------------------------------
(* NJD_remove_node.                                                        *)

\* Its four branches do one thing: each neighbour of the node, where it has
\* one, is linked to the other, and the ends move off the node.
LEMMA OneRemoval ==
  ASSUME ListTypeOK, Linked, NEW n \in live, RemoveNode(n)
  PROVE  /\ next' = Unlinked(next, n, prev[n], next[n])
         /\ prev' = Unlinked(prev, n, next[n], prev[n])
         /\ head' = IF n = head THEN next[n] ELSE head
         /\ tail' = IF n = tail THEN prev[n] ELSE tail
         /\ at' = next[n]
<1> DEFINE k == Place(words, n)
<1>1. /\ k \in 1..Len(words) /\ words[k] = n /\ Len(words) \in Nat
      /\ LinkedAt(k)
      /\ \A i, j \in 1..Len(words) : words[i] = words[j] => i = j
  BY Links
<1> HIDE DEF k
<1>2. Null \notin Nodes /\ live \subseteq Nodes
  BY ListAssumption DEF ListTypeOK
<1>3. head = words[1] /\ tail = words[Len(words)]
  BY <1>1, Ends
<1>4. (n = head <=> k = 1) /\ (n = tail <=> k = Len(words))
  BY <1>1, <1>3
<1>5. n = head => prev[n] = Null
  BY <1>1, <1>4 DEF LinkedAt
<1>6. n = tail => next[n] = Null
  BY <1>1, <1>4 DEF LinkedAt
<1>7. \A f, from, to : Unlinked(f, n, Null, to) = Unlinked(f, n, Null, from)
  BY <1>2 DEF Unlinked
<1>8. CASE RemoveAlone(n)
  BY <1>5, <1>6, <1>7, <1>8 DEF RemoveAlone
<1>9. CASE RemoveHead(n)
  BY <1>5, <1>7, <1>9 DEF RemoveHead
<1>10. CASE RemoveTail(n)
  BY <1>6, <1>7, <1>10 DEF RemoveTail
<1>11. CASE RemoveInner(n)
  BY <1>11 DEF RemoveInner
<1> QED
  BY <1>8, <1>9, <1>10, <1>11 DEF RemoveNode

\* The order of the words closes over the node that goes.
LEMMA RemovedLinks ==
  ASSUME ListTypeOK, Linked, NEW n \in live, RemoveNode(n),
         NEW k \in 1..Len(words), words[k] = n
  PROVE  /\ words' \in Seq(live') /\ Len(words') = Len(words) - 1
         /\ \A i \in 1..(Len(words) - 1) :
              words'[i] = IF i < k THEN words[i] ELSE words[i + 1]
         /\ IsInjective(words') /\ live' = ToSet(words')
         /\ \A i \in 1..Len(words') : LinkedAt(i)'
<1> DEFINE L == Len(words)
<1>1. /\ words \in Seq(Nodes) /\ words \in Seq(live) /\ L \in Nat
      /\ \A i, j \in 1..L : words[i] = words[j] => i = j
      /\ \A i \in 1..L : words[i] \in Nodes /\ LinkedAt(i)
      /\ Place(words, n) = k
  BY Links DEF ListTypeOK
<1>2. words' = RemoveAt(words, k) /\ live' = live \ {n}
  BY <1>1 DEF RemoveNode
<1>3. /\ words' \in Seq(Nodes) /\ Len(words') = L - 1
      /\ \A i \in 1..(L - 1) : words'[i] = IF i < k THEN words[i] ELSE words[i + 1]
  BY <1>1, <1>2, Removed
<1>4. IsInjective(words') /\ live' = ToSet(words')
  <2>1. IsInjective(words) /\ live = ToSet(words)
    BY DEF Linked
  <2> QED
    BY <2>1, <1>1, <1>2, RemovedWord
<1>5. words' \in Seq(live')
  <2>1. \A i \in 1..Len(words') : words'[i] \in live'
    BY <1>3, <1>4 DEF ToSet
  <2> QED
    BY <2>1, <1>3
<1>6. /\ \A m \in Nodes \ {n} : next'[m] = IF m = prev[n] THEN next[n] ELSE next[m]
      /\ \A m \in Nodes \ {n} : prev'[m] = IF m = next[n] THEN prev[n] ELSE prev[m]
  BY OneRemoval DEF Unlinked
<1>7. /\ next[n] = (IF k = L THEN Null ELSE words[k + 1])
      /\ prev[n] = (IF k = 1 THEN Null ELSE words[k - 1])
  BY <1>1 DEF LinkedAt
<1>8. Null \notin Nodes
  BY ListAssumption
<1>9. ASSUME NEW j \in 1..(L - 2)
       PROVE  words'[j + 1] = IF j + 1 < k THEN words[j + 1] ELSE words[j + 2]
  <2>1. j + 1 \in 1..(L - 1) /\ (j + 1) + 1 = j + 2
    BY <1>1
  <2>2. words'[j + 1] = IF j + 1 < k THEN words[j + 1] ELSE words[(j + 1) + 1]
    BY <2>1, <1>3
  <2> QED
    BY <2>1, <2>2
<1>10. ASSUME NEW j \in 2..(L - 1)
       PROVE  words'[j - 1] = IF j - 1 < k THEN words[j - 1] ELSE words[j]
  <2>1. j - 1 \in 1..(L - 1) /\ (j - 1) + 1 = j
    BY <1>1
  <2>2. words'[j - 1] = IF j - 1 < k THEN words[j - 1] ELSE words[(j - 1) + 1]
    BY <2>1, <1>3
  <2> QED
    BY <2>1, <2>2
<1>11. ASSUME NEW i \in 1..(L - 1)
      PROVE  next'[words'[i]] = IF i = L - 1 THEN Null ELSE words'[i + 1]
  <2>1. CASE i = k - 1
    <3>1. words'[i] = words[k - 1] /\ words[k - 1] # n /\ prev[n] = words[k - 1]
      BY <2>1, <1>1, <1>3, <1>7
    <3>2. next'[words'[i]] = next[n]
      BY <3>1, <1>1, <1>6, <2>1
    <3>3. i # L - 1 => words'[i + 1] = words[k + 1]
      <4>1. i # L - 1 => i \in 1..(L - 2) /\ ~(i + 1 < k) /\ i + 2 = k + 1
        BY <2>1, <1>1
      <4> QED
        BY <4>1, <1>9
    <3> QED
      BY <3>2, <3>3, <2>1, <1>1, <1>7
  <2>2. CASE i < k - 1
    <3>1. words'[i] = words[i] /\ words[i] # n /\ words[i] # prev[n]
      <4>1. i \in 1..L /\ i # k /\ i < k /\ words[i] \in Nodes
        BY <2>2, <1>1
      <4>2. k # 1 => k - 1 \in 1..L /\ i # k - 1
        BY <2>2, <1>1
      <4>3. words[i] # words[k] /\ (k # 1 => words[i] # words[k - 1])
        BY <4>1, <4>2, <1>1
      <4> QED
        BY <4>1, <4>3, <1>3, <1>7, <1>8
    <3>2. next'[words'[i]] = next[words[i]]
      BY <3>1, <1>1, <1>6
    <3>3. words'[i + 1] = words[i + 1] /\ i # L - 1
      BY <2>2, <1>1, <1>3, SMTT(60)
    <3>4. next[words[i]] = words[i + 1]
      <4>1. i \in 1..L /\ i # L
        BY <2>2, <1>1
      <4> QED
        BY <4>1, <1>1 DEF LinkedAt
    <3> QED
      BY <3>2, <3>3, <3>4
  <2>3. CASE i >= k
    <3>1. words'[i] = words[i + 1] /\ words[i + 1] # n /\ words[i + 1] # prev[n]
      <4>1. i + 1 \in 1..L /\ i + 1 # k /\ ~(i < k) /\ words[i + 1] \in Nodes
        BY <2>3, <1>1
      <4>2. k # 1 => k - 1 \in 1..L /\ i + 1 # k - 1
        BY <2>3, <1>1
      <4>3. words[i + 1] # words[k] /\ (k # 1 => words[i + 1] # words[k - 1])
        BY <4>1, <4>2, <1>1
      <4> QED
        BY <4>1, <4>3, <1>3, <1>7, <1>8
    <3>2. next'[words'[i]] = next[words[i + 1]]
      BY <3>1, <1>1, <1>6
    <3>3. i # L - 1 => words'[i + 1] = words[i + 2]
      <4>1. i # L - 1 => i \in 1..(L - 2) /\ ~(i + 1 < k)
        BY <2>3, <1>1
      <4> QED
        BY <4>1, <1>9
    <3>4. i + 1 \in 1..L /\ (i + 1) + 1 = i + 2 /\ (i + 1 = L <=> i = L - 1)
      BY <1>1
    <3>5. next[words[i + 1]] = IF i + 1 = L THEN Null ELSE words[i + 2]
      BY <3>4, <1>1 DEF LinkedAt
    <3> QED
      BY <3>2, <3>3, <3>4, <3>5
  <2> QED
    BY <2>1, <2>2, <2>3
<1>12. ASSUME NEW i \in 1..(L - 1)
       PROVE  prev'[words'[i]] = IF i = 1 THEN Null ELSE words'[i - 1]
  <2>1. CASE i = k
    <3>1. words'[i] = words[k + 1] /\ words[k + 1] # n /\ next[n] = words[k + 1]
      BY <2>1, <1>1, <1>3, <1>7
    <3>2. prev'[words'[i]] = prev[n]
      BY <3>1, <1>1, <1>6, <2>1
    <3>3. i # 1 => words'[i - 1] = words[k - 1]
      <4>1. i # 1 => i \in 2..(L - 1) /\ i - 1 < k /\ i - 1 = k - 1
        BY <2>1, <1>1
      <4> QED
        BY <4>1, <1>10
    <3> QED
      BY <3>2, <3>3, <2>1, <1>1, <1>7
  <2>2. CASE i < k
    <3>1. words'[i] = words[i] /\ words[i] # n /\ words[i] # next[n]
      <4>1. i \in 1..L /\ i # k /\ words[i] \in Nodes
        BY <2>2, <1>1
      <4>2. k # L => k + 1 \in 1..L /\ i # k + 1
        BY <2>2, <1>1
      <4>3. words[i] # words[k] /\ (k # L => words[i] # words[k + 1])
        BY <4>1, <4>2, <1>1
      <4> QED
        BY <4>1, <4>3, <2>2, <1>3, <1>7, <1>8
    <3>2. prev'[words'[i]] = prev[words[i]]
      BY <3>1, <1>1, <1>6
    <3>3. i # 1 => words'[i - 1] = words[i - 1]
      BY <2>2, <1>1, <1>3
    <3>4. prev[words[i]] = IF i = 1 THEN Null ELSE words[i - 1]
      <4>1. i \in 1..L
        BY <1>1
      <4> QED
        BY <4>1, <1>1 DEF LinkedAt
    <3> QED
      BY <3>2, <3>3, <3>4
  <2>3. CASE i > k
    <3>1. words'[i] = words[i + 1] /\ words[i + 1] # n /\ words[i + 1] # next[n]
      <4>1. i + 1 \in 1..L /\ i + 1 # k /\ ~(i < k) /\ words[i + 1] \in Nodes
        BY <2>3, <1>1
      <4>2. k # L => k + 1 \in 1..L /\ i + 1 # k + 1
        BY <2>3, <1>1
      <4>3. words[i + 1] # words[k] /\ (k # L => words[i + 1] # words[k + 1])
        BY <4>1, <4>2, <1>1
      <4> QED
        BY <4>1, <4>3, <1>3, <1>7, <1>8
    <3>2. prev'[words'[i]] = prev[words[i + 1]]
      BY <3>1, <1>1, <1>6
    <3>3. words'[i - 1] = words[i] /\ i # 1
      <4>1. i \in 2..(L - 1) /\ ~(i - 1 < k) /\ i # 1
        BY <2>3, <1>1
      <4> QED
        BY <4>1, <1>10
    <3>4. i + 1 \in 1..L /\ (i + 1) - 1 = i /\ i + 1 # 1
      BY <1>1
    <3>5. prev[words[i + 1]] = words[i]
      BY <3>4, <1>1 DEF LinkedAt
    <3> QED
      BY <3>2, <3>3, <3>5
  <2> QED
    BY <2>1, <2>2, <2>3
<1>13. \A i \in 1..Len(words') : LinkedAt(i)'
  BY <1>1, <1>3, <1>11, <1>12 DEF LinkedAt
<1> QED
  BY <1>3, <1>4, <1>5, <1>13

LEMMA RemoveKeeps ==
  ASSUME ListInv, at # Null, RemoveNode(at)
  PROVE  ListInv'
<1> DEFINE L == Len(words)
<1>1. ListTypeOK /\ Linked /\ Blank /\ SweptClean /\ at \in live
  BY DEF ListInv, ListTypeOK
<1>2. PICK k \in 1..L : Place(words, at) = k
  BY <1>1, Links
<1>3. /\ words[k] = at /\ L \in Nat /\ words \in Seq(live)
      /\ \A i, j \in 1..L : words[i] = words[j] => i = j
      /\ LinkedAt(k)
  BY <1>1, <1>2, Links
<1>4. /\ words' \in Seq(live') /\ Len(words') = L - 1
      /\ \A i \in 1..(L - 1) : words'[i] = IF i < k THEN words[i] ELSE words[i + 1]
      /\ IsInjective(words') /\ live' = ToSet(words')
      /\ \A i \in 1..Len(words') : LinkedAt(i)'
  BY <1>1, <1>3, RemovedLinks
<1>5. /\ next' = Unlinked(next, at, prev[at], next[at])
      /\ prev' = Unlinked(prev, at, next[at], prev[at])
      /\ head' = IF at = head THEN next[at] ELSE head
      /\ tail' = IF at = tail THEN prev[at] ELSE tail
      /\ at' = next[at]
  BY <1>1, OneRemoval
<1>6. silent' = silent \ {at} /\ live' = live \ {at} /\ phase' = phase
  BY DEF RemoveNode
<1>7. /\ next[at] = (IF k = L THEN Null ELSE words[k + 1])
      /\ prev[at] = (IF k = 1 THEN Null ELSE words[k - 1])
  BY <1>3 DEF LinkedAt
<1>8. next[at] \in live' \cup {Null} /\ prev[at] \in live' \cup {Null}
  BY <1>3, <1>6, <1>7
<1>9. head = words[1] /\ tail = words[L]
  BY <1>1, <1>3, Ends
<1>10. ListTypeOK'
  <2>1. live' \subseteq Nodes /\ silent' \subseteq live'
    BY <1>1, <1>6 DEF ListTypeOK
  <2>2. head' \in live' \cup {Null} /\ tail' \in live' \cup {Null} /\ at' \in live' \cup {Null}
    BY <1>1, <1>5, <1>6, <1>8 DEF ListTypeOK
  <2>3. ASSUME NEW m \in Nodes
        PROVE  next'[m] \in live' \cup {Null}
    <3>1. next[m] = at => m = prev[at]
      <4>1. CASE m \in live
        <5>1. PICK i \in 1..L : words[i] = m
          BY <4>1, <1>1 DEF Linked, ToSet
        <5>2. next[m] = IF i = L THEN Null ELSE words[i + 1]
          BY <5>1, <1>1 DEF Linked
        <5>3. at # Null
          OBVIOUS
        <5>4. next[m] = at => i # L /\ i + 1 \in 1..L /\ words[i + 1] = words[k]
          BY <5>2, <5>3, <1>3
        <5>5. next[m] = at => i + 1 = k
          BY <5>4, <1>3
        <5>6. i + 1 = k => k # 1 /\ k - 1 = i
          BY <1>3
        <5> QED
          BY <5>1, <5>5, <5>6, <1>7
      <4>2. CASE m \notin live
        BY <4>2, <1>1 DEF Blank
      <4> QED
        BY <4>1, <4>2
    <3>2. next[m] \in live \cup {Null}
      BY <1>1 DEF ListTypeOK
    <3> QED
      BY <3>1, <3>2, <1>5, <1>6, <1>8 DEF Unlinked
  <2>4. ASSUME NEW m \in Nodes
        PROVE  prev'[m] \in live' \cup {Null}
    <3>1. prev[m] = at => m = next[at]
      <4>1. CASE m \in live
        <5>1. PICK i \in 1..L : words[i] = m
          BY <4>1, <1>1 DEF Linked, ToSet
        <5>2. prev[m] = IF i = 1 THEN Null ELSE words[i - 1]
          BY <5>1, <1>1 DEF Linked
        <5>3. at # Null
          OBVIOUS
        <5>4. prev[m] = at => i # 1 /\ i - 1 \in 1..L /\ words[i - 1] = words[k]
          BY <5>2, <5>3, <1>3
        <5>5. prev[m] = at => i - 1 = k
          BY <5>4, <1>3
        <5>6. i - 1 = k => k # L /\ k + 1 = i
          BY <1>3
        <5> QED
          BY <5>1, <5>5, <5>6, <1>7
      <4>2. CASE m \notin live
        BY <4>2, <1>1 DEF Blank
      <4> QED
        BY <4>1, <4>2
    <3>2. prev[m] \in live \cup {Null}
      BY <1>1 DEF ListTypeOK
    <3> QED
      BY <3>1, <3>2, <1>5, <1>6, <1>8 DEF Unlinked
  <2>5. next' \in [Nodes -> live' \cup {Null}] /\ prev' \in [Nodes -> live' \cup {Null}]
    BY <2>3, <2>4, <1>5 DEF Unlinked
  <2> QED
    BY <2>1, <2>2, <2>5, <1>1, <1>4, <1>6 DEF ListTypeOK
<1>11. Linked'
  <2>1. (words' = <<>>) <=> (L = 1)
    BY <1>3, <1>4, EmptySeq
  <2>2. head' = IF words' = <<>> THEN Null ELSE words'[1]
    <3>1. CASE k = 1
      <4>1. L # 1 => words'[1] = words[2] /\ next[at] = words[2]
        BY <3>1, <1>3, <1>4, <1>7
      <4>2. L = 1 => next[at] = Null
        BY <3>1, <1>7
      <4>3. head = at
        BY <3>1, <1>3, <1>9
      <4>4. head' = next[at]
        BY <4>3, <1>5
      <4> QED
        BY <4>1, <4>2, <4>4, <2>1
    <3>2. CASE k > 1
      <4>1. words'[1] = words[1] /\ words[1] # at /\ L # 1
        BY <3>2, <1>3, <1>4
      <4> QED
        BY <4>1, <2>1, <1>5, <1>9
    <3> QED
      BY <3>1, <3>2, <1>3
  <2>3. tail' = IF words' = <<>> THEN Null ELSE words'[Len(words')]
    <3>1. CASE k = L
      <4>1. L > 1 => words'[L - 1] = words[L - 1]
        BY <3>1, <1>3, <1>4
      <4> QED
        BY <4>1, <2>1, <3>1, <1>3, <1>4, <1>5, <1>7, <1>9
    <3>2. CASE k < L
      <4>1. L - 1 \in 1..(L - 1) /\ ~(L - 1 < k) /\ (L - 1) + 1 = L
        BY <3>2, <1>3
      <4>2. words'[L - 1] = words[L]
        BY <4>1, <1>4
      <4>3. words[L] # at /\ L # 1
        BY <3>2, <1>3
      <4> QED
        BY <4>2, <4>3, <2>1, <1>4, <1>5, <1>9
    <3> QED
      BY <3>1, <3>2, <1>3
  <2> QED
    BY <2>2, <2>3, <1>4 DEF Linked, LinkedAt
<1>12. Blank'
  <2> SUFFICES ASSUME NEW m \in Nodes, m \notin live'
               PROVE  next'[m] = Null /\ prev'[m] = Null
    BY DEF Blank
  <2>1. CASE m = at
    BY <2>1, <1>5 DEF Unlinked
  <2>2. CASE m # at
    <3>1. m \notin live /\ m # prev[at] /\ m # next[at]
      BY <2>2, <1>6, <1>8, ListAssumption
    <3> QED
      BY <2>2, <3>1, <1>1, <1>5 DEF Blank, Unlinked
  <2> QED
    BY <2>1, <2>2
<1>13. SweptClean'
  <2> SUFFICES ASSUME phase' = "sweep", NEW i \in 1..Len(words'), words'[i] \in silent'
               PROVE  at' # Null /\ Place(words', at') <= i
    BY DEF SweptClean
  <2>1. /\ \A j \in 1..L : words[j] \in silent => k <= j
        /\ words'[i] \in silent
    BY <1>1, <1>2, <1>6 DEF SweptClean
  <2>2. i >= k /\ k < L
    BY <2>1, <1>3, <1>4
  <2>3. at' = words[k + 1] /\ words'[k] = words[k + 1] /\ k \in 1..Len(words')
    BY <2>2, <1>3, <1>4, <1>5, <1>7, SMTT(30)
  <2>4. Place(words', at') = k
    BY <2>3, <1>4, PlaceOfWord
  <2>5. at' \in live
    BY <2>2, <2>3, <1>3
  <2> QED
    BY <2>2, <2>4, <2>5, <1>1, ListAssumption DEF ListTypeOK
<1> QED
  BY <1>10, <1>11, <1>12, <1>13 DEF ListInv

-----------------------------------------------------------------------------
(* NJDNode_insert.                                                         *)

LEMMA InsertKeeps ==
  ASSUME ListInv, Insert
  PROVE  ListInv'
<1> DEFINE L == Len(words)
<1>1. ListTypeOK /\ Linked /\ Blank /\ at \in live
  BY DEF ListInv, ListTypeOK, Insert
<1>2. PICK k \in 1..L : Place(words, at) = k
  BY <1>1, Links
<1>3. /\ words[k] = at /\ L \in Nat
      /\ words \in Seq(live) /\ words \in Seq(Nodes)
      /\ \A i, j \in 1..L : words[i] = words[j] => i = j
      /\ \A i \in 1..L : words[i] \in live /\ LinkedAt(i)
      /\ IsInjective(words) /\ live = ToSet(words)
  BY <1>1, <1>2, Links DEF Linked
<1>4. PICK n \in Nodes \ live :
        /\ next' = [next EXCEPT ![at] = n, ![n] = next[at]]
        /\ prev' = [prev EXCEPT ![n] = at, ![next[at]] = n]
        /\ at' = n /\ live' = live \cup {n}
        /\ words' = InsertAt(words, k + 1, n)
  BY <1>2 DEF Insert
<1>5. k < L /\ next[at] = words[k + 1] /\ words[k + 1] \in live /\ k + 1 \in 1..L
  BY <1>3 DEF Insert, LinkedAt
<1>6. /\ words' \in Seq(Nodes) /\ Len(words') = L + 1
      /\ \A i \in 1..(L + 1) :
           words'[i] = IF i < k + 1 THEN words[i] ELSE IF i = k + 1 THEN n ELSE words[i - 1]
      /\ IsInjective(words') /\ ToSet(words') = live'
  <2>1. k + 1 \in 1..(L + 1)
    BY <1>5
  <2> QED
    <3>1. n \in Nodes /\ n \notin ToSet(words) /\ words' = InsertAt(words, k + 1, n)
      BY <1>3, <1>4
    <3>2. ASSUME NEW q \in 1..(L + 1)
          PROVE  /\ InsertAt(words, q, n) \in Seq(Nodes)
                 /\ Len(InsertAt(words, q, n)) = L + 1
                 /\ \A i \in 1..(L + 1) : InsertAt(words, q, n)[i] =
                      IF i < q THEN words[i] ELSE IF i = q THEN n ELSE words[i - 1]
                 /\ IsInjective(InsertAt(words, q, n))
                 /\ ToSet(InsertAt(words, q, n)) = ToSet(words) \cup {n}
      BY <3>1, <1>3, Inserted, InsertedWord
    <3> QED
      BY <2>1, <3>1, <3>2, <1>3, <1>4
<1>7. words' \in Seq(live')
  <2>1. \A i \in 1..Len(words') : words'[i] \in live'
    BY <1>6 DEF ToSet
  <2> QED
    BY <2>1, <1>6
<1>8. live \subseteq Nodes /\ next \in [Nodes -> live \cup {Null}] /\ prev \in [Nodes -> live \cup {Null}]
  BY <1>1 DEF ListTypeOK
<1>9. /\ next'[at] = n /\ next'[n] = words[k + 1]
      /\ \A m \in Nodes \ {at, n} : next'[m] = next[m]
      /\ prev'[n] = at /\ prev'[words[k + 1]] = n
      /\ \A m \in Nodes \ {n, words[k + 1]} : prev'[m] = prev[m]
  BY <1>1, <1>4, <1>5, <1>8
<1>10. ListTypeOK'
  <2>1. next' \in [Nodes -> live' \cup {Null}] /\ prev' \in [Nodes -> live' \cup {Null}]
    BY <1>1, <1>4, <1>5, <1>8
  <2>2. UNCHANGED <<head, tail, silent, phase>>
    BY DEF Insert
  <2> QED
    BY <2>1, <2>2, <1>1, <1>4, <1>7 DEF ListTypeOK
<1>11. ASSUME NEW i \in 1..(L + 1)
       PROVE  LinkedAt(i)'
  <2>1. CASE i < k
    <3>1. words'[i] = words[i] /\ words'[i + 1] = words[i + 1] /\ i # L + 1 /\ i # L
      BY <2>1, <1>3, <1>6
    <3>2. i # 1 => words'[i - 1] = words[i - 1]
      BY <2>1, <1>3, <1>6
    <3>3. words[i] \in Nodes \ {at, n, words[k + 1]} /\ LinkedAt(i)
      BY <2>1, <1>3, <1>4, <1>5
    <3>4. next'[words[i]] = next[words[i]] /\ prev'[words[i]] = prev[words[i]]
      BY <3>3, <1>9
    <3> QED
      BY <3>1, <3>2, <3>3, <3>4, <1>6 DEF LinkedAt
  <2>2. CASE i = k
    <3>1. words'[i] = at /\ words'[i + 1] = n /\ i # L + 1
      BY <2>2, <1>3, <1>6
    <3>2. i # 1 => words'[i - 1] = words[i - 1]
      BY <2>2, <1>3, <1>6
    <3>3. at \in Nodes \ {n, words[k + 1]} /\ LinkedAt(k) /\ words[i] = at
      BY <2>2, <1>1, <1>3, <1>4, <1>5
    <3>4. next'[at] = n /\ prev'[at] = prev[at]
      BY <3>3, <1>9
    <3> QED
      BY <3>1, <3>2, <3>3, <3>4, <2>2, <1>6 DEF LinkedAt
  <2>3. CASE i = k + 1
    <3>1. words'[i] = n /\ i # 1 /\ i # L + 1
      BY <2>3, <1>3, <1>5, <1>6
    <3>2. words'[i - 1] = at
      <4>1. i - 1 = k /\ k \in 1..(L + 1) /\ k < k + 1
        BY <2>3, <1>3
      <4> QED
        BY <4>1, <1>3, <1>6
    <3>3. words'[i + 1] = words[k + 1]
      <4>1. i + 1 \in 1..(L + 1) /\ ~(i + 1 < k + 1) /\ i + 1 # k + 1 /\ (i + 1) - 1 = k + 1
        BY <2>3, <1>3, <1>5
      <4> QED
        BY <4>1, <1>6
    <3> QED
      BY <3>1, <3>2, <3>3, <1>6, <1>9 DEF LinkedAt
  <2>4. CASE i = k + 2
    <3>1. words'[i] = words[k + 1] /\ i # 1
      <4>1. ~(i < k + 1) /\ i # k + 1 /\ i - 1 = k + 1 /\ i # 1
        BY <2>4, <1>3
      <4> QED
        BY <4>1, <1>6
    <3>2. words'[i - 1] = n
      <4>1. i - 1 = k + 1 /\ k + 1 \in 1..(L + 1) /\ ~(k + 1 < k + 1)
        BY <2>4, <1>3, <1>5
      <4> QED
        BY <4>1, <1>6
    <3>3. i # L + 1 => words'[i + 1] = words[(k + 1) + 1]
      <4>1. i # L + 1 => /\ i + 1 \in 1..(L + 1) /\ ~(i + 1 < k + 1) /\ i + 1 # k + 1
                         /\ (i + 1) - 1 = (k + 1) + 1
        BY <2>4, <1>3
      <4> QED
        BY <4>1, <1>6
    <3>4. /\ words[k + 1] \in Nodes \ {at, n}
          /\ next[words[k + 1]] = IF k + 1 = L THEN Null ELSE words[(k + 1) + 1]
          /\ (i = L + 1 <=> k + 1 = L)
      BY <2>4, <1>3, <1>4, <1>5, <1>8 DEF LinkedAt
    <3>5. next'[words[k + 1]] = next[words[k + 1]] /\ prev'[words[k + 1]] = n
      BY <3>4, <1>9
    <3> QED
      BY <3>1, <3>2, <3>3, <3>4, <3>5, <1>6 DEF LinkedAt
  <2>5. CASE i > k + 2
    <3>1. i - 1 \in 1..L
      BY <2>5, <1>3
    <3>2. PICK j \in 1..L : j = i - 1
      BY <3>1
    <3>3. j > k + 1 /\ i = j + 1 /\ i # 1 /\ j # 1
      BY <3>2, <2>5, <1>3
    <3>4. words'[i] = words[j]
      BY <3>2, <2>5, <1>3, <1>6
    <3>5. words'[i - 1] = words[j - 1]
      <4>1. i - 1 \in 1..(L + 1) /\ ~(i - 1 < k + 1) /\ i - 1 # k + 1
        BY <2>5, <1>3
      <4>2. (i - 1) - 1 = j - 1
        BY <3>2
      <4> QED
        BY <4>1, <4>2, <1>6
    <3>6. i # L + 1 => words'[i + 1] = words[j + 1]
      <4>1. i # L + 1 => /\ i + 1 \in 1..(L + 1) /\ ~(i + 1 < k + 1) /\ i + 1 # k + 1
                         /\ (i + 1) - 1 = j + 1
        BY <3>3, <2>5, <1>3, SMTT(30)
      <4> QED
        BY <4>1, <1>6
    <3>7. words[j] \in Nodes \ {at, n, words[k + 1]} /\ LinkedAt(j)
      BY <3>3, <1>3, <1>4, <1>5, <1>8
    <3>8. next'[words[j]] = next[words[j]] /\ prev'[words[j]] = prev[words[j]]
      BY <3>7, <1>9
    <3>9. i = L + 1 <=> j = L
      BY <3>3, <1>3
    <3>10. next'[words'[i]] = IF i = L + 1 THEN Null ELSE words'[i + 1]
      BY <3>4, <3>6, <3>7, <3>8, <3>9 DEF LinkedAt
    <3>11. prev'[words'[i]] = words'[i - 1]
      BY <3>3, <3>4, <3>5, <3>7, <3>8 DEF LinkedAt
    <3> QED
      BY <3>3, <3>10, <3>11, <1>6 DEF LinkedAt
  <2> QED
    BY <2>1, <2>2, <2>3, <2>4, <2>5, <1>3
<1>12. Linked'
  <2>1. head' = words[1] /\ tail' = words[L] /\ words' # <<>>
    BY <1>1, <1>2, <1>6, Ends, EmptySeq DEF Insert
  <2>2. words'[1] = words[1]
    <3>1. 1 \in 1..(L + 1) /\ 1 < k + 1
      BY <1>3
    <3> QED
      BY <3>1, <1>6
  <2>3. words'[L + 1] = words[L]
    <3>1. L + 1 \in 1..(L + 1) /\ ~(L + 1 < k + 1) /\ L + 1 # k + 1 /\ (L + 1) - 1 = L
      BY <1>3, <1>5
    <3> QED
      BY <3>1, <1>6
  <2> QED
    BY <2>1, <2>2, <2>3, <1>6, <1>11 DEF Linked, LinkedAt
<1>13. Blank'
  BY <1>1, <1>4, <1>5, <1>9 DEF Blank
<1>14. SweptClean'
  BY DEF Insert, SweptClean
<1> QED
  BY <1>10, <1>12, <1>13, <1>14 DEF ListInv

-----------------------------------------------------------------------------
(* NJD_push_node.                                                          *)

\* The nodes of a feature are a sequence of new nodes, each there once.
LEMMA ChainIsSequence ==
  ASSUME NEW chain \in Chains
  PROVE  /\ chain \in Seq(Nodes \ live) /\ Len(chain) \in Nat \ {0}
         /\ \A i, j \in 1..Len(chain) : chain[i] = chain[j] => i = j
         /\ IsInjective(chain)
<1>1. PICK k \in 1..MaxChain : chain \in Injection(1..k, Nodes \ live)
  BY DEF Chains
<1>2. chain \in [1..k -> Nodes \ live] /\ IsInjective(chain)
  BY <1>1 DEF Injection
<1>3. k \in Nat \ {0}
  BY <1>1, ListAssumption
<1>4. chain \in Seq(Nodes \ live) /\ Len(chain) = k
  BY <1>2, <1>3
<1> QED
  BY <1>2, <1>3, <1>4 DEF IsInjective

LEMMA PushKeeps ==
  ASSUME ListInv, Push
  PROVE  ListInv'
<1>1. PICK chain \in Chains :
        LET first == chain[1]
            New(n) == n \in ToSet(chain)
            Before(n) == chain[Place(chain, n) - 1]
            After(n) == chain[Place(chain, n) + 1]
        IN
        /\ head' = IF head = Null THEN first ELSE head
        /\ next' = [n \in Nodes |->
                      IF New(n) THEN IF n = chain[Len(chain)] THEN Null ELSE After(n)
                      ELSE IF head # Null /\ n = tail THEN first ELSE next[n]]
        /\ prev' = [n \in Nodes |->
                      IF New(n) /\ n # first THEN Before(n)
                      ELSE IF New(n) /\ head # Null THEN tail ELSE prev[n]]
        /\ tail' = LastOf(chain)
        /\ live' = live \cup ToSet(chain)
        /\ words' = words \o chain
        /\ \E mute \in SUBSET ToSet(chain) : silent' = silent \cup mute
  BY DEF Push
<1> DEFINE L == Len(words)
           K == Len(chain)
<1>2. ListTypeOK /\ Linked /\ Blank
  BY DEF ListInv
<1>3. /\ chain \in Seq(Nodes \ live) /\ K \in Nat \ {0}
      /\ \A i, j \in 1..K : chain[i] = chain[j] => i = j
      /\ IsInjective(chain)
  BY ChainIsSequence
<1>4. /\ words \in Seq(live) /\ words \in Seq(Nodes) /\ L \in Nat
      /\ \A i, j \in 1..L : words[i] = words[j] => i = j
      /\ \A i \in 1..L : words[i] \in live /\ LinkedAt(i)
      /\ live = ToSet(words) /\ live \subseteq Nodes
  BY <1>2, Links DEF Linked, ListTypeOK
<1>5. Null \notin Nodes
  BY ListAssumption
<1>6. \A j \in 1..K : /\ chain[j] \in ToSet(chain) /\ chain[j] \in Nodes \ live
                      /\ Place(chain, chain[j]) = j
  BY <1>3, PlaceOfWord DEF ToSet
<1>7. ToSet(chain) \subseteq Nodes \ live
  BY <1>3 DEF ToSet
<1>8. /\ words' \in Seq(Nodes) /\ Len(words') = L + K
      /\ \A i \in 1..L : words'[i] = words[i]
      /\ \A i \in 1..(L + K) : i > L => words'[i] = chain[i - L]
  <2>1. chain \in Seq(Nodes)
    BY <1>3
  <2>2. /\ words \o chain \in Seq(Nodes) /\ Len(words \o chain) = L + K
        /\ \A i \in 1..(L + K) :
             (words \o chain)[i] = IF i <= L THEN words[i] ELSE chain[i - L]
    BY <2>1, <1>4, ConcatProperties
  <2> QED
    BY <2>2, <1>1, <1>3, <1>4
<1>9. IsInjective(words')
  <2>1. ASSUME NEW i \in 1..(L + K), NEW j \in 1..(L + K), i < j
        PROVE  words'[i] # words'[j]
    <3>1. CASE j <= L
      BY <3>1, <2>1, <1>4, <1>8
    <3>2. CASE i <= L /\ j > L
      <4>1. j - L \in 1..K /\ i \in 1..L
        BY <3>2, <1>3, <1>4
      <4> QED
        BY <4>1, <3>2, <1>4, <1>6, <1>8
    <3>3. CASE i > L
      <4>1. i - L \in 1..K /\ j - L \in 1..K /\ i - L # j - L /\ j > L
        BY <3>3, <2>1, <1>3, <1>4
      <4> QED
        BY <4>1, <3>3, <1>3, <1>8
    <3> QED
      BY <3>1, <3>2, <3>3, <1>3, <1>4
  <2> QED
    BY <2>1, <1>3, <1>4, <1>8 DEF IsInjective
<1>10. live' = ToSet(words')
  <2>1. \A i \in 1..L : words[i] \in ToSet(words')
    <3>1. \A i \in 1..L : i \in 1..Len(words') /\ words'[i] = words[i]
      BY <1>3, <1>4, <1>8
    <3> QED
      BY <3>1, <1>8 DEF ToSet
  <2>2. \A j \in 1..K : chain[j] \in ToSet(words')
    <3>1. \A j \in 1..K : L + j \in 1..(L + K) /\ L + j > L /\ (L + j) - L = j
      BY <1>3, <1>4
    <3>2. \A j \in 1..K : L + j \in 1..Len(words') /\ words'[L + j] = chain[j]
      BY <3>1, <1>8
    <3> QED
      BY <3>2, <1>8 DEF ToSet
  <2>3. \A i \in 1..(L + K) : words'[i] \in live \cup ToSet(chain)
    <3>1. \A i \in 1..(L + K) : i > L => i - L \in 1..K
      BY <1>3, <1>4
    <3>2. \A i \in 1..(L + K) : i <= L => i \in 1..L
      BY <1>3, <1>4
    <3> QED
      BY <3>1, <3>2, <1>4, <1>6, <1>8
  <2>4. live \subseteq ToSet(words') /\ ToSet(chain) \subseteq ToSet(words')
    BY <2>1, <2>2, <1>3, <1>4 DEF ToSet
  <2>5. ToSet(words') \subseteq live \cup ToSet(chain)
    BY <2>3, <1>8 DEF ToSet
  <2> QED
    BY <2>4, <2>5, <1>1
<1>11. words' \in Seq(live')
  <2>1. \A i \in 1..Len(words') : words'[i] \in live'
    BY <1>8, <1>10 DEF ToSet
  <2> QED
    BY <2>1, <1>8
<1>12. L > 0 => head # Null /\ head = words[1] /\ tail = words[L]
  BY <1>2, Ends
<1>13. L = 0 => head = Null /\ tail = Null
  BY <1>2, Ends
\* The links after the step, by kind of node.
<1>14. ASSUME NEW m \in live
       PROVE  /\ next'[m] = (IF L > 0 /\ m = tail THEN chain[1] ELSE next[m])
              /\ prev'[m] = prev[m]
  <2>1. m \in Nodes /\ m \notin ToSet(chain)
    BY <1>4, <1>7
  <2>2. head # Null <=> L > 0
    BY <1>4, <1>12, <1>13
  <2> QED
    BY <2>1, <2>2, <1>1
<1>15. ASSUME NEW j \in 1..K
       PROVE  /\ next'[chain[j]] = (IF j = K THEN Null ELSE chain[j + 1])
              /\ prev'[chain[j]] = (IF j = 1 THEN tail ELSE chain[j - 1])
  <2>1. /\ chain[j] \in Nodes /\ chain[j] \in ToSet(chain) /\ Place(chain, chain[j]) = j
        /\ chain[j] = chain[K] <=> j = K
        /\ chain[j] = chain[1] <=> j = 1
    <3>1. 1 \in 1..K /\ K \in 1..K
      BY <1>3
    <3> QED
      BY <3>1, <1>3, <1>6
  <2>2. next'[chain[j]] = IF j = K THEN Null ELSE chain[j + 1]
    BY <2>1, <1>1
  <2>3. j # 1 => prev'[chain[j]] = chain[j - 1]
    BY <2>1, <1>1
  <2>4. j = 1 => prev'[chain[j]] = tail
    <3>1. head # Null => (j = 1 => prev'[chain[j]] = tail)
      BY <2>1, <1>1
    <3>2. head = Null => tail = Null
      BY <1>4, <1>12, <1>13
    <3>3. head = Null => (j = 1 => prev'[chain[j]] = prev[chain[j]])
      BY <2>1, <1>1
    <3>4. prev[chain[j]] = Null
      BY <1>2, <1>6 DEF Blank
    <3> QED
      BY <3>1, <3>2, <3>3, <3>4
  <2> QED
    BY <2>2, <2>3, <2>4
<1>16. ASSUME NEW i \in 1..(L + K)
       PROVE  LinkedAt(i)'
  <2>1. CASE i < L
    <3>1. /\ i \in 1..L /\ i + 1 \in 1..L /\ L > 0 /\ i # L /\ i # L + K
          /\ i # 1 => i - 1 \in 1..L
      BY <2>1, <1>3, <1>4
    <3>2. /\ words'[i] = words[i] /\ words'[i + 1] = words[i + 1]
          /\ i # 1 => words'[i - 1] = words[i - 1]
      BY <3>1, <1>8
    <3>3. words[i] # tail
      <4>1. L \in 1..L
        BY <3>1, <1>4
      <4> QED
        BY <4>1, <3>1, <1>4, <1>12
    <3>4. words[i] \in live /\ LinkedAt(i)
      BY <3>1, <1>4
    <3>5. next'[words[i]] = next[words[i]] /\ prev'[words[i]] = prev[words[i]]
      BY <3>3, <3>4, <1>14
    <3> QED
      BY <3>1, <3>2, <3>4, <3>5, <1>8 DEF LinkedAt
  <2>2. CASE i = L
    <3>1. /\ i \in 1..L /\ L > 0 /\ i # L + K /\ L + 1 \in 1..(L + K) /\ L + 1 > L
          /\ (L + 1) - L = 1
          /\ i # 1 => i - 1 \in 1..L
      BY <2>2, <1>3, <1>4
    <3>2. /\ words'[i] = words[L] /\ words'[i + 1] = chain[1]
          /\ i # 1 => words'[i - 1] = words[i - 1]
      BY <3>1, <2>2, <1>8
    <3>3. words[L] = tail /\ words[L] \in live /\ LinkedAt(L)
      BY <3>1, <2>2, <1>4, <1>12
    <3>4. next'[words[L]] = chain[1] /\ prev'[words[L]] = prev[words[L]]
      BY <3>1, <3>3, <1>14
    <3> QED
      BY <3>1, <3>2, <3>3, <3>4, <2>2, <1>8 DEF LinkedAt
  <2>3. CASE i > L
    <3>1. i - L \in 1..K
      BY <2>3, <1>3, <1>4
    <3>2. PICK j \in 1..K : j = i - L
      BY <3>1
    <3>3. words'[i] = chain[j]
      BY <3>2, <2>3, <1>8
    <3>4. i = L + K <=> j = K
      BY <3>2, <1>3, <1>4
    <3>5. j # K => words'[i + 1] = chain[j + 1]
      <4>1. j # K => i + 1 \in 1..(L + K) /\ i + 1 > L /\ (i + 1) - L = j + 1
        BY <3>2, <2>3, <1>3, <1>4
      <4> QED
        BY <4>1, <1>8
    <3>6. j # 1 => i # 1 /\ words'[i - 1] = chain[j - 1]
      <4>1. j # 1 => i - 1 \in 1..(L + K) /\ i - 1 > L /\ (i - 1) - L = j - 1 /\ i # 1
        BY <3>2, <2>3, <1>3, <1>4
      <4> QED
        BY <4>1, <1>8
    <3>7. j = 1 => tail = IF i = 1 THEN Null ELSE words'[i - 1]
      <4>1. CASE L = 0
        BY <4>1, <3>2, <1>13
      <4>2. CASE L # 0
        <5>1. j = 1 => i - 1 = L /\ i # 1 /\ L \in 1..L /\ L > 0
          BY <4>2, <3>2, <1>4
        <5> QED
          BY <5>1, <1>8, <1>12
      <4> QED
        BY <4>1, <4>2
    <3>8. j # 1 => prev'[words'[i]] = words'[i - 1] /\ i # 1
      BY <3>3, <3>6, <1>15
    <3>9. j = 1 => prev'[words'[i]] = IF i = 1 THEN Null ELSE words'[i - 1]
      BY <3>3, <3>7, <1>15
    <3>10. next'[words'[i]] = IF i = L + K THEN Null ELSE words'[i + 1]
      BY <3>3, <3>4, <3>5, <1>15
    <3> QED
      BY <3>8, <3>9, <3>10, <1>8 DEF LinkedAt
  <2> QED
    BY <2>1, <2>2, <2>3, <1>4
<1>17. Linked'
  <2>1. words' # <<>>
    BY <1>3, <1>4, <1>8, EmptySeq
  <2>2. tail' = words'[L + K]
    <3>1. L + K \in 1..(L + K) /\ L + K > L /\ (L + K) - L = K
      BY <1>3, <1>4
    <3> QED
      BY <3>1, <1>1, <1>8 DEF LastOf
  <2>3. head' = words'[1]
    <3>1. CASE L = 0
      <4>1. 1 \in 1..(L + K) /\ 1 > L /\ 1 - L = 1
        BY <3>1, <1>3
      <4> QED
        BY <4>1, <3>1, <1>1, <1>8, <1>13
    <3>2. CASE L # 0
      <4>1. 1 \in 1..L /\ L > 0
        BY <3>2, <1>4
      <4> QED
        BY <4>1, <1>1, <1>8, <1>12
    <3> QED
      BY <3>1, <3>2
  <2> QED
    BY <2>1, <2>2, <2>3, <1>8, <1>9, <1>10, <1>16 DEF Linked, LinkedAt
<1>18. ListTypeOK'
  <2>1. ToSet(chain) \subseteq live' /\ live \subseteq live' /\ live' \subseteq Nodes
    BY <1>1, <1>4, <1>7
  <2>2. head' \in live' \cup {Null} /\ tail' \in live' \cup {Null}
    <3>1. 1 \in 1..K /\ K \in 1..K
      BY <1>3
    <3> QED
      BY <3>1, <2>1, <1>1, <1>2, <1>6 DEF ListTypeOK, LastOf
  <2>3. ASSUME NEW m \in Nodes
        PROVE  next'[m] \in live' \cup {Null} /\ prev'[m] \in live' \cup {Null}
    <3>1. CASE m \in ToSet(chain)
      <4>1. PICK j \in 1..K : m = chain[j]
        BY <3>1, <1>3 DEF ToSet
      <4>2. j # K => j + 1 \in 1..K
        BY <1>3
      <4>3. j # 1 => j - 1 \in 1..K
        BY <1>3
      <4> QED
        BY <4>1, <4>2, <4>3, <2>1, <1>2, <1>6, <1>15 DEF ListTypeOK
    <3>2. CASE m \notin ToSet(chain)
      <4>1. chain[1] \in live'
        BY <2>1, <1>3, <1>6
      <4> QED
        BY <4>1, <3>2, <2>1, <1>1, <1>2 DEF ListTypeOK
    <3> QED
      BY <3>1, <3>2
  <2>4. next' \in [Nodes -> live' \cup {Null}] /\ prev' \in [Nodes -> live' \cup {Null}]
    BY <2>3, <1>1
  <2>5. silent' \subseteq live' /\ at' \in live' \cup {Null} /\ phase' = phase
    BY <2>1, <1>1, <1>2 DEF ListTypeOK, Push
  <2> QED
    BY <2>1, <2>2, <2>4, <2>5, <1>2, <1>11 DEF ListTypeOK
<1>19. Blank'
  <2> SUFFICES ASSUME NEW m \in Nodes, m \notin live'
               PROVE  next'[m] = Null /\ prev'[m] = Null
    BY DEF Blank
  <2>1. m \notin ToSet(chain) /\ m \notin live /\ m # tail
    BY <1>1, <1>2, <1>5 DEF ListTypeOK
  <2> QED
    BY <2>1, <1>1, <1>2 DEF Blank
<1>20. SweptClean'
  BY DEF Push, SweptClean
<1> QED
  BY <1>17, <1>18, <1>19, <1>20 DEF ListInv

-----------------------------------------------------------------------------
(* The loops.                                                              *)

\* Where a loop goes next.
LEMMA Onward ==
  ASSUME ListTypeOK, Linked, at # Null
  PROVE  next[at] \in live \cup {Null}
  BY DEF ListTypeOK

\* A sweep begins with every word in front of it.
LEMMA SweepBegins ==
  ASSUME ListTypeOK, Linked, at' = head, UNCHANGED <<words, silent>>
  PROVE  SweptClean'
<1> SUFFICES ASSUME NEW i \in 1..Len(words)
             PROVE  head # Null /\ Place(words, head) <= i
  BY DEF SweptClean
<1>1. Len(words) \in Nat /\ 1 \in 1..Len(words) /\ Len(words) > 0
  BY Links
<1>2. head # Null /\ head = words[1]
  BY <1>1, Ends
<1>3. Place(words, words[1]) = 1
  BY <1>1, Links
<1> QED
  BY <1>2, <1>3

\* A word that is kept is not silent, so the sweep may leave it behind.
LEMMA KeepKeeps ==
  ASSUME ListInv, SweepKeep
  PROVE  SweptClean'
<1> DEFINE L == Len(words)
<1>1. ListTypeOK /\ Linked /\ SweptClean /\ at \in live
  BY DEF ListInv, ListTypeOK, SweepKeep
<1>2. PICK k \in 1..L : Place(words, at) = k
  BY <1>1, Links
<1>3. /\ words[k] = at /\ L \in Nat /\ next[at] = (IF k = L THEN Null ELSE words[k + 1])
      /\ \A i \in 1..L : words[i] \in live /\ Place(words, words[i]) = i
  BY <1>1, <1>2, Links DEF LinkedAt
<1> SUFFICES ASSUME NEW i \in 1..L, words[i] \in silent
             PROVE  next[at] # Null /\ Place(words, next[at]) <= i
  BY DEF SweptClean, SweepKeep
<1>4. k <= i /\ i # k
  BY <1>1, <1>2, <1>3 DEF SweptClean, SweepKeep
<1>5. k # L /\ k + 1 \in 1..L /\ k + 1 <= i
  BY <1>3, <1>4
<1>6. next[at] = words[k + 1] /\ words[k + 1] \in live /\ Place(words, words[k + 1]) = k + 1
  BY <1>3, <1>5
<1> QED
  BY <1>1, <1>5, <1>6, ListAssumption DEF ListTypeOK

LEMMA ListStep == ListInv /\ [ListNext]_listVars => ListInv'
<1> SUFFICES ASSUME ListInv, [ListNext]_listVars PROVE ListInv'
  OBVIOUS
<1>1. ListTypeOK /\ Linked /\ Blank /\ SweptClean
  BY DEF ListInv
<1>2. CASE Push
  BY <1>2, PushKeeps
<1>3. CASE Insert
  BY <1>3, InsertKeeps
<1>4. CASE Drop
  BY <1>4, RemoveKeeps DEF Drop
<1>5. CASE SweepOut
  BY <1>5, RemoveKeeps DEF SweepOut
<1>6. CASE LoadDone
  BY <1>1, <1>6 DEF LoadDone, ListInv, ListTypeOK, Linked, Blank, SweptClean, pointers
<1>7. CASE Pronounce
  BY <1>1, <1>7 DEF Pronounce, ListInv, ListTypeOK, Linked, Blank, SweptClean, pointers
<1>8. CASE Move
  <2>1. next[at] \in live \cup {Null}
    BY <1>1, <1>8, Onward DEF Move
  <2> QED
    BY <2>1, <1>1, <1>8 DEF Move, ListInv, ListTypeOK, Linked, Blank, SweptClean, pointers
<1>9. CASE EditDone
  <2>1. SweptClean'
    BY <1>1, <1>9, SweepBegins DEF EditDone
  <2> QED
    BY <2>1, <1>1, <1>9 DEF EditDone, ListInv, ListTypeOK, Linked, Blank, pointers
<1>10. CASE SweepKeep
  <2>1. next[at] \in live \cup {Null}
    BY <1>1, <1>10, Onward DEF SweepKeep
  <2>2. SweptClean'
    BY <1>10, KeepKeeps
  <2> QED
    BY <2>1, <2>2, <1>1, <1>10 DEF SweepKeep, ListInv, ListTypeOK, Linked, Blank, pointers
<1>11. CASE SweepDone
  BY <1>1, <1>11 DEF SweepDone, ListInv, ListTypeOK, Linked, Blank, SweptClean, pointers
<1>12. CASE UNCHANGED listVars
  BY <1>1, <1>12 DEF listVars, ListInv, ListTypeOK, Linked, Blank, SweptClean, pointers
<1> QED
  BY <1>2, <1>3, <1>4, <1>5, <1>6, <1>7, <1>8, <1>9, <1>10, <1>11, <1>12 DEF ListNext

THEOREM ListInvariant == ListSpec => []ListInv
  BY ListStart, ListStep, PTL DEF ListSpec

\* No pointer that can still be followed leads to freed memory, for any number
\* of words and any order of insertions and removals.
THEOREM NothingDangles == ListSpec => []ListTypeOK
<1>1. ListInv => ListTypeOK
  BY DEF ListInv
<1> QED
  BY <1>1, ListInvariant, PTL

\* Both directions of the list and its ends always agree on one order of all
\* the allocated nodes (njd.cc, NJDNode_insert).
THEOREM DirectionsAgree == ListSpec => []Linked
<1>1. ListInv => Linked
  BY DEF ListInv
<1> QED
  BY <1>1, ListInvariant, PTL

\* NJD_remove_silent_node never leaves a silent word behind its loop.
THEOREM SweepLeavesNone == ListSpec => []SweptClean
<1>1. ListInv => SweptClean
  BY DEF ListInv
<1> QED
  BY <1>1, ListInvariant, PTL

\* The three together: what the rules may rely on whenever they look at the list.
THEOREM ListIsSound == ListSpec => []ListSound
<1>1. ListInv => ListSound
  BY DEF ListInv, ListSound
<1> QED
  BY <1>1, ListInvariant, PTL

-----------------------------------------------------------------------------
(* The walk from head, which is what the rules see of the list.             *)

\* The list walked from its head, step by step: the words, then nothing.
LEMMA Walked ==
  ASSUME ListTypeOK, Linked
  PROVE  LET N == Cardinality(Nodes)
             Is(f) == f = [k \in 0..N |-> IF k = 0 THEN head
                                          ELSE IF f[k - 1] = Null THEN Null ELSE next[f[k - 1]]]
             node == CHOOSE f : Is(f)
         IN  /\ N \in Nat /\ Len(words) <= N /\ DOMAIN node = 0..N
             /\ \A k \in 0..N : node[k] = IF k < Len(words) THEN words[k + 1] ELSE Null
<1> DEFINE N == Cardinality(Nodes)
           L == Len(words)
           Is(f) == f = [k \in 0..N |-> IF k = 0 THEN head
                                        ELSE IF f[k - 1] = Null THEN Null ELSE next[f[k - 1]]]
           node == CHOOSE f : Is(f)
           walk == [k \in 0..N |-> IF k < L THEN words[k + 1] ELSE Null]
<1>1. /\ words \in Seq(Nodes) /\ L \in Nat /\ Null \notin Nodes
      /\ \A i \in 1..L : words[i] \in Nodes /\ LinkedAt(i)
      /\ \A i, j \in 1..L : words[i] = words[j] => i = j
  BY Links, ListAssumption DEF ListTypeOK
<1>2. N \in Nat /\ L <= N
  <2>1. IsFiniteSet(Nodes) /\ N \in Nat
    BY ListAssumption, FS_CardinalityType
  <2>2. words \in Injection(1..L, Nodes)
    BY <1>1 DEF Injection, IsInjective
  <2>3. Cardinality(1..L) = L
    <3>1. L \in Int /\ 1 \in Int
      BY <1>1
    <3>2. Cardinality(1..L) = IF 1 > L THEN 0 ELSE L - 1 + 1
      <4> HIDE DEF L
      <4> QED BY <3>1, FS_Interval
    <3> HIDE DEF L
    <3> QED BY <1>1, <3>2
  <2> QED BY <2>1, <2>2, <2>3, FS_Injection
<1> HIDE DEF L, N
<1>3. head = IF 0 < L THEN words[1] ELSE Null
  <2>1. (0 < L) <=> (words # <<>>)
    BY <1>1 DEF L
  <2> QED BY <2>1 DEF Linked
<1>4. Is(walk)
  <2>5. walk = [k \in 0..N |-> walk[k]]
    OBVIOUS
  <2> SUFFICES \A k \in 0..N :
                 walk[k] = IF k = 0 THEN head
                           ELSE IF walk[k - 1] = Null THEN Null ELSE next[walk[k - 1]]
    <3> HIDE DEF walk
    <3> QED BY <2>5
  <2> TAKE k \in 0..N
  <2>1. CASE k = 0
    BY <1>3, <2>1
  <2>2. CASE k # 0
    <3>1. k - 1 \in 0..N /\ k \in Nat
      BY <1>2, <2>2
    <3>2. walk[k - 1] = IF k - 1 < L THEN words[k] ELSE Null
      BY <3>1
    <3>3. CASE k - 1 < L
      <4>1. k \in 1..L
        BY <1>1, <2>2, <3>1, <3>3
      <4>2. words[k] \in Nodes /\ next[words[k]] = IF k = L THEN Null ELSE words[k + 1]
        BY <1>1, <4>1 DEF LinkedAt, L
      <4> QED BY <1>1, <2>2, <3>2, <3>3, <4>1, <4>2
    <3>4. CASE ~ (k - 1 < L)
      BY <1>1, <2>2, <3>1, <3>2, <3>4, SMTT(60)
    <3> QED BY <3>3, <3>4
  <2> QED BY <2>1, <2>2
<1>5. Is(node)
  BY <1>4
<1> HIDE DEF node
<1>6. DOMAIN node = 0..N
  BY <1>5
<1>7. \A k \in 0..N : node[k] = IF k = 0 THEN head
                                 ELSE IF node[k - 1] = Null THEN Null ELSE next[node[k - 1]]
  BY <1>5
<1>8. \A k \in 0..N : walk[k] = IF k = 0 THEN head
                                 ELSE IF walk[k - 1] = Null THEN Null ELSE next[walk[k - 1]]
  BY <1>4
<1>9. \A k \in 0..N : walk[k] = IF k < L THEN words[k + 1] ELSE Null
  OBVIOUS
<1> HIDE DEF walk
<1> DEFINE P == {k \in Nat : k <= N => node[k] = walk[k]}
<1>10. P \in SUBSET Nat /\ 0 \in P
  BY <1>2, <1>7, <1>8
<1>11. ASSUME NEW k \in P PROVE k + 1 \in P
  <2> SUFFICES ASSUME k + 1 <= N PROVE node[k + 1] = walk[k + 1]
    OBVIOUS
  <2>1. k \in 0..N /\ k + 1 \in 0..N /\ (k + 1) - 1 = k /\ k + 1 # 0
    BY <1>2
  <2>2. node[k] = walk[k]
    BY <1>2, <2>1
  <2> QED BY <1>7, <1>8, <2>1, <2>2
<1>12. \A k \in Nat : k \in P
  <2> HIDE DEF P
  <2> QED BY <1>10, <1>11, Induction
<1>13. \A k \in 0..N : node[k] = IF k < L THEN words[k + 1] ELSE Null
  BY <1>9, <1>12
<1> QED BY <1>2, <1>6, <1>13 DEF L, N, node

LEMMA PathIsWords == ListInv => Path = words
<1> SUFFICES ASSUME ListTypeOK, Linked PROVE Path = words
  BY DEF ListInv
<1> DEFINE N == Cardinality(Nodes)
           L == Len(words)
           Is(f) == f = [k \in 0..N |-> IF k = 0 THEN head
                                        ELSE IF f[k - 1] = Null THEN Null ELSE next[f[k - 1]]]
           node == CHOOSE f : Is(f)
           reached == {j \in DOMAIN node : node[j] # Null}
<1>1. /\ N \in Nat /\ L <= N /\ DOMAIN node = 0..N
      /\ \A k \in 0..N : node[k] = IF k < L THEN words[k + 1] ELSE Null
  BY Walked
<1>2. Path = [k \in 1..Cardinality(reached) |-> node[k - 1]]
  BY DEF Path
<1> HIDE DEF node
<1>3. words \in Seq(Nodes) /\ L \in Nat /\ Null \notin Nodes /\ \A i \in 1..L : words[i] \in Nodes
  BY Links, ListAssumption DEF ListTypeOK
<1> HIDE DEF L, N
<1>4. reached = 0..(L - 1)
  BY <1>1, <1>3
<1>5. Cardinality(0..(L - 1)) = L
  <2>1. 0 \in Int /\ L - 1 \in Int
    BY <1>3
  <2>2. Cardinality(0..(L - 1)) = IF 0 > L - 1 THEN 0 ELSE (L - 1) - 0 + 1
    BY <2>1, FS_Interval
  <2> QED BY <1>3, <2>2
<1> HIDE DEF reached
<1>6. Path = [k \in 1..L |-> node[k - 1]]
  BY <1>2, <1>4, <1>5
<1>7. \A k \in 1..L : node[k - 1] = words[k]
  BY <1>1, <1>3
<1>8. words = [k \in 1..L |-> words[k]]
  BY <1>3 DEF L
<1> QED BY <1>6, <1>7, <1>8

-----------------------------------------------------------------------------
(* The list implements the sequence.                                        *)

\* The helpers on sequences mean in WordSequence what they mean here.
LEMMA SameHelpers ==
  /\ \A q : Sequence!ToSet(q) = ToSet(q)
  /\ \A q, k : Sequence!RemoveAt(q, k) = RemoveAt(q, k)
  /\ \A q, k, n : Sequence!InsertAt(q, k, n) = InsertAt(q, k, n)
  /\ \A S, T : Sequence!Injection(S, T) = Injection(S, T)
  BY DEF Sequence!ToSet, ToSet, Sequence!RemoveAt, RemoveAt, Sequence!InsertAt, InsertAt,
         Sequence!Injection, Injection, Sequence!IsInjective, IsInjective

LEMMA PushAdds ==
  ASSUME ListInv, Path = words, Path' = words', Push
  PROVE  Sequence!Add
<1>1. live = Sequence!ToSet(Path)
  BY SameHelpers DEF ListInv, Linked
<1>2. PICK chain \in Chains :
        /\ words' = words \o chain
        /\ \E mute \in SUBSET Sequence!ToSet(chain) : silent' = silent \cup mute
  BY SameHelpers DEF Push
<1>3. PICK k \in 1..MaxChain : chain \in Sequence!Injection(1..k, Nodes \ Sequence!ToSet(Path))
  BY <1>1, SameHelpers DEF Chains
<1>4. phase = "load" /\ UNCHANGED phase
  BY DEF Push
<1> QED BY <1>2, <1>3, <1>4 DEF Sequence!Add

\* NJD_remove_node takes the word at the loop's node out, and nothing else.
LEMMA RemoveTakesOut ==
  ASSUME ListInv, ListInv', Path = words, Path' = words', at # Null, RemoveNode(at)
  PROVE  /\ \E k \in 1..Len(Path) : Path[k] = at /\ Path' = Sequence!RemoveAt(Path, k)
         /\ silent' = silent \cap Sequence!ToSet(Path')
<1>1. ListTypeOK /\ Linked /\ at \in live /\ silent \subseteq live
  BY DEF ListInv, ListTypeOK
<1>2. PICK k \in 1..Len(words) : Place(words, at) = k /\ words[k] = at
  BY <1>1, Links
<1>3. words' = Sequence!RemoveAt(words, k)
  BY <1>2, SameHelpers DEF RemoveNode
<1>4. silent' = silent \ {at} /\ live' = live \ {at}
  BY DEF RemoveNode
<1>5. live' = Sequence!ToSet(words')
  BY SameHelpers DEF ListInv, Linked
<1> QED BY <1>1, <1>2, <1>3, <1>4, <1>5

LEMMA InsertPuts ==
  ASSUME ListInv, Path = words, Path' = words', Insert
  PROVE  Sequence!Put
<1>1. ListTypeOK /\ Linked /\ at \in live
  BY DEF ListInv, ListTypeOK, Insert
<1>2. PICK k \in 1..Len(words) : Place(words, at) = k
  BY <1>1, Links
<1>3. words[k] = at /\ Len(words) \in Nat /\ LinkedAt(k)
  BY <1>1, <1>2, Links
<1>4. k \in 1..(Len(words) - 1)
  BY <1>3 DEF Insert, LinkedAt
<1>5. live = Sequence!ToSet(words)
  BY <1>1, SameHelpers DEF Linked
<1>6. PICK n \in Nodes \ live : words' = Sequence!InsertAt(words, k + 1, n)
  BY <1>2, SameHelpers DEF Insert
<1>7. phase = "edit" /\ UNCHANGED <<silent, phase>>
  BY DEF Insert
<1> QED BY <1>4, <1>5, <1>6, <1>7 DEF Sequence!Put

LEMMA ListImplements ==
  ListInv /\ ListInv' /\ Path = words /\ Path' = words' /\ [ListNext]_listVars
    => [Sequence!Next]_Sequence!vars
<1> SUFFICES ASSUME ListInv, ListInv', Path = words, Path' = words', [ListNext]_listVars
             PROVE  Sequence!Next \/ UNCHANGED <<Path, silent, phase>>
  BY DEF Sequence!vars
<1>1. live = Sequence!ToSet(Path) /\ silent \subseteq live
  BY SameHelpers DEF ListInv, Linked, ListTypeOK
<1>2. CASE Push
  BY <1>2, PushAdds DEF Sequence!Next
<1>3. CASE LoadDone
  BY <1>3 DEF LoadDone, Sequence!LoadDone, Sequence!Next
<1>4. CASE Insert
  BY <1>4, InsertPuts DEF Sequence!Next
<1>5. CASE Drop
  BY <1>5, RemoveTakesOut DEF Drop, RemoveNode, Sequence!Drop, Sequence!Next
<1>6. CASE Pronounce
  BY <1>1, <1>6 DEF Pronounce, Sequence!Pronounce, Sequence!Next
<1>7. CASE Move
  BY <1>7 DEF Move
<1>8. CASE EditDone
  BY <1>8 DEF EditDone, Sequence!SweepStart, Sequence!Next
<1>9. CASE SweepOut
  BY <1>9, RemoveTakesOut DEF SweepOut, RemoveNode, Sequence!SweepOut, Sequence!Next
<1>10. CASE SweepKeep
  BY <1>10 DEF SweepKeep
<1>11. CASE SweepDone
  <2>1. \A i \in 1..Len(words) : words[i] \notin silent
    BY <1>11 DEF ListInv, SweptClean, SweepDone
  <2>2. Sequence!ToSet(Path) \cap silent = {}
    BY <2>1 DEF Sequence!ToSet, ListInv, ListTypeOK
  <2> QED BY <1>11, <2>2 DEF SweepDone, Sequence!SweepDone, Sequence!Next
<1>12. CASE UNCHANGED listVars
  BY <1>12 DEF listVars
<1> QED BY <1>2, <1>3, <1>4, <1>5, <1>6, <1>7, <1>8, <1>9, <1>10, <1>11, <1>12 DEF ListNext

\* Walked from head along next, the list behaves as the sequence of words the
\* rules take it for: nothing is appended, inserted, taken out or swept but the
\* word that is meant, and a sweep that ends has left no silent word
\* (WordSequence), for any number of addresses and of words in one feature.
THEOREM ListIsSequence == ListSpec => ImplementsSequence
<1>1. ListInit => Sequence!Init
  <2> SUFFICES ASSUME ListInit PROVE Sequence!Init
    OBVIOUS
  <2>1. Path = words
    BY ListStart, PathIsWords
  <2> QED BY <2>1 DEF ListInit, Sequence!Init
<1>2. ListInv /\ ListInv' /\ (Path = words)' => Path' = words'
  OBVIOUS
<1> QED BY <1>1, <1>2, ListInvariant, PathIsWords, ListImplements, PTL
         DEF ListSpec, ImplementsSequence, Sequence!Spec

-----------------------------------------------------------------------------
(* The rule for numbers.                                                    *)

LEMMA LeastExists ==
  ASSUME NEW P \in SUBSET Nat, P # {}
  PROVE  LeastOf(P) \in P
BY LeastElement DEF LeastOf

LEMMA GreatestExists ==
  ASSUME NEW n \in Nat, NEW P \in SUBSET (0..n), P # {}
  PROVE  GreatestOf(P) \in P
<1> DEFINE Q == {k \in 0..n : n - k \in P}
<1>1. PICK p \in P : TRUE
  OBVIOUS
<1>2. n - p \in Q
  BY <1>1
<1>3. Q \in SUBSET Nat /\ Q # {}
  <2>1. Q \subseteq 0..n
    BY Zenon
  <2> HIDE DEF Q
  <2> QED
    BY <1>2, <2>1
<1>4. PICK x \in Q : \A y \in Q : x <= y
  <2> HIDE DEF Q
  <2> QED
    BY <1>3, LeastElement
<1>5. \A y \in Q : x <= y
  BY <1>4
<1>6. \A y \in P : y <= n - x
  <2> TAKE y \in P
  <2>1. n - y \in Q
    OBVIOUS
  <2>2. x \in Nat /\ y \in 0..n /\ x <= n - y
    BY <2>1, <1>3, <1>5, <1>4
  <2> QED
    BY <2>2
<1>7. n - x \in P
  BY <1>4
<1> QED
  BY <1>6, <1>7 DEF GreatestOf

-----------------------------------------------------------------------------
\* What the loops rely on: the run and the piece lie in the list, and the
\* digits from the node on are as many as the counters say.
Within ==
  /\ digitPc \in {"cut", "commas", "numeral", "next"} => 1 <= s /\ s <= e /\ e <= Len(digitWords)
  /\ digitPc \in {"commas", "numeral", "next"} => s <= last /\ last <= e
  /\ digitPc = "commas" => s <= digitNode /\ digitNode <= last

Remaining == digitPc = "numeral" => last + 1 - digitNode = 4 * place + digitIndex + 1 /\ s <= digitNode

DigitsInv == DigitsTypeOK /\ Within /\ Remaining /\ NeverExits

LEMMA DigitsStart == DigitsInit => DigitsInv
<1> SUFFICES ASSUME DigitsInit PROVE DigitsInv
  OBVIOUS
<1>1. digitWords \in Seq(Word)
  BY TextsAssumption DEF DigitsInit
<1> QED
  BY <1>1 DEF DigitsInit, DigitsInv, DigitsTypeOK, Within, Remaining, NeverExits, MaxPlace

\* Where the last digit before the period is.
LEMMA FinalBetween ==
  ASSUME DigitsTypeOK, Within, digitPc = "cut"
  PROVE  FinalBeforePeriod \in s..e
<1> DEFINE P == {f \in s..e : f = e \/ IsPeriod(f + 1)}
           before == LeastOf(P)
           Q == {f \in s..before : f = s \/ ~IsComma(f)}
<1>1. s \in Nat /\ e \in Nat /\ s <= e
  BY DEF DigitsTypeOK, Within
<1>2. P \in SUBSET Nat /\ e \in P
  BY <1>1
<1>3. before \in P
  <2> HIDE DEF P
  <2> QED
    BY <1>2, LeastExists
<1>4. before \in s..e
  BY <1>3
<1>5. Q \in SUBSET (0..before) /\ s \in Q /\ before \in Nat
  BY <1>1, <1>4
<1>6. GreatestOf(Q) \in Q
  <2> HIDE DEF Q, before
  <2> QED
    BY <1>5, GreatestExists
<1>7. GreatestOf(Q) \in s..e
  <2> HIDE DEF before
  <2> QED
    BY <1>6, <1>4, <1>1
<1>8. FinalBeforePeriod = GreatestOf(Q)
  BY DEF FinalBeforePeriod
<1> QED
  BY <1>7, <1>8, Zenon

\* The last digit before the first comma; the word at s is none.
LEMMA FinalCommaBetween ==
  ASSUME DigitsTypeOK, Within, AtDigit
  PROVE  FinalBeforeComma \in s..e
<1>1. FinalBeforePeriod \in s..e
  BY FinalBetween DEF AtDigit
<1>2. CASE Commas = {}
  BY <1>1, <1>2 DEF FinalBeforeComma
<1>3. CASE Commas # {}
  <2>1. Commas \in SUBSET Nat
    BY <1>1 DEF Commas, DigitsTypeOK
  <2>2. LeastOf(Commas) \in Commas
    BY <2>1, <1>3, LeastExists
  <2>3. LeastOf(Commas) \in s..FinalBeforePeriod /\ IsComma(LeastOf(Commas))
    BY <2>2 DEF Commas
  <2>4. LeastOf(Commas) # s
    BY <2>3 DEF AtDigit
  <2>5. LeastOf(Commas) - 1 \in s..e
    BY <2>3, <2>4, <1>1 DEF DigitsTypeOK
  <2> QED
    BY <2>5, <1>3 DEF FinalBeforeComma
<1> QED
  BY <1>2, <1>3

\* The counters a loop starts with count its digits.
LEMMA Starts ==
  ASSUME NEW size \in Nat, size > 1
  PROVE  /\ IndexOf(size) \in 0..3
         /\ PlaceOf(size) \in Nat
         /\ size = 4 * PlaceOf(size) + IndexOf(size) + 1
BY DEF IndexOf, PlaceOf

LEMMA PlaceBound ==
  ASSUME NEW p \in Nat, p <= MaxPlace
  PROVE  p + 1 \in 0..MaxPlace + 1 /\ p \in Int
BY DEF MaxPlace

\* A digit less, and the counters one step on, count the same.
LEMMA Shift ==
  ASSUME NEW a \in Int, NEW b \in Int, NEW j \in Int, NEW c, NEW d, c = a + 1 + j, d = b + j
  PROVE  d + 1 - c = (b + 1 - a) - 1
OBVIOUS

LEMMA StartKeeps ==
  ASSUME DigitsTypeOK, NEW final \in s..e, StartNumeral(final),
         1 <= s, e <= Len(digitWords), digitWords' = digitWords, s' = s, e' = e
  PROVE  DigitsInv'
<1> DEFINE size == final - s + 1
           reads == size > 1 /\ PlaceOf(size) <= MaxPlace
<1>1. size \in Nat /\ Len(digitWords) \in Nat
  BY DEF DigitsTypeOK
<1>2. CASE reads
  <2>1. IndexOf(size) \in 0..3 /\ PlaceOf(size) \in Nat /\ size = 4 * PlaceOf(size) + IndexOf(size) + 1
    BY <1>1, <1>2, Starts
  <2>2. /\ digitPc' = "numeral" /\ last' = final /\ digitNode' = s /\ have' = 0
        /\ digitIndex' = IndexOf(size) /\ place' = PlaceOf(size)
    BY <1>2 DEF StartNumeral
  <2>3. place' + 1 \in 0..MaxPlace + 1 /\ place' \in Int
    <3>1. place' \in Nat /\ place' <= MaxPlace
      BY <2>1, <2>2, <1>2, Zenon
    <3> QED
      BY <3>1, PlaceBound, Zenon
  <2>4. last' + 1 - digitNode' = 4 * place' + digitIndex' + 1
    BY <2>1, <2>2, <1>1 DEF DigitsTypeOK
  <2> QED
    BY <2>1, <2>2, <2>3, <2>4, <1>1 DEF DigitsInv, DigitsTypeOK, Within, Remaining, NeverExits
<1>3. CASE ~reads
  <2>1. /\ digitPc' = "next" /\ last' = final /\ digitNode' = s /\ have' = 0
        /\ digitIndex' = digitIndex /\ place' = place
    BY <1>3 DEF StartNumeral
  <2> QED
    BY <2>1, <1>1 DEF DigitsInv, DigitsTypeOK, Within, Remaining, NeverExits
<1> QED
  BY <1>2, <1>3

\* One round of the loop that reads a digit: its word stays or is replaced,
\* and another one may follow it if it is not the last of the piece.
LEMMA ReplaceKeeps ==
  ASSUME DigitsInv, digitPc = "numeral", digitNode <= last, NEW word \in Word, Replace(word)
  PROVE  /\ digitWords' \in Seq(Word) /\ Len(digitWords') = Len(digitWords)
         /\ digitPc' = digitPc /\ digitNode' = digitNode + 1 /\ e' = e /\ last' = last
BY DEF DigitsInv, DigitsTypeOK, Within, Replace

LEMMA FollowKeeps ==
  ASSUME DigitsInv, digitPc = "numeral", digitNode < last, NEW said \in Word, NEW word \in Word, Follow(said, word)
  PROVE  /\ digitWords' \in Seq(Word) /\ Len(digitWords') = Len(digitWords) + 1
         /\ digitPc' = digitPc /\ digitNode' = digitNode + 2 /\ e' = e + 1 /\ last' = last + 1
<1>1. digitWords \in Seq(Word) /\ Len(digitWords) \in Nat /\ digitNode \in 1..Len(digitWords) /\ digitNode < Len(digitWords)
  BY DEF DigitsInv, DigitsTypeOK, Within, Remaining
<1>2. /\ digitWords' = SubSeq(digitWords, 1, digitNode - 1) \o <<said, word>> \o SubSeq(digitWords, digitNode + 1, Len(digitWords))
      /\ digitPc' = digitPc /\ digitNode' = digitNode + 2 /\ e' = e + 1 /\ last' = last + 1
  <2>1. digitNode # Len(digitWords)
    BY <1>1
  <2> QED
    BY <2>1, Zenon DEF Follow
<1>3. /\ SubSeq(digitWords, 1, digitNode - 1) \in Seq(Word) /\ Len(SubSeq(digitWords, 1, digitNode - 1)) = digitNode - 1
      /\ SubSeq(digitWords, digitNode + 1, Len(digitWords)) \in Seq(Word)
      /\ Len(SubSeq(digitWords, digitNode + 1, Len(digitWords))) = Len(digitWords) - digitNode
  BY <1>1
<1>4. <<said, word>> \in Seq(Word) /\ Len(<<said, word>>) = 2
  OBVIOUS
<1>5. SubSeq(digitWords, 1, digitNode - 1) \o <<said, word>> \in Seq(Word)
      /\ Len(SubSeq(digitWords, 1, digitNode - 1) \o <<said, word>>) = digitNode + 1
  BY <1>1, <1>3, <1>4
<1>6. (SubSeq(digitWords, 1, digitNode - 1) \o <<said, word>>) \o SubSeq(digitWords, digitNode + 1, Len(digitWords)) \in Seq(Word)
      /\ Len((SubSeq(digitWords, 1, digitNode - 1) \o <<said, word>>) \o SubSeq(digitWords, digitNode + 1, Len(digitWords)))
           = (digitNode + 1) + (Len(digitWords) - digitNode)
  <2> DEFINE a == SubSeq(digitWords, 1, digitNode - 1) \o <<said, word>>
             b == SubSeq(digitWords, digitNode + 1, Len(digitWords))
  <2>1. a \in Seq(Word) /\ b \in Seq(Word) /\ Len(a) = digitNode + 1 /\ Len(b) = Len(digitWords) - digitNode
    BY <1>3, <1>5
  <2> HIDE DEF a, b
  <2>2. a \o b \in Seq(Word) /\ Len(a \o b) = Len(a) + Len(b)
    BY <2>1
  <2> QED
    BY <2>1, <2>2 DEF a, b
<1>7. (digitNode + 1) + (Len(digitWords) - digitNode) = Len(digitWords) + 1
  BY <1>1
<1> QED
  BY <1>2, <1>6, <1>7, Zenon

LEMMA NumeralKeeps ==
  ASSUME DigitsInv, digitPc = "numeral", digitNode <= last,
         digitWords' \in Seq(Word), digitPc' = digitPc, s' = s, have' \in {0, 1},
         \/ Len(digitWords') = Len(digitWords) /\ digitNode' = digitNode + 1 /\ e' = e /\ last' = last
         \/ Len(digitWords') = Len(digitWords) + 1 /\ digitNode' = digitNode + 2 /\ e' = e + 1 /\ last' = last + 1,
         digitIndex' \in 0..3, place' + 1 \in 0..MaxPlace + 1 /\ place' \in Int, 4 * place' + digitIndex' = 4 * place + digitIndex - 1
  PROVE  DigitsInv'
<1>1. /\ s \in Nat /\ 1 <= s /\ s <= digitNode /\ digitNode \in Nat /\ last \in Nat /\ e \in Nat
      /\ last <= e /\ e <= Len(digitWords) /\ Len(digitWords) \in Nat
      /\ last + 1 - digitNode = 4 * place + digitIndex + 1 /\ place \in Int /\ digitIndex \in Int
  BY DEF DigitsInv, DigitsTypeOK, Within, Remaining
<1>2. place' \in Int /\ digitIndex' \in Int
  OBVIOUS
<1>0. s <= last
  BY DEF DigitsInv, DigitsTypeOK, Within
<1> DEFINE Moved(j) == digitNode' = digitNode + 1 + j /\ last' = last + j /\ e' = e + j /\ Len(digitWords') = Len(digitWords) + j
<1>3. PICK j \in {0, 1} : Moved(j)
  <2>1. CASE Len(digitWords') = Len(digitWords) /\ digitNode' = digitNode + 1 /\ e' = e /\ last' = last
    <3>1. Moved(0)
      BY <2>1, <1>1
    <3> QED
      BY <3>1
  <2>2. CASE Len(digitWords') = Len(digitWords) + 1 /\ digitNode' = digitNode + 2 /\ e' = e + 1 /\ last' = last + 1
    <3>1. Moved(1)
      BY <2>2, <1>1
    <3> QED
      BY <3>1
  <2> QED
    BY <2>1, <2>2
<1>4. /\ digitNode' \in Nat \ {0} /\ last' \in Nat /\ e' \in Nat
      /\ s <= digitNode' /\ s <= last' /\ last' <= e' /\ e' <= Len(digitWords')
  BY <1>0, <1>1, <1>3
<1>7. last' + 1 - digitNode' = 4 * place' + digitIndex' + 1
  <2>1. last + 1 - digitNode \in Int
    BY <1>1
  <2>2. last' + 1 - digitNode' = (last + 1 - digitNode) - 1
    <3> HIDE DEF Moved
    <3>1. j \in Int /\ digitNode \in Int /\ last \in Int
      BY <1>1, <1>3
    <3>2. digitNode' = digitNode + 1 + j /\ last' = last + j
      BY <1>3 DEF Moved
    <3> QED
      BY <3>1, <3>2, Shift
  <2>3. last' + 1 - digitNode' \in Int
    BY <2>1, <2>2
  <2> DEFINE a == last + 1 - digitNode
             b == last' + 1 - digitNode'
             q == place'
             i == digitIndex'
  <2>4. a \in Int /\ b \in Int /\ q \in Int /\ i \in Int /\ place \in Int /\ digitIndex \in Int
        /\ a = 4 * place + digitIndex + 1 /\ b = a - 1 /\ 4 * q + i = 4 * place + digitIndex - 1
    BY <2>1, <2>2, <2>3, <1>1, <1>2, Zenon
  <2> HIDE DEF a, b, q, i
  <2>5. b = 4 * q + i + 1
    BY <2>4, SMT
  <2> QED
    BY <2>5, Zenon DEF b, q, i
<1>5. DigitsTypeOK'
  BY <1>1, <1>4 DEF DigitsInv, DigitsTypeOK
<1>6. Within' /\ Remaining' /\ NeverExits'
  BY <1>1, <1>4, <1>7 DEF Within, Remaining, NeverExits
<1> QED
  BY <1>5, <1>6 DEF DigitsInv

LEMMA OnesKeeps == DigitsInv /\ Ones => DigitsInv'
<1> SUFFICES ASSUME DigitsInv, Ones PROVE DigitsInv'
  OBVIOUS
<1> DEFINE said == IF Digit = 0 THEN Silenced(digitWords[digitNode]) ELSE digitWords[digitNode]
<1>1. digitNode \in 1..Len(digitWords) /\ digitWords[digitNode] \in Word
  BY DEF DigitsInv, DigitsTypeOK, Within, Remaining, Ones
<1>2. said \in Word
  BY <1>1 DEF Silenced, Word
<1>3. digitPc = "numeral" /\ digitNode <= last /\ digitIndex = 0 /\ s' = s
      /\ have' = 0 /\ place' = place - 1 /\ digitIndex' = 3
  BY DEF Ones
<1>4. place \in 0..MaxPlace
  BY <1>3 DEF DigitsInv, DigitsTypeOK, Remaining, MaxPlace
<1>5. place' + 1 \in 0..MaxPlace + 1 /\ place' \in Int /\ 4 * place' + digitIndex' = 4 * place + digitIndex - 1 /\ digitIndex' \in 0..3
  BY <1>3, <1>4 DEF MaxPlace
<1>6. CASE place > 0 /\ (have = 1 \/ Digit # 0)
  <2>1. Follow(said, W("myriad", place))
    BY <1>6 DEF Ones
  <2>2. W("myriad", place) \in Word
    BY <1>4 DEF W, Word, Kinds, MaxPlace
  <2>3. digitNode < last
    BY <1>3, <1>6, <1>4 DEF DigitsInv, DigitsTypeOK, Remaining
  <2> HIDE DEF said
  <2>4. /\ digitWords' \in Seq(Word) /\ Len(digitWords') = Len(digitWords) + 1
        /\ digitPc' = digitPc /\ digitNode' = digitNode + 2 /\ e' = e + 1 /\ last' = last + 1
    BY <2>1, <2>2, <2>3, <1>2, <1>3, FollowKeeps
  <2> QED
    BY <2>4, <1>3, <1>5, NumeralKeeps
<1>7. CASE ~(place > 0 /\ (have = 1 \/ Digit # 0))
  <2>1. Replace(said)
    BY <1>7 DEF Ones
  <2> HIDE DEF said
  <2>2. /\ digitWords' \in Seq(Word) /\ Len(digitWords') = Len(digitWords)
        /\ digitPc' = digitPc /\ digitNode' = digitNode + 1 /\ e' = e /\ last' = last
    BY <2>1, <1>2, <1>3, ReplaceKeeps
  <2> QED
    BY <2>2, <1>3, <1>5, NumeralKeeps
<1> QED
  BY <1>6, <1>7

LEMMA TensKeeps == DigitsInv /\ Tens => DigitsInv'
<1> SUFFICES ASSUME DigitsInv, Tens PROVE DigitsInv'
  OBVIOUS
<1>1. digitNode \in 1..Len(digitWords) /\ digitWords[digitNode] \in Word
  BY DEF DigitsInv, DigitsTypeOK, Within, Remaining, Tens
<1>2. Silenced(digitWords[digitNode]) \in Word
  BY <1>1 DEF Silenced, Word
<1>3. digitPc = "numeral" /\ digitNode <= last /\ digitIndex > 0 /\ s' = s
      /\ have' \in {0, 1} /\ place' = place /\ digitIndex' = digitIndex - 1
  <2>1. have' = IF Digit # 0 THEN 1 ELSE have
    BY DEF Tens
  <2>2. have' \in {0, 1}
    BY <2>1 DEF DigitsInv, DigitsTypeOK
  <2> QED
    BY <2>2 DEF Tens
<1>4. digitIndex \in 1..3 /\ place + 1 \in 0..MaxPlace + 1 /\ place \in Int
  BY <1>3 DEF DigitsInv, DigitsTypeOK
<1>5. place' + 1 \in 0..MaxPlace + 1 /\ place' \in Int /\ 4 * place' + digitIndex' = 4 * place + digitIndex - 1 /\ digitIndex' \in 0..3
  BY <1>3, <1>4 DEF MaxPlace
<1>6. W("unit", digitIndex) \in Word
  BY <1>4 DEF W, Word, Kinds
<1>7. CASE Digit = 0
  <2>1. Replace(Silenced(digitWords[digitNode]))
    BY <1>7 DEF Tens
  <2>2. /\ digitWords' \in Seq(Word) /\ Len(digitWords') = Len(digitWords)
        /\ digitPc' = digitPc /\ digitNode' = digitNode + 1 /\ e' = e /\ last' = last
    BY <2>1, <1>2, <1>3, ReplaceKeeps
  <2> QED
    BY <2>2, <1>3, <1>5, NumeralKeeps
<1>8. CASE Digit = 1
  <2>1. Replace(W("unit", digitIndex))
    BY <1>8 DEF Tens
  <2>2. /\ digitWords' \in Seq(Word) /\ Len(digitWords') = Len(digitWords)
        /\ digitPc' = digitPc /\ digitNode' = digitNode + 1 /\ e' = e /\ last' = last
    BY <2>1, <1>6, <1>3, ReplaceKeeps
  <2> QED
    BY <2>2, <1>3, <1>5, NumeralKeeps
<1>9. CASE Digit # 0 /\ Digit # 1
  <2>1. Follow(digitWords[digitNode], W("unit", digitIndex))
    BY <1>9 DEF Tens
  <2>2. digitNode < last
    BY <1>3, <1>4 DEF DigitsInv, DigitsTypeOK, Remaining, MaxPlace
  <2>3. /\ digitWords' \in Seq(Word) /\ Len(digitWords') = Len(digitWords) + 1
        /\ digitPc' = digitPc /\ digitNode' = digitNode + 2 /\ e' = e + 1 /\ last' = last + 1
    BY <2>1, <2>2, <1>1, <1>6, <1>3, FollowKeeps
  <2> QED
    BY <2>3, <1>3, <1>5, NumeralKeeps
<1> QED
  BY <1>7, <1>8, <1>9

LEMMA FindRunKeeps == DigitsInv /\ FindRun => DigitsInv'
<1> SUFFICES ASSUME DigitsInv, FindRun PROVE DigitsInv'
  OBVIOUS
<1>1. digitNode \in Nat \ {0} /\ Len(digitWords) \in Nat
  BY DEF DigitsInv, DigitsTypeOK
<1>2. RunStarts \in SUBSET Nat /\ RunStarts # {}
  BY <1>1 DEF RunStarts, FindRun
<1>3. s' \in RunStarts
  BY <1>2, LeastExists DEF FindRun
<1>4. s' \in digitNode..Len(digitWords) /\ InNumber(s')
  BY <1>3 DEF RunStarts
<1> DEFINE P == {j \in s'..Len(digitWords) : \A k \in s'..j : InNumber(k)}
<1>5. P \in SUBSET (0..Len(digitWords)) /\ s' \in P
  BY <1>1, <1>4
<1>6. e' = GreatestOf(P)
  BY DEF FindRun, RunEnd
<1>7. e' \in P
  <2> HIDE DEF P
  <2> QED
    BY <1>1, <1>5, <1>6, GreatestExists
<1>8. e' \in s'..Len(digitWords)
  BY <1>7
<1>9. digitPc' = "cut" /\ UNCHANGED <<digitWords, digitNode, last, digitIndex, place, have>>
  BY DEF FindRun
<1> QED
  BY <1>1, <1>4, <1>8, <1>9 DEF DigitsInv, DigitsTypeOK, Within, Remaining, NeverExits

LEMMA RemoveCommaKeeps == DigitsInv /\ RemoveComma => DigitsInv'
<1> SUFFICES ASSUME DigitsInv, RemoveComma PROVE DigitsInv'
  OBVIOUS
<1>1. /\ digitWords \in Seq(Word) /\ Len(digitWords) \in Nat /\ digitNode \in 1..Len(digitWords)
      /\ digitNode < last /\ last <= e /\ e <= Len(digitWords) /\ last \in Nat /\ e \in Nat
      /\ s \in Nat /\ s <= digitNode /\ s >= 1 /\ digitPc = "commas"
  BY DEF DigitsInv, DigitsTypeOK, Within, RemoveComma
<1>2. digitWords' = SubSeq(digitWords, 1, digitNode - 1) \o SubSeq(digitWords, digitNode + 1, Len(digitWords))
  BY DEF RemoveComma, RemoveAt
<1>3. digitWords' \in Seq(Word) /\ Len(digitWords') = Len(digitWords) - 1
  <2>1. /\ SubSeq(digitWords, 1, digitNode - 1) \in Seq(Word) /\ Len(SubSeq(digitWords, 1, digitNode - 1)) = digitNode - 1
        /\ SubSeq(digitWords, digitNode + 1, Len(digitWords)) \in Seq(Word)
        /\ Len(SubSeq(digitWords, digitNode + 1, Len(digitWords))) = Len(digitWords) - digitNode
    BY <1>1
  <2> DEFINE a == SubSeq(digitWords, 1, digitNode - 1)
             b == SubSeq(digitWords, digitNode + 1, Len(digitWords))
  <2> HIDE DEF a, b
  <2>2. a \o b \in Seq(Word) /\ Len(a \o b) = Len(a) + Len(b)
    BY <2>1 DEF a, b
  <2>3. digitWords' = a \o b /\ Len(a) = digitNode - 1 /\ Len(b) = Len(digitWords) - digitNode
    BY <2>1, <1>2, Zenon DEF a, b
  <2>4. digitWords' \in Seq(Word) /\ Len(digitWords') = Len(a) + Len(b)
    BY <2>2, <2>3, Zenon
  <2>5. Len(a) + Len(b) = Len(digitWords) - 1
    BY <2>3, <1>1
  <2> QED
    BY <2>4, <2>5, Zenon
<1>4. last' = last - 1 /\ e' = e - 1 /\ UNCHANGED <<digitPc, digitNode, s, digitIndex, place, have>>
  BY DEF RemoveComma
<1> QED
  BY <1>1, <1>3, <1>4 DEF DigitsInv, DigitsTypeOK, Within, Remaining, NeverExits

LEMMA NextKeeps == DigitsInv /\ [DigitsNext]_digitVars => DigitsInv'
<1> SUFFICES ASSUME DigitsInv, [DigitsNext]_digitVars PROVE DigitsInv'
  OBVIOUS
<1>1. CASE FindRun
  BY <1>1, FindRunKeeps
<1>2. CASE NoMoreRuns
  BY <1>2 DEF NoMoreRuns, DigitsInv, DigitsTypeOK, Within, Remaining, NeverExits
<1>3. CASE SkipMark
  BY <1>3 DEF SkipMark, DigitsInv, DigitsTypeOK, Within, Remaining, NeverExits
<1>4. CASE ReadUntilPeriod
  <2>1. FinalBeforePeriod \in s..e
    BY <1>4, FinalBetween DEF ReadUntilPeriod, AtDigit, DigitsInv
  <2>2. /\ last' = FinalBeforePeriod /\ digitNode' = s /\ digitPc' = "commas" /\ digitPc = "cut"
        /\ UNCHANGED <<digitWords, s, e, digitIndex, place, have>>
    BY <1>4 DEF ReadUntilPeriod, AtDigit
  <2>3. last' \in s..e
    BY <2>1, <2>2
  <2> QED
    BY <2>2, <2>3 DEF DigitsInv, DigitsTypeOK, Within, Remaining, NeverExits
<1>5. CASE RemoveComma
  BY <1>5, RemoveCommaKeeps
<1>6. CASE PassDigit
  BY <1>6 DEF PassDigit, DigitsInv, DigitsTypeOK, Within, Remaining, NeverExits
<1>7. CASE CommasGone
  <2>1. last \in s..e /\ 1 <= s /\ e <= Len(digitWords)
    BY <1>7 DEF CommasGone, DigitsInv, DigitsTypeOK, Within
  <2> QED
    BY <1>7, <2>1, StartKeeps DEF CommasGone, DigitsInv
<1>8. CASE ReadUntilComma
  <2>1. FinalBeforeComma \in s..e /\ 1 <= s /\ e <= Len(digitWords)
    BY <1>8, FinalCommaBetween DEF ReadUntilComma, DigitsInv, Within, AtDigit
  <2> QED
    BY <1>8, <2>1, StartKeeps DEF ReadUntilComma, DigitsInv
<1>9. CASE ReadOneByOne
  <2>1. FinalBeforeComma \in s..e
    BY <1>9, FinalCommaBetween DEF ReadOneByOne, DigitsInv
  <2>2. /\ last' = FinalBeforeComma /\ digitPc' = "next" /\ digitPc = "cut"
        /\ UNCHANGED <<digitWords, digitNode, s, e, digitIndex, place, have>>
    BY <1>9 DEF ReadOneByOne, AtDigit
  <2>3. last' \in s..e
    BY <2>1, <2>2
  <2> QED
    BY <2>2, <2>3 DEF DigitsInv, DigitsTypeOK, Within, Remaining, NeverExits
<1>10. CASE Ones
  BY <1>10, OnesKeeps
<1>11. CASE Tens
  BY <1>11, TensKeeps
<1>12. CASE NumeralDone
  BY <1>12 DEF NumeralDone, DigitsInv, DigitsTypeOK, Within, Remaining, NeverExits
<1>13. CASE RestOfRun
  BY <1>13 DEF RestOfRun, DigitsInv, DigitsTypeOK, Within, Remaining, NeverExits
<1>14. CASE UNCHANGED digitVars
  BY <1>14 DEF digitVars, DigitsInv, DigitsTypeOK, Within, Remaining, NeverExits
<1> QED
  BY <1>1, <1>2, <1>3, <1>4, <1>5, <1>6, <1>7, <1>8, <1>9, <1>10, <1>11, <1>12, <1>13, <1>14
     DEF DigitsNext

LEMMA DigitsInvariant == DigitsSpec => []DigitsInv
<1>1. DigitsInit => DigitsInv
  BY DigitsStart
<1>2. DigitsInv /\ [DigitsNext]_digitVars => DigitsInv'
  BY NextKeeps
<1> QED
  BY <1>1, <1>2, PTL DEF DigitsSpec

\* The counters keep their ranges and the list stays a list of words.
\* (njd_set_digit.cc: index and place address the tables of units.)
THEOREM DigitsTypeCorrect == DigitsSpec => []DigitsTypeOK
<1>1. DigitsInv => DigitsTypeOK
  BY DEF DigitsInv
<1> QED
  BY <1>1, DigitsInvariant, PTL

\* Whatever the text and however long its numbers, no unit is put behind the
\* last word, which would end the process.  (NJDNode_insert.)
THEOREM UnitsStayInside == DigitsSpec => []NeverExits
<1>1. DigitsInv => NeverExits
  BY DEF DigitsInv
<1> QED
  BY <1>1, DigitsInvariant, PTL

\* Both together, for every text: the tables of units and the list are only
\* looked up inside (convert_digit_sequence_for_numerical_reading).
THEOREM DigitsAreSound == DigitsSpec => []DigitsSound
<1>1. DigitsInv => DigitsSound
  BY DEF DigitsInv, DigitsSound
<1> QED
  BY <1>1, DigitsInvariant, PTL

-----------------------------------------------------------------------------
(* What the words of a number say, what its digits are worth, and which     *)
(* words of a list are digits: word by word.                                *)

\* What the words up to each of them say.
LEMMA HeardSteps ==
  ASSUME NEW list, Len(list) \in Nat
  PROVE  /\ HeardUpTo(list)[0] = nothing_said
         /\ \A n \in 1..Len(list) : HeardUpTo(list)[n] = Hear(HeardUpTo(list)[n - 1], list[n])
<1> DEFINE After(f, n) == IF n = 0 THEN nothing_said ELSE Hear(f[n - 1], list[n])
           P == {m \in Nat : \E f : f = [n \in 0..m |-> After(f, n)]}
<1>1. P \in SUBSET Nat
  OBVIOUS
<1>2. 0 \in P
  <2>1. PICK f : f = [n \in 0..0 |-> nothing_said]
    OBVIOUS
  <2>2. f = [n \in 0..0 |-> After(f, n)]
    BY <2>1
  <2> QED BY <2>2
<1>3. ASSUME NEW m \in P PROVE m + 1 \in P
  <2>1. m \in Nat
    OBVIOUS
  <2>2. PICK f : f = [n \in 0..m |-> After(f, n)]
    OBVIOUS
  <2> HIDE DEF After
  <2>3. PICK g : g = [n \in 0..m + 1 |-> IF n = m + 1 THEN After(f, n) ELSE f[n]]
    OBVIOUS
  <2>4. \A n \in 0..m : f[n] = After(f, n) /\ g[n] = f[n]
    <3>1. \A n \in 0..m : n \in 0..m + 1 /\ n # m + 1
      BY <2>1
    <3> QED BY <2>2, <2>3, <3>1
  <2>5. ASSUME NEW n \in 0..m + 1 PROVE g[n] = After(g, n)
    <3>1. n = 0 \/ n - 1 \in 0..m
      BY <2>1
    <3>2. n # 0 => g[n - 1] = f[n - 1]
      BY <2>4, <3>1
    <3>3. After(g, n) = After(f, n)
      BY <3>2 DEF After
    <3>4. n = m + 1 \/ n \in 0..m
      BY <2>1
    <3>5. g[n] = After(f, n)
      BY <2>3, <2>4, <3>4
    <3> QED BY <3>3, <3>5
  <2>6. g = [n \in 0..m + 1 |-> After(g, n)]
    <3>1. g = [n \in 0..m + 1 |-> g[n]]
      BY <2>3
    <3> QED BY <2>5, <3>1
  <2> QED BY <2>1, <2>6
<1>4. PICK f : f = [n \in 0..Len(list) |-> After(f, n)]
  <2> HIDE DEF P
  <2>1. Len(list) \in P
    BY <1>1, <1>2, <1>3, Induction
  <2> QED BY <2>1 DEF P
<1>5. HeardUpTo(list) = [n \in 0..Len(list) |-> After(HeardUpTo(list), n)]
  BY <1>4 DEF HeardUpTo
<1>6. PICK h : h = HeardUpTo(list)
  OBVIOUS
<1>7. h = [n \in 0..Len(list) |-> After(h, n)]
  BY <1>5, <1>6
<1>8. 0 \in 0..Len(list) /\ \A n \in 1..Len(list) : n \in 0..Len(list) /\ n # 0
  OBVIOUS
<1>9. h[0] = nothing_said
  BY <1>7, <1>8
<1>10. ASSUME NEW n \in 1..Len(list) PROVE h[n] = Hear(h[n - 1], list[n])
  <2>1. h[n] = After(h, n)
    <3> HIDE DEF After
    <3> QED BY <1>7, <1>8
  <2> QED BY <1>8, <2>1
<1> QED BY <1>6, <1>9, <1>10

\* What the digits up to each of them are worth.
LEMMA WorthSteps ==
  ASSUME NEW list, Len(list) \in Nat
  PROVE  /\ WorthUpTo(list)[0] = 0
         /\ \A n \in 1..Len(list) : WorthUpTo(list)[n] = 10 * WorthUpTo(list)[n - 1] + list[n].value
<1> DEFINE After(f, n) == IF n = 0 THEN 0 ELSE 10 * f[n - 1] + list[n].value
           P == {m \in Nat : \E f : f = [n \in 0..m |-> After(f, n)]}
<1>1. P \in SUBSET Nat
  OBVIOUS
<1>2. 0 \in P
  <2>1. PICK f : f = [n \in 0..0 |-> 0]
    OBVIOUS
  <2>2. f = [n \in 0..0 |-> After(f, n)]
    BY <2>1
  <2> QED BY <2>2
<1>3. ASSUME NEW m \in P PROVE m + 1 \in P
  <2>1. m \in Nat
    OBVIOUS
  <2>2. PICK f : f = [n \in 0..m |-> After(f, n)]
    OBVIOUS
  <2> HIDE DEF After
  <2>3. PICK g : g = [n \in 0..m + 1 |-> IF n = m + 1 THEN After(f, n) ELSE f[n]]
    OBVIOUS
  <2>4. \A n \in 0..m : f[n] = After(f, n) /\ g[n] = f[n]
    <3>1. \A n \in 0..m : n \in 0..m + 1 /\ n # m + 1
      BY <2>1
    <3> QED BY <2>2, <2>3, <3>1
  <2>5. ASSUME NEW n \in 0..m + 1 PROVE g[n] = After(g, n)
    <3>1. n = 0 \/ n - 1 \in 0..m
      BY <2>1
    <3>2. n # 0 => g[n - 1] = f[n - 1]
      BY <2>4, <3>1
    <3>3. After(g, n) = After(f, n)
      BY <3>2 DEF After
    <3>4. n = m + 1 \/ n \in 0..m
      BY <2>1
    <3>5. g[n] = After(f, n)
      BY <2>3, <2>4, <3>4
    <3> QED BY <3>3, <3>5
  <2>6. g = [n \in 0..m + 1 |-> After(g, n)]
    <3>1. g = [n \in 0..m + 1 |-> g[n]]
      BY <2>3
    <3> QED BY <2>5, <3>1
  <2> QED BY <2>1, <2>6
<1>4. PICK f : f = [n \in 0..Len(list) |-> After(f, n)]
  <2> HIDE DEF P
  <2>1. Len(list) \in P
    BY <1>1, <1>2, <1>3, Induction
  <2> QED BY <2>1 DEF P
<1>5. WorthUpTo(list) = [n \in 0..Len(list) |-> After(WorthUpTo(list), n)]
  BY <1>4 DEF WorthUpTo
<1>6. PICK h : h = WorthUpTo(list)
  OBVIOUS
<1>7. h = [n \in 0..Len(list) |-> After(h, n)]
  BY <1>5, <1>6
<1>8. 0 \in 0..Len(list) /\ \A n \in 1..Len(list) : n \in 0..Len(list) /\ n # 0
  OBVIOUS
<1>9. h[0] = 0
  BY <1>7, <1>8
<1>10. ASSUME NEW n \in 1..Len(list) PROVE h[n] = 10 * h[n - 1] + list[n].value
  <2>1. h[n] = After(h, n)
    <3> HIDE DEF After
    <3> QED BY <1>7, <1>8
  <2> QED BY <1>8, <2>1
<1> QED BY <1>6, <1>9, <1>10

\* The digits among the words up to each of them.
LEMMA DigitsSteps ==
  ASSUME NEW list, Len(list) \in Nat
  PROVE  /\ DigitsUpTo(list)[0] = <<>>
         /\ \A n \in 1..Len(list) : DigitsUpTo(list)[n] = (
                     IF list[n].kind = "digit" THEN Append(DigitsUpTo(list)[n - 1], list[n]) ELSE DigitsUpTo(list)[n - 1])
<1> DEFINE After(f, n) == IF n = 0 THEN <<>> ELSE IF list[n].kind = "digit" THEN Append(f[n - 1], list[n]) ELSE f[n - 1]
           P == {m \in Nat : \E f : f = [n \in 0..m |-> After(f, n)]}
<1>1. P \in SUBSET Nat
  OBVIOUS
<1>2. 0 \in P
  <2>1. PICK f : f = [n \in 0..0 |-> <<>>]
    OBVIOUS
  <2>2. f = [n \in 0..0 |-> After(f, n)]
    BY <2>1
  <2> QED BY <2>2
<1>3. ASSUME NEW m \in P PROVE m + 1 \in P
  <2>1. m \in Nat
    OBVIOUS
  <2>2. PICK f : f = [n \in 0..m |-> After(f, n)]
    OBVIOUS
  <2> HIDE DEF After
  <2>3. PICK g : g = [n \in 0..m + 1 |-> IF n = m + 1 THEN After(f, n) ELSE f[n]]
    OBVIOUS
  <2>4. \A n \in 0..m : f[n] = After(f, n) /\ g[n] = f[n]
    <3>1. \A n \in 0..m : n \in 0..m + 1 /\ n # m + 1
      BY <2>1
    <3> QED BY <2>2, <2>3, <3>1
  <2>5. ASSUME NEW n \in 0..m + 1 PROVE g[n] = After(g, n)
    <3>1. n = 0 \/ n - 1 \in 0..m
      BY <2>1
    <3>2. n # 0 => g[n - 1] = f[n - 1]
      BY <2>4, <3>1
    <3>3. After(g, n) = After(f, n)
      BY <3>2 DEF After
    <3>4. n = m + 1 \/ n \in 0..m
      BY <2>1
    <3>5. g[n] = After(f, n)
      BY <2>3, <2>4, <3>4
    <3> QED BY <3>3, <3>5
  <2>6. g = [n \in 0..m + 1 |-> After(g, n)]
    <3>1. g = [n \in 0..m + 1 |-> g[n]]
      BY <2>3
    <3> QED BY <2>5, <3>1
  <2> QED BY <2>1, <2>6
<1>4. PICK f : f = [n \in 0..Len(list) |-> After(f, n)]
  <2> HIDE DEF P
  <2>1. Len(list) \in P
    BY <1>1, <1>2, <1>3, Induction
  <2> QED BY <2>1, SMTT(60) DEF P
<1>5. DigitsUpTo(list) = [n \in 0..Len(list) |-> After(DigitsUpTo(list), n)]
  BY <1>4, ZenonT(60) DEF DigitsUpTo
<1>6. PICK h : h = DigitsUpTo(list)
  OBVIOUS
<1>7. h = [n \in 0..Len(list) |-> After(h, n)]
  BY <1>5, <1>6
<1>8. 0 \in 0..Len(list) /\ \A n \in 1..Len(list) : n \in 0..Len(list) /\ n # 0
  OBVIOUS
<1>9. h[0] = <<>>
  BY <1>7, <1>8
<1>10. ASSUME NEW n \in 1..Len(list) PROVE h[n] = (IF list[n].kind = "digit" THEN Append(h[n - 1], list[n]) ELSE h[n - 1])
  <2>1. h[n] = After(h, n)
    <3> HIDE DEF After
    <3> QED BY <1>7, <1>8
  <2> QED BY <1>8, <2>1
<1> QED BY <1>6, <1>9, <1>10

\* Lists that begin alike say the same at the beginning.
LEMMA HeardAlike ==
  ASSUME NEW a, NEW b, Len(a) \in Nat, Len(b) \in Nat, NEW m \in Nat, m <= Len(a), m <= Len(b),
         \A k \in 1..m : a[k] = b[k]
  PROVE  HeardUpTo(a)[m] = HeardUpTo(b)[m]
<1> DEFINE P == {n \in Nat : n <= m => HeardUpTo(a)[n] = HeardUpTo(b)[n]}
<1>1. P \in SUBSET Nat /\ 0 \in P
  BY HeardSteps
<1>2. ASSUME NEW n \in P PROVE n + 1 \in P
  <2>1. CASE n + 1 <= m
    <3>1. n \in Nat /\ n + 1 \in 1..Len(a) /\ n + 1 \in 1..Len(b) /\ n + 1 \in 1..m /\ (n + 1) - 1 = n /\ n <= m
      BY <2>1
    <3>2. HeardUpTo(a)[n] = HeardUpTo(b)[n] /\ a[n + 1] = b[n + 1]
      BY <3>1
    <3>3. HeardUpTo(a)[n + 1] = Hear(HeardUpTo(a)[n], a[n + 1])
      <4>1. HeardUpTo(a)[n + 1] = Hear(HeardUpTo(a)[(n + 1) - 1], a[n + 1])
        BY <3>1, HeardSteps
      <4> QED BY <3>1, <4>1, Zenon
    <3>4. HeardUpTo(b)[n + 1] = Hear(HeardUpTo(b)[n], b[n + 1])
      <4>1. HeardUpTo(b)[n + 1] = Hear(HeardUpTo(b)[(n + 1) - 1], b[n + 1])
        BY <3>1, HeardSteps
      <4> QED BY <3>1, <4>1, Zenon
    <3>5. HeardUpTo(a)[n + 1] = HeardUpTo(b)[n + 1]
      BY <3>2, <3>3, <3>4, Zenon
    <3> QED BY <3>1, <3>5
  <2> QED BY <2>1
<1>3. m \in P
  <2> HIDE DEF P
  <2> QED BY <1>1, <1>2, Induction
<1> QED BY <1>3

\* A word more is heard.
LEMMA HeardMore ==
  ASSUME NEW a, NEW b, Len(a) \in Nat, Len(b) \in Nat, NEW m \in Nat, m <= Len(a), m + 1 <= Len(b),
         \A k \in 1..m : a[k] = b[k]
  PROVE  HeardUpTo(b)[m + 1] = Hear(HeardUpTo(a)[m], b[m + 1])
<1>1. HeardUpTo(a)[m] = HeardUpTo(b)[m]
  BY HeardAlike
<1>2. m + 1 \in 1..Len(b) /\ (m + 1) - 1 = m
  OBVIOUS
<1>3. HeardUpTo(b)[m + 1] = Hear(HeardUpTo(b)[(m + 1) - 1], b[m + 1])
  BY <1>2, HeardSteps
<1> QED BY <1>1, <1>2, <1>3, Zenon

\* Digits are worth a number.
LEMMA WorthTyped ==
  ASSUME NEW digits \in Seq(Word), NEW m \in 0..Len(digits)
  PROVE  WorthUpTo(digits)[m] \in Nat
<1> DEFINE P == {n \in Nat : n <= Len(digits) => WorthUpTo(digits)[n] \in Nat}
<1>0. Len(digits) \in Nat
  BY LenProperties
<1>1. P \in SUBSET Nat /\ 0 \in P
  BY <1>0, WorthSteps
<1>2. ASSUME NEW n \in P PROVE n + 1 \in P
  <2>1. CASE n + 1 <= Len(digits)
    <3>1. n \in Nat /\ n + 1 \in 1..Len(digits) /\ (n + 1) - 1 = n /\ WorthUpTo(digits)[n] \in Nat
      BY <1>0, <2>1
    <3>2. digits[n + 1].value \in Nat
      <4>1. digits[n + 1] \in Word
        BY <3>1
      <4> QED BY <4>1 DEF Word
    <3>3. WorthUpTo(digits)[n + 1] = 10 * WorthUpTo(digits)[n] + digits[n + 1].value
      <4>1. WorthUpTo(digits)[n + 1] = 10 * WorthUpTo(digits)[(n + 1) - 1] + digits[n + 1].value
        BY <1>0, <3>1, WorthSteps
      <4> QED BY <3>1, <4>1
    <3> QED BY <3>1, <3>2, <3>3
  <2> QED BY <2>1
<1>3. m \in P
  <2> HIDE DEF P
  <2> QED BY <1>0, <1>1, <1>2, Induction
<1> QED BY <1>0, <1>3

\* The digits among words are words.
LEMMA DigitsTyped ==
  ASSUME NEW list \in Seq(Word), NEW m \in 0..Len(list)
  PROVE  DigitsUpTo(list)[m] \in Seq(Word)
<1> DEFINE P == {n \in Nat : n <= Len(list) => DigitsUpTo(list)[n] \in Seq(Word)}
<1>0. Len(list) \in Nat
  BY LenProperties
<1>1. P \in SUBSET Nat /\ 0 \in P
  <2>1. DigitsUpTo(list)[0] = <<>> /\ <<>> \in Seq(Word)
    BY <1>0, DigitsSteps, EmptySeq
  <2> QED BY <2>1
<1>2. ASSUME NEW n \in P PROVE n + 1 \in P
  <2>1. CASE n + 1 <= Len(list)
    <3>1. n \in Nat /\ n + 1 \in 1..Len(list) /\ (n + 1) - 1 = n /\ DigitsUpTo(list)[n] \in Seq(Word)
      BY <1>0, <2>1
    <3>2. list[n + 1] \in Word
      BY <3>1
    <3>3. DigitsUpTo(list)[n + 1] = IF list[n + 1].kind = "digit" THEN Append(DigitsUpTo(list)[n], list[n + 1])
                                    ELSE DigitsUpTo(list)[n]
      <4>1. DigitsUpTo(list)[n + 1] =
              IF list[n + 1].kind = "digit" THEN Append(DigitsUpTo(list)[(n + 1) - 1], list[n + 1])
              ELSE DigitsUpTo(list)[(n + 1) - 1]
        BY <1>0, <3>1, DigitsSteps, Zenon
      <4> QED BY <3>1, <4>1, Zenon
    <3>4. Append(DigitsUpTo(list)[n], list[n + 1]) \in Seq(Word)
      BY <3>1, <3>2, AppendProperties
    <3>5. DigitsUpTo(list)[n + 1] \in Seq(Word)
      <4>1. CASE list[n + 1].kind = "digit"
        BY <3>3, <3>4, <4>1, Zenon
      <4>2. CASE list[n + 1].kind # "digit"
        BY <3>1, <3>3, <4>2, Zenon
      <4> QED BY <4>1, <4>2
    <3> QED BY <3>5
  <2> QED BY <2>1
<1>3. m \in P
  <2> HIDE DEF P
  <2> QED BY <1>0, <1>1, <1>2, Induction
<1> QED BY <1>0, <1>3

\* One word more: it is a digit, or it is not.
LEMMA DigitsMore ==
  ASSUME NEW list \in Seq(Word), NEW n \in Nat, n + 1 <= Len(list)
  PROVE  DigitsUpTo(list)[n + 1] = DigitsUpTo(list)[n] \o
           (IF list[n + 1].kind = "digit" THEN <<list[n + 1]>> ELSE <<>>)
<1>1. /\ Len(list) \in Nat /\ n + 1 \in 1..Len(list) /\ (n + 1) - 1 = n /\ n \in 0..Len(list)
      /\ list[n + 1] \in Word
  BY LenProperties
<1>2. DigitsUpTo(list)[n + 1] =
        IF list[n + 1].kind = "digit" THEN Append(DigitsUpTo(list)[(n + 1) - 1], list[n + 1])
        ELSE DigitsUpTo(list)[(n + 1) - 1]
  BY <1>1, DigitsSteps, Zenon
<1>3. DigitsUpTo(list)[n + 1] = IF list[n + 1].kind = "digit" THEN Append(DigitsUpTo(list)[n], list[n + 1])
                                ELSE DigitsUpTo(list)[n]
  BY <1>1, <1>2, Zenon
<1>4. PICK d \in Seq(Word) : d = DigitsUpTo(list)[n]
  BY <1>1, DigitsTyped
<1>5. PICK w \in Word : w = list[n + 1]
  BY <1>1
<1>6. Append(d, w) = d \o <<w>> /\ d = d \o <<>>
  BY AppendProperties, ConcatEmptySeq
<1> QED BY <1>3, <1>4, <1>5, <1>6

\* The digits of two lists, one behind the other.
LEMMA DigitsJoin ==
  ASSUME NEW a \in Seq(Word), NEW b \in Seq(Word)
  PROVE  DigitsOf(a \o b) = DigitsOf(a) \o DigitsOf(b)
<1>1. PICK A \in Nat, B \in Nat, ab \in Seq(Word) :
        /\ A = Len(a) /\ B = Len(b) /\ ab = a \o b /\ Len(ab) = A + B
        /\ \A k \in 1..A : ab[k] = a[k]
        /\ \A k \in 1..B : ab[A + k] = b[k]
  <2>1. PICK A \in Nat, B \in Nat : A = Len(a) /\ B = Len(b)
    BY LenProperties
  <2>2. PICK ab \in Seq(Word) : /\ ab = a \o b /\ Len(ab) = A + B
                               /\ \A k \in 1..A + B : ab[k] = IF k <= A THEN a[k] ELSE b[k - A]
    <3>1. /\ a \o b \in Seq(Word) /\ Len(a \o b) = Len(a) + Len(b)
          /\ \A k \in 1..Len(a) + Len(b) : (a \o b)[k] = IF k <= Len(a) THEN a[k] ELSE b[k - Len(a)]
      BY ConcatProperties
    <3> QED BY <2>1, <3>1, Zenon
  <2>3. ASSUME NEW k \in 1..A PROVE ab[k] = a[k]
    <3>1. k \in 1..A + B /\ k <= A
      OBVIOUS
    <3> QED BY <2>2, <3>1
  <2>4. ASSUME NEW k \in 1..B PROVE ab[A + k] = b[k]
    <3>1. A + k \in 1..A + B /\ ~(A + k <= A) /\ (A + k) - A = k
      OBVIOUS
    <3>2. ab[A + k] = b[(A + k) - A]
      BY <2>2, <3>1, Zenon
    <3> QED BY <3>1, <3>2, Zenon
  <2> QED BY <2>1, <2>2, <2>3, <2>4
<1> DEFINE F(n) == DigitsUpTo(ab)[n]
<1>2. ASSUME NEW n \in 0..A PROVE F(n) = DigitsUpTo(a)[n]
  <2> DEFINE P == {m \in Nat : m <= A => F(m) = DigitsUpTo(a)[m]}
  <2>1. P \in SUBSET Nat /\ 0 \in P
    BY <1>1, DigitsSteps
  <2>2. ASSUME NEW m \in P PROVE m + 1 \in P
    <3>1. CASE m + 1 <= A
      <4>1. m \in Nat /\ m + 1 <= Len(a) /\ m + 1 <= Len(ab) /\ m + 1 \in 1..A /\ F(m) = DigitsUpTo(a)[m]
        BY <1>1, <3>1
      <4>2. /\ F(m + 1) = F(m) \o (IF ab[m + 1].kind = "digit" THEN <<ab[m + 1]>> ELSE <<>>)
            /\ DigitsUpTo(a)[m + 1] = DigitsUpTo(a)[m] \o (IF a[m + 1].kind = "digit" THEN <<a[m + 1]>> ELSE <<>>)
        BY <4>1, DigitsMore
      <4>3. ab[m + 1] = a[m + 1]
        BY <1>1, <4>1
      <4>4. F(m + 1) = DigitsUpTo(a)[m + 1]
        BY <4>1, <4>2, <4>3, Zenon
      <4> QED BY <4>1, <4>4
    <3> QED BY <3>1
  <2>3. n \in P
    <3> HIDE DEF P
    <3> QED BY <2>1, <2>2, Induction
  <2> QED BY <2>3
<1>3. PICK da \in Seq(Word) : da = DigitsOf(a) /\ F(A) = da
  <2>1. A \in 0..A /\ A \in 0..Len(a)
    BY <1>1
  <2>2. F(A) = DigitsUpTo(a)[A] /\ DigitsUpTo(a)[A] \in Seq(Word)
    BY <1>2, <2>1, DigitsTyped
  <2> QED BY <1>1, <2>2 DEF DigitsOf
<1>4. ASSUME NEW n \in 0..B PROVE F(A + n) = da \o DigitsUpTo(b)[n]
  <2> DEFINE P == {m \in Nat : m <= B => F(A + m) = da \o DigitsUpTo(b)[m]}
  <2>1. P \in SUBSET Nat /\ 0 \in P
    <3>1. DigitsUpTo(b)[0] = <<>> /\ A + 0 = A /\ da \o <<>> = da
      BY <1>1, DigitsSteps, ConcatEmptySeq
    <3>2. F(A + 0) = da \o DigitsUpTo(b)[0]
      BY <1>3, <3>1, Zenon
    <3> QED BY <3>2
  <2>2. ASSUME NEW m \in P PROVE m + 1 \in P
    <3>1. CASE m + 1 <= B
      <4>1. /\ m \in Nat /\ m + 1 <= Len(b) /\ m \in 0..Len(b) /\ m + 1 \in 1..B /\ F(A + m) = da \o DigitsUpTo(b)[m]
            /\ A + m \in Nat /\ (A + m) + 1 <= Len(ab) /\ (A + m) + 1 = A + (m + 1)
        BY <1>1, <3>1, SMTT(60)
      <4>2. PICK more \in Seq(Word), d \in Seq(Word) :
              /\ more = (IF b[m + 1].kind = "digit" THEN <<b[m + 1]>> ELSE <<>>)
              /\ d = DigitsUpTo(b)[m]
        <5>1. b[m + 1] \in Word
          BY <1>1, <4>1
        <5>2. DigitsUpTo(b)[m] \in Seq(Word)
          BY <4>1, DigitsTyped
        <5>3. (IF b[m + 1].kind = "digit" THEN <<b[m + 1]>> ELSE <<>>) \in Seq(Word)
          BY <5>1, EmptySeq
        <5> QED BY <5>2, <5>3
      <4>3. DigitsUpTo(b)[m + 1] = d \o more
        BY <4>1, <4>2, DigitsMore
      <4>4. F((A + m) + 1) = F(A + m) \o (IF ab[(A + m) + 1].kind = "digit" THEN <<ab[(A + m) + 1]>> ELSE <<>>)
        BY <4>1, DigitsMore
      <4>5. ab[(A + m) + 1] = b[m + 1]
        BY <1>1, <4>1
      <4>6. F(A + (m + 1)) = (da \o d) \o more
        BY <4>1, <4>2, <4>4, <4>5, Zenon
      <4>7. (da \o d) \o more = da \o (d \o more)
        BY ConcatAssociative, SMTT(60)
      <4>8. F(A + (m + 1)) = da \o DigitsUpTo(b)[m + 1]
        BY <4>3, <4>6, <4>7, Zenon
      <4> QED BY <4>1, <4>8
    <3> QED BY <3>1
  <2>3. n \in P
    <3> HIDE DEF P
    <3>1. n \in Nat
      OBVIOUS
    <3>2. \A m \in Nat : m \in P
      BY <2>1, <2>2, Induction
    <3> QED BY <3>1, <3>2
  <2> QED BY <2>3
<1>5. B \in 0..B
  BY <1>1
<1>6. F(A + B) = da \o DigitsUpTo(b)[B]
  BY <1>4, <1>5
<1> QED BY <1>1, <1>3, <1>6, Zenon DEF DigitsOf

\* Words that are all digits, and words of which none is.
LEMMA DigitsAll ==
  ASSUME NEW list \in Seq(Word), \A k \in 1..Len(list) : list[k].kind = "digit"
  PROVE  DigitsOf(list) = list
<1>1. PICK N \in Nat : N = Len(list)
  BY LenProperties
<1> DEFINE P == {n \in Nat : n <= N => DigitsUpTo(list)[n] = SubSeq(list, 1, n)}
<1>2. P \in SUBSET Nat /\ 0 \in P
  <2>1. DigitsUpTo(list)[0] = <<>> /\ SubSeq(list, 1, 0) = <<>>
    BY <1>1, DigitsSteps
  <2> QED BY <2>1
<1>3. ASSUME NEW n \in P PROVE n + 1 \in P
  <2>1. CASE n + 1 <= N
    <3>1. n \in Nat /\ n + 1 <= Len(list) /\ n + 1 \in 1..Len(list) /\ DigitsUpTo(list)[n] = SubSeq(list, 1, n)
      BY <1>1, <2>1
    <3>2. DigitsUpTo(list)[n + 1] = DigitsUpTo(list)[n] \o (IF list[n + 1].kind = "digit" THEN <<list[n + 1]>> ELSE <<>>)
      BY <3>1, DigitsMore
    <3>3. list[n + 1].kind = "digit"
      BY <3>1
    <3>4. SubSeq(list, 1, n + 1) = SubSeq(list, 1, n) \o <<list[n + 1]>>
      BY <3>1, PrefixGrows
    <3>5. DigitsUpTo(list)[n + 1] = SubSeq(list, 1, n + 1)
      BY <3>1, <3>2, <3>3, <3>4, Zenon
    <3> QED BY <3>1, <3>5
  <2> QED BY <2>1
<1>4. N \in P
  <2> HIDE DEF P
  <2> QED BY <1>2, <1>3, Induction
<1>5. DigitsUpTo(list)[N] = SubSeq(list, 1, N)
  BY <1>4
<1>6. SubSeq(list, 1, N) = list
  BY <1>1
<1> QED BY <1>1, <1>5, <1>6, Zenon DEF DigitsOf

LEMMA DigitsNone ==
  ASSUME NEW list \in Seq(Word), \A k \in 1..Len(list) : list[k].kind # "digit"
  PROVE  DigitsOf(list) = <<>>
<1>1. PICK N \in Nat : N = Len(list)
  BY LenProperties
<1> DEFINE P == {n \in Nat : n <= N => DigitsUpTo(list)[n] = <<>>}
<1>2. P \in SUBSET Nat /\ 0 \in P
  BY <1>1, DigitsSteps
<1>3. ASSUME NEW n \in P PROVE n + 1 \in P
  <2>1. CASE n + 1 <= N
    <3>1. n \in Nat /\ n + 1 <= Len(list) /\ n + 1 \in 1..Len(list) /\ DigitsUpTo(list)[n] = <<>>
      BY <1>1, <2>1
    <3>2. DigitsUpTo(list)[n + 1] = DigitsUpTo(list)[n] \o (IF list[n + 1].kind = "digit" THEN <<list[n + 1]>> ELSE <<>>)
      BY <3>1, DigitsMore
    <3>3. list[n + 1].kind # "digit"
      BY <3>1
    <3>4. <<>> \o <<>> = <<>>
      BY EmptySeq, ConcatEmptySeq
    <3>5. DigitsUpTo(list)[n + 1] = <<>>
      BY <3>1, <3>2, <3>3, <3>4, Zenon
    <3> QED BY <3>1, <3>5
  <2> QED BY <2>1
<1>4. N \in P
  <2> HIDE DEF P
  <2> QED BY <1>2, <1>3, Induction
<1>5. DigitsUpTo(list)[N] = <<>>
  BY <1>4
<1> QED BY <1>1, <1>5, Zenon DEF DigitsOf

\* A part of a list, and the list cut in two.
LEMMA Part ==
  ASSUME NEW list \in Seq(Word), NEW from \in Nat \ {0}, NEW to \in Nat, from <= to + 1, to <= Len(list)
  PROVE  /\ SubSeq(list, from, to) \in Seq(Word) /\ Len(SubSeq(list, from, to)) = to + 1 - from
         /\ \A k \in 1..(to + 1 - from) : SubSeq(list, from, to)[k] = list[from + k - 1]
OBVIOUS

LEMMA CutInTwo ==
  ASSUME NEW list \in Seq(Word), NEW from \in Nat \ {0}, NEW to \in Nat, from <= to + 1, to <= Len(list)
  PROVE  DigitsOf(SubSeq(list, from, Len(list))) =
           DigitsOf(SubSeq(list, from, to)) \o DigitsOf(SubSeq(list, to + 1, Len(list)))
<1>1. PICK N \in Nat : N = Len(list)
  BY LenProperties
<1>2. PICK a \in Seq(Word), b \in Seq(Word), c \in Seq(Word) :
        /\ a = SubSeq(list, from, to) /\ b = SubSeq(list, to + 1, N) /\ c = SubSeq(list, from, N)
        /\ Len(a) = to + 1 - from /\ Len(b) = N - to /\ Len(c) = N + 1 - from
        /\ \A k \in 1..(to + 1 - from) : a[k] = list[from + k - 1]
        /\ \A k \in 1..(N - to) : b[k] = list[to + k]
        /\ \A k \in 1..(N + 1 - from) : c[k] = list[from + k - 1]
  <2>1. /\ to + 1 \in Nat \ {0} /\ to + 1 <= N + 1 /\ from <= N + 1 /\ N <= Len(list)
        /\ N + 1 - (to + 1) = N - to
        /\ \A k \in 1..(N - to) : (to + 1) + k - 1 = to + k
    BY <1>1
  <2>2. /\ SubSeq(list, from, to) \in Seq(Word) /\ Len(SubSeq(list, from, to)) = to + 1 - from
        /\ \A k \in 1..(to + 1 - from) : SubSeq(list, from, to)[k] = list[from + k - 1]
    BY Part
  <2>3. /\ SubSeq(list, from, N) \in Seq(Word) /\ Len(SubSeq(list, from, N)) = N + 1 - from
        /\ \A k \in 1..(N + 1 - from) : SubSeq(list, from, N)[k] = list[from + k - 1]
    BY <2>1, Part, Zenon
  <2>4. /\ SubSeq(list, to + 1, N) \in Seq(Word) /\ Len(SubSeq(list, to + 1, N)) = N + 1 - (to + 1)
        /\ \A k \in 1..(N + 1 - (to + 1)) : SubSeq(list, to + 1, N)[k] = list[(to + 1) + k - 1]
    BY <2>1, Part, Zenon
  <2>5. /\ Len(SubSeq(list, to + 1, N)) = N - to
        /\ \A k \in 1..(N - to) : SubSeq(list, to + 1, N)[k] = list[to + k]
    BY <2>1, <2>4, Zenon
  <2> QED BY <2>2, <2>3, <2>4, <2>5, ZenonT(60)
<1>3. a \o b \in Seq(Word) /\ Len(a \o b) = Len(a) + Len(b)
      /\ \A k \in 1..Len(a) + Len(b) : (a \o b)[k] = IF k <= Len(a) THEN a[k] ELSE b[k - Len(a)]
  BY ConcatProperties
<1>4. Len(a \o b) = Len(c)
  <2>1. (to + 1 - from) + (N - to) = N + 1 - from
    BY <1>1
  <2> QED BY <1>2, <1>3, <2>1, Zenon
<1>5. ASSUME NEW k \in 1..Len(c) PROVE (a \o b)[k] = c[k]
  <2>1. k \in 1..Len(a) + Len(b) /\ Len(a) \in Nat /\ Len(b) \in Nat /\ Len(c) \in Nat /\ k \in Nat
    BY <1>3, <1>4, LenProperties
  <2>2. CASE k <= Len(a)
    BY <1>2, <1>3, <2>1, <2>2
  <2>3. CASE k > Len(a)
    <3>1. k - Len(a) \in 1..Len(b) /\ to + (k - Len(a)) = from + k - 1
      BY <1>1, <1>2, <2>1, <2>3
    <3>2. (a \o b)[k] = b[k - Len(a)] /\ b[k - Len(a)] = list[to + (k - Len(a))] /\ c[k] = list[from + k - 1]
      BY <1>2, <1>3, <2>1, <2>3, <3>1, SMTT(60)
    <3> QED BY <3>1, <3>2
  <2> QED BY <2>1, <2>2, <2>3
<1>6. a \o b = c
  BY <1>2, <1>3, <1>4, <1>5, SeqEqual
<1>7. DigitsOf(a \o b) = DigitsOf(a) \o DigitsOf(b)
  BY DigitsJoin
<1> QED BY <1>1, <1>2, <1>6, <1>7, Zenon

-----------------------------------------------------------------------------
(* What the words of a number say, step by step: h is what was understood,  *)
(* v what the digits so far are worth, and what is still to come counts by  *)
(* the place where it stands.                                              *)
Understanding == [total : Nat, group : Nat, digit : Nat]

Standing(v, index_, place_) == (v * 10 ^ (index_ + 1)) * Myriad[place_]

SaysWorth(h, v, index_, place_, have_) ==
  /\ h \in Understanding /\ v \in Nat
  /\ IF place_ >= 0
     THEN /\ h.digit = 0 /\ (have_ = 0 => h.group = 0)
          /\ Standing(v, index_, place_) = h.total + h.group * Myriad[place_]
     ELSE h.total + h.group + h.digit = v

\* The powers of ten thousand.
LEMMA MyriadSteps ==
  /\ Myriad[0] = 1
  /\ \A n \in 1..MaxPlace : Myriad[n] = 10 ^ 4 * Myriad[n - 1]
<1> DEFINE After(f, n) == IF n = 0 THEN 1 ELSE 10 ^ 4 * f[n - 1]
           P == {m \in Nat : \E f : f = [n \in 0..m |-> After(f, n)]}
<1>0. MaxPlace \in Nat
  BY DEF MaxPlace
<1>1. P \in SUBSET Nat
  OBVIOUS
<1>2. 0 \in P
  <2>1. PICK f : f = [n \in 0..0 |-> 1]
    OBVIOUS
  <2>2. f = [n \in 0..0 |-> After(f, n)]
    BY <2>1
  <2> QED BY <2>2
<1>3. ASSUME NEW m \in P PROVE m + 1 \in P
  <2>1. m \in Nat
    OBVIOUS
  <2>2. PICK f : f = [n \in 0..m |-> After(f, n)]
    OBVIOUS
  <2> HIDE DEF After
  <2>3. PICK g : g = [n \in 0..m + 1 |-> IF n = m + 1 THEN After(f, n) ELSE f[n]]
    OBVIOUS
  <2>4. \A n \in 0..m : f[n] = After(f, n) /\ g[n] = f[n]
    <3>1. \A n \in 0..m : n \in 0..m + 1 /\ n # m + 1
      BY <2>1
    <3> QED BY <2>2, <2>3, <3>1
  <2>5. ASSUME NEW n \in 0..m + 1 PROVE g[n] = After(g, n)
    <3>1. n = 0 \/ n - 1 \in 0..m
      BY <2>1
    <3>2. n # 0 => g[n - 1] = f[n - 1]
      BY <2>4, <3>1
    <3>3. After(g, n) = After(f, n)
      BY <3>2 DEF After
    <3>4. n = m + 1 \/ n \in 0..m
      BY <2>1
    <3>5. g[n] = After(f, n)
      BY <2>3, <2>4, <3>4
    <3> QED BY <3>3, <3>5
  <2>6. g = [n \in 0..m + 1 |-> After(g, n)]
    <3>1. g = [n \in 0..m + 1 |-> g[n]]
      BY <2>3
    <3> QED BY <2>5, <3>1
  <2> QED BY <2>1, <2>6
<1>4. PICK f : f = [n \in 0..MaxPlace |-> After(f, n)]
  <2> HIDE DEF P
  <2>1. MaxPlace \in P
    BY <1>0, <1>1, <1>2, <1>3, Induction
  <2> QED BY <2>1 DEF P
<1>5. Myriad = [n \in 0..MaxPlace |-> After(Myriad, n)]
  BY <1>4 DEF Myriad
<1>6. PICK h : h = Myriad
  OBVIOUS
<1>7. h = [n \in 0..MaxPlace |-> After(h, n)]
  BY <1>5, <1>6
<1>8. 0 \in 0..MaxPlace /\ \A n \in 1..MaxPlace : n \in 0..MaxPlace /\ n # 0
  BY <1>0
<1>9. h[0] = 1
  BY <1>7, <1>8
<1>10. ASSUME NEW n \in 1..MaxPlace PROVE h[n] = 10 ^ 4 * h[n - 1]
  <2>1. h[n] = After(h, n)
    <3> HIDE DEF After
    <3> QED BY <1>7, <1>8
  <2> QED BY <1>8, <2>1
<1> QED BY <1>6, <1>9, <1>10

LEMMA MyriadTyped ==
  ASSUME NEW p \in 0..MaxPlace
  PROVE  Myriad[p] \in Nat /\ (p # 0 => p - 1 \in 0..MaxPlace /\ Myriad[p] = 10000 * Myriad[p - 1])
<1> DEFINE P == {n \in Nat : n <= MaxPlace => Myriad[n] \in Nat}
<1>0. MaxPlace \in Nat
  BY DEF MaxPlace
<1>1. P \in SUBSET Nat /\ 0 \in P
  BY <1>0, MyriadSteps
<1>2. ASSUME NEW n \in P PROVE n + 1 \in P
  <2>1. CASE n + 1 <= MaxPlace
    <3>1. n \in Nat /\ n + 1 \in 1..MaxPlace /\ (n + 1) - 1 = n /\ Myriad[n] \in Nat
      BY <1>0, <2>1
    <3>2. Myriad[n + 1] = 10 ^ 4 * Myriad[(n + 1) - 1]
      BY <3>1, MyriadSteps
    <3>3. 10 ^ 4 = 10000
      OBVIOUS
    <3> QED BY <3>1, <3>2, <3>3
  <2> QED BY <2>1
<1>3. p \in P
  <2> HIDE DEF P
  <2> QED BY <1>0, <1>1, <1>2, Induction
<1>4. p # 0 => p \in 1..MaxPlace /\ p - 1 \in 0..MaxPlace
  BY <1>0
<1>5. p # 0 => Myriad[p] = 10000 * Myriad[p - 1]
  <2>1. p # 0 => Myriad[p] = 10 ^ 4 * Myriad[p - 1]
    BY <1>4, MyriadSteps
  <2>2. 10 ^ 4 = 10000
    OBVIOUS
  <2> QED BY <2>1, <2>2
<1> QED BY <1>0, <1>3, <1>4, <1>5

\* What each kind of word adds.
LEMMA HearWord ==
  ASSUME NEW h \in Understanding, NEW w \in Word
  PROVE  /\ w.silent => Hear(h, w) = h
         /\ ~w.silent /\ w.kind = "digit" =>
              Hear(h, w) = [total |-> h.total, group |-> h.group, digit |-> w.value]
         /\ ~w.silent /\ w.kind = "unit" =>
              Hear(h, w) = [total |-> h.total, group |-> h.group + (IF h.digit = 0 THEN 1 ELSE h.digit) * 10 ^ w.value,
                            digit |-> 0]
         /\ ~w.silent /\ w.kind = "myriad" =>
              Hear(h, w) = [total |-> h.total + (h.group + h.digit) * Myriad[w.value], group |-> 0, digit |-> 0]
<1>1. CASE w.silent
  BY <1>1 DEF Hear
<1>2. CASE ~w.silent /\ w.kind = "digit"
  <2>1. Hear(h, w) = [h EXCEPT !.digit = w.value]
    BY <1>2 DEF Hear
  <2> QED BY <1>2, <2>1 DEF Understanding
<1>3. CASE ~w.silent /\ w.kind = "unit"
  <2>1. Hear(h, w) = [h EXCEPT !.group = @ + (IF h.digit = 0 THEN 1 ELSE h.digit) * 10 ^ w.value, !.digit = 0]
    BY <1>3 DEF Hear
  <2> QED BY <1>3, <2>1 DEF Understanding
<1>4. CASE ~w.silent /\ w.kind = "myriad"
  <2>1. Hear(h, w) = [total |-> h.total + (h.group + h.digit) * Myriad[w.value], group |-> 0, digit |-> 0]
    BY <1>4 DEF Hear
  <2> QED BY <1>4, <2>1
<1>5. CASE ~w.silent /\ w.kind \notin {"digit", "unit", "myriad"}
  BY <1>5
<1> QED BY <1>1, <1>2, <1>3, <1>4, <1>5

LEMMA TensSum ==
  ASSUME NEW v \in Nat, NEW d \in Nat, NEW j \in 1..3, NEW p \in 0..MaxPlace
  PROVE  /\ 10 ^ j \in Nat
         /\ Standing(10 * v + d, j - 1, p) = Standing(v, j, p) + (d * 10 ^ j) * Myriad[p]
         /\ Standing(v, j, p) \in Nat
<1>0. PICK m \in Nat : m = Myriad[p]
  BY MyriadTyped
<1>1. CASE j = 1
  <2>1. 10 ^ (j + 1) = 100 /\ 10 ^ j = 10 /\ 10 ^ ((j - 1) + 1) = 10
    BY <1>1
  <2>2. ((10 * v + d) * 10) * m = (v * 100) * m + (d * 10) * m
    OBVIOUS
  <2> QED BY <1>0, <2>1, <2>2 DEF Standing
<1>2. CASE j = 2
  <2>1. 10 ^ (j + 1) = 1000 /\ 10 ^ j = 100 /\ 10 ^ ((j - 1) + 1) = 100
    BY <1>2
  <2>2. ((10 * v + d) * 100) * m = (v * 1000) * m + (d * 100) * m
    OBVIOUS
  <2> QED BY <1>0, <2>1, <2>2 DEF Standing
<1>3. CASE j = 3
  <2>1. 10 ^ (j + 1) = 10000 /\ 10 ^ j = 1000 /\ 10 ^ ((j - 1) + 1) = 1000
    BY <1>3
  <2>2. ((10 * v + d) * 1000) * m = (v * 10000) * m + (d * 1000) * m
    OBVIOUS
  <2> QED BY <1>0, <2>1, <2>2 DEF Standing
<1> QED BY <1>1, <1>2, <1>3

\* A digit that is not the last of its four.
TensSaid(h, w, j) ==
  IF w.value = 0 THEN h
  ELSE IF w.value = 1 THEN Hear(h, W("unit", j))
  ELSE Hear(Hear(h, w), W("unit", j))

LEMMA TensSay ==
  ASSUME NEW h, NEW v, NEW j \in 1..3, NEW p \in 0..MaxPlace, NEW b \in {0, 1}, SaysWorth(h, v, j, p, b),
         NEW w \in Word, w.kind = "digit", ~w.silent
  PROVE  SaysWorth(TensSaid(h, w, j), 10 * v + w.value, j - 1, p, IF w.value # 0 THEN 1 ELSE b)
<1>1. /\ h \in Understanding /\ v \in Nat /\ h.digit = 0 /\ (b = 0 => h.group = 0)
      /\ Standing(v, j, p) = h.total + h.group * Myriad[p]
  BY DEF SaysWorth
<1>2. PICK m \in Nat : m = Myriad[p]
  BY MyriadTyped
<1>3. PICK d \in Nat : d = w.value
  BY DEF Word
<1>4. PICK t \in Nat, g \in Nat : t = h.total /\ g = h.group
  BY <1>1 DEF Understanding
<1>5. /\ 10 ^ j \in Nat /\ 10 * v + d \in Nat
      /\ Standing(10 * v + d, j - 1, p) = t + (g + d * 10 ^ j) * m
  <2>1. Standing(v, j, p) = t + g * m
    BY <1>1, <1>2, <1>4, Zenon
  <2>2. v \in Nat /\ 10 * v + d \in Nat
    BY <1>1
  <2>3. 10 ^ j \in Nat /\ Standing(10 * v + d, j - 1, p) = Standing(v, j, p) + (d * 10 ^ j) * Myriad[p]
    BY <2>2, TensSum, ZenonT(60)
  <2>4. PICK x \in Nat : x = 10 ^ j
    BY <2>3
  <2>5. (g + d * x) * m = g * m + (d * x) * m
    OBVIOUS
  <2>6. Standing(10 * v + d, j - 1, p) = (t + g * m) + (d * x) * m
    BY <1>2, <2>1, <2>3, <2>4, Zenon
  <2>7. (t + g * m) + (d * x) * m = t + (g + d * x) * m
    BY <2>5
  <2> QED BY <2>2, <2>3, <2>4, <2>6, <2>7, Zenon
<1>6. PICK u : u = W("unit", j)
  OBVIOUS
<1>7. u \in Word /\ u.kind = "unit" /\ u.value = j /\ ~u.silent
  BY <1>6 DEF W, Word, Kinds
<1>8. p >= 0
  OBVIOUS
<1>9. ASSUME NEW k \in Understanding, NEW c, k.total = t, k.group = g + d * 10 ^ j, k.digit = 0, c = 0 => k.group = 0
      PROVE  SaysWorth(k, 10 * v + w.value, j - 1, p, c)
  BY <1>2, <1>3, <1>5, <1>8, <1>9 DEF SaysWorth
<1>10. CASE d = 0
  <2>1. g + d * 10 ^ j = g
    BY <1>5, <1>10
  <2>2. TensSaid(h, w, j) = h
    BY <1>3, <1>10 DEF TensSaid
  <2>3. SaysWorth(h, 10 * v + w.value, j - 1, p, b)
    BY <1>1, <1>4, <1>9, <2>1
  <2> QED BY <1>3, <1>10, <2>2, <2>3
<1>11. CASE d = 1
  <2>1. PICK k : k = [total |-> t, group |-> g + d * 10 ^ j, digit |-> 0]
    OBVIOUS
  <2>2. 1 * 10 ^ j = d * 10 ^ j
    BY <1>11
  <2>3. k \in Understanding /\ k.total = t /\ k.group = g + d * 10 ^ j /\ k.digit = 0
    BY <1>5, <2>1 DEF Understanding
  <2>4. Hear(h, u) = k
    BY <1>1, <1>4, <1>7, <2>1, <2>2, HearWord
  <2>5. TensSaid(h, w, j) = k
    BY <1>3, <1>6, <1>11, <2>4 DEF TensSaid
  <2>6. SaysWorth(k, 10 * v + w.value, j - 1, p, 1)
    BY <2>3, <1>9
  <2> QED BY <1>3, <1>11, <2>5, <2>6
<1>12. CASE d # 0 /\ d # 1
  <2>1. PICK k : k = [total |-> t, group |-> g + d * 10 ^ j, digit |-> 0]
    OBVIOUS
  <2>2. PICK l : l = [total |-> t, group |-> g, digit |-> d]
    OBVIOUS
  <2>3. k \in Understanding /\ k.total = t /\ k.group = g + d * 10 ^ j /\ k.digit = 0
    BY <1>5, <2>1 DEF Understanding
  <2>4. l \in Understanding /\ l.total = t /\ l.group = g /\ l.digit = d
    BY <2>2 DEF Understanding
  <2>5. Hear(h, w) = l
    BY <1>1, <1>3, <1>4, <2>2, HearWord
  <2>6. Hear(l, u) = k
    BY <1>7, <1>12, <2>1, <2>4, HearWord
  <2>7. TensSaid(h, w, j) = k
    BY <1>3, <1>6, <1>12, <2>5, <2>6 DEF TensSaid
  <2>8. SaysWorth(k, 10 * v + w.value, j - 1, p, 1)
    BY <2>3, <1>9
  <2> QED BY <1>3, <1>12, <2>7, <2>8
<1> QED BY <1>10, <1>11, <1>12

\* The last digit of four, and the unit of the four.
OnesSaid(h, w, p, b) ==
  LET said == IF w.value = 0 THEN h ELSE Hear(h, w)
  IN IF p > 0 /\ (b = 1 \/ w.value # 0) THEN Hear(said, W("myriad", p)) ELSE said

LEMMA OnesSum ==
  ASSUME NEW v \in Nat, NEW d \in Nat, NEW p \in 0..MaxPlace
  PROVE  /\ (10 * v + d) * Myriad[p] = Standing(v, 0, p) + d * Myriad[p]
         /\ Standing(v, 0, p) \in Nat
<1>0. PICK m \in Nat : m = Myriad[p]
  BY MyriadTyped
<1>1. 10 ^ (0 + 1) = 10
  OBVIOUS
<1>2. (10 * v + d) * m = (v * 10) * m + d * m
  OBVIOUS
<1> QED BY <1>0, <1>1, <1>2 DEF Standing

LEMMA OnesSay ==
  ASSUME NEW h, NEW v, NEW p \in 0..MaxPlace, NEW b \in {0, 1}, SaysWorth(h, v, 0, p, b),
         NEW w \in Word, w.kind = "digit", ~w.silent
  PROVE  SaysWorth(OnesSaid(h, w, p, b), 10 * v + w.value, 3, p - 1, 0)
<1>1. /\ h \in Understanding /\ v \in Nat /\ h.digit = 0 /\ (b = 0 => h.group = 0)
      /\ Standing(v, 0, p) = h.total + h.group * Myriad[p]
  BY DEF SaysWorth
<1>2. PICK m \in Nat : m = Myriad[p]
  BY MyriadTyped
<1>3. PICK d \in Nat : d = w.value
  BY DEF Word
<1>4. PICK t \in Nat, g \in Nat : t = h.total /\ g = h.group
  BY <1>1 DEF Understanding
<1>5. (10 * v + d) * m = t + (g + d) * m
  <2>1. Standing(v, 0, p) = t + g * m
    BY <1>1, <1>2, <1>4, Zenon
  <2>2. v \in Nat
    BY <1>1
  <2>3. (10 * v + d) * m = (t + g * m) + d * m
    <3>1. (10 * v + d) * Myriad[p] = Standing(v, 0, p) + d * Myriad[p]
      BY <2>2, OnesSum
    <3> QED BY <1>2, <2>1, <3>1, Zenon
  <2>4. (g + d) * m = g * m + d * m
    OBVIOUS
  <2> QED BY <2>3, <2>4
<1>6. PICK said : said = IF d = 0 THEN h ELSE Hear(h, w)
  OBVIOUS
<1>7. said \in Understanding /\ said.total = t /\ said.group = g /\ said.digit = d
  <2>1. CASE d = 0
    BY <1>1, <1>4, <1>6, <2>1
  <2>2. CASE d # 0
    <3>1. said = [total |-> t, group |-> g, digit |-> d]
      BY <1>1, <1>3, <1>4, <1>6, <2>2, HearWord
    <3> QED BY <3>1 DEF Understanding
  <2> QED BY <2>1, <2>2
<1>8. CASE p = 0
  <2>1. m = 1 /\ ~(p - 1 >= 0) /\ ~(p > 0)
    <3>1. Myriad[p] = 1
      BY <1>8, MyriadSteps, Zenon
    <3> QED BY <1>2, <1>8, <3>1
  <2>2. t + g + d = 10 * v + d
    BY <1>1, <1>5, <2>1
  <2>3. OnesSaid(h, w, p, b) = said
    BY <1>3, <1>6, <2>1 DEF OnesSaid
  <2> QED BY <1>1, <1>3, <1>7, <2>1, <2>2, <2>3 DEF SaysWorth
<1>9. CASE p > 0
  <2>1. p \in 1..MaxPlace /\ p - 1 >= 0 /\ p - 1 \in 0..MaxPlace
    BY <1>9 DEF MaxPlace
  <2>2. PICK q \in Nat : q = Myriad[p - 1] /\ m = 10000 * q
    BY <1>2, <2>1, MyriadTyped
  <2>3. PICK x \in Nat : x = 10 * v + d
    BY <1>1
  <2>4. Standing(x, 3, p - 1) = t + (g + d) * m
    <3>1. 10 ^ (3 + 1) = 10000 /\ (x * 10000) * q = x * (10000 * q)
      OBVIOUS
    <3> QED BY <1>5, <2>2, <2>3, <3>1 DEF Standing
  <2>5. ASSUME NEW k \in Understanding, k.total = t + (g + d) * m, k.group = 0, k.digit = 0
        PROVE  SaysWorth(k, 10 * v + w.value, 3, p - 1, 0)
    <3>1. k.total + k.group * q = t + (g + d) * m
      <4>1. 0 * q = 0 /\ t + (g + d) * m \in Nat
        OBVIOUS
      <4> QED BY <2>5, <4>1
    <3> QED BY <1>3, <2>1, <2>2, <2>3, <2>4, <2>5, <3>1 DEF SaysWorth
  <2>6. CASE b = 1 \/ d # 0
    <3>1. PICK u : u = W("myriad", p)
      OBVIOUS
    <3>2. u \in Word /\ u.kind = "myriad" /\ u.value = p /\ ~u.silent
      BY <2>1, <3>1 DEF W, Word, Kinds, MaxPlace
    <3>3. PICK k : k = [total |-> t + (g + d) * m, group |-> 0, digit |-> 0]
      OBVIOUS
    <3>4. k \in Understanding /\ k.total = t + (g + d) * m /\ k.group = 0 /\ k.digit = 0
      BY <3>3 DEF Understanding
    <3>5. Hear(said, u) = k
      <4>1. Hear(said, u) = [total |-> said.total + (said.group + said.digit) * Myriad[u.value], group |-> 0, digit |-> 0]
        BY <1>7, <3>2, HearWord
      <4> QED BY <1>2, <1>7, <3>2, <3>3, <4>1, Zenon
    <3>6. OnesSaid(h, w, p, b) = k
      BY <1>3, <1>6, <1>9, <2>6, <3>1, <3>5 DEF OnesSaid
    <3> QED BY <2>5, <3>4, <3>6
  <2>7. CASE ~(b = 1 \/ d # 0)
    <3>1. b = 0 /\ d = 0 /\ g = 0 /\ said = h
      BY <1>1, <1>4, <1>6, <2>7
    <3>2. t + (g + d) * m = t
      BY <3>1
    <3>3. OnesSaid(h, w, p, b) = h
      BY <1>3, <2>7, <3>1 DEF OnesSaid
    <3> QED BY <1>1, <1>4, <2>5, <3>1, <3>2, <3>3
  <2> QED BY <2>6, <2>7
<1> QED BY <1>8, <1>9

-----------------------------------------------------------------------------
(* What the rule for numbers has read so far.                               *)

\* The first word that is not read yet.
Unread ==
  IF digitPc = "scan" THEN digitNode
  ELSE IF digitPc \in {"cut", "commas"} THEN s
  ELSE last + 1

\* The words from there on are as they were, and those up to the end of the
\* run are words of a number.
RestOpen ==
  /\ digitPc = "scan" => digitNode <= Len(digitWords) + 1
  /\ digitPc \notin {"done", "exit"} => \A i \in Unread..Len(digitWords) : ~digitWords[i].silent
  /\ digitPc \in {"cut", "commas", "numeral", "next"} => \A i \in Unread..e : InNumber(i)

\* What is read and the digits of the rest are the digits of the text.
AllAccounted ==
  digitPc # "done" => read \o DigitsOf(SubSeq(digitWords, Unread, Len(digitWords))) = DigitsOf(digitText)

\* Up to a period there are digits and commas, and no comma is left behind.
OnlyCommas ==
  digitPc = "commas" =>
    /\ how = "period"
    /\ \A i \in s..last : ~IsPeriod(i)
    /\ \A i \in s..(digitNode - 1) : ~IsComma(i)
    /\ ~IsComma(last)

\* The digits still to be read are the last ones of the number, and the words
\* before them say what the first ones are worth.
HalfSaid ==
  digitPc = "numeral" =>
    /\ \A k \in 1..Len(number) : number[k].kind = "digit" /\ ~number[k].silent
    /\ digitNode <= last + 1 /\ last + 1 - digitNode <= Len(number)
    /\ \A k \in 1..(last + 1 - digitNode) :
         digitWords[digitNode - 1 + k] = number[Len(number) - (last + 1 - digitNode) + k]
    /\ SaysWorth(HeardUpTo(SubSeq(digitWords, s, last))[digitNode - s],
                 WorthUpTo(number)[Len(number) - (last + 1 - digitNode)], digitIndex, place, have)

NumberTyped == digitText \in Seq(Word) /\ read \in Seq(Word) /\ number \in Seq(Word)

NumberInv ==
  DigitsInv /\ NumberTyped /\ RestOpen /\ AllAccounted /\ OnlyCommas /\ HalfSaid /\ NumbersRead

-----------------------------------------------------------------------------
(* The rest of a list, and what goes on before it.                          *)

\* A list whose end is that of another, moved.
LEMMA SameEnd ==
  ASSUME NEW a \in Seq(Word), NEW b \in Seq(Word), NEW from \in Nat \ {0}, NEW to \in Nat \ {0},
         from <= Len(a) + 1, to <= Len(b) + 1, Len(a) - from = Len(b) - to,
         \A k \in from..Len(a) : b[to + (k - from)] = a[k]
  PROVE  SubSeq(b, to, Len(b)) = SubSeq(a, from, Len(a))
<1>1. PICK N \in Nat, M \in Nat : N = Len(a) /\ M = Len(b)
  BY LenProperties
<1>2. /\ SubSeq(a, from, N) \in Seq(Word) /\ Len(SubSeq(a, from, N)) = N + 1 - from
      /\ \A k \in 1..(N + 1 - from) : SubSeq(a, from, N)[k] = a[from + k - 1]
  <2>1. from <= N + 1 /\ N <= Len(a)
    BY <1>1
  <2> QED BY <2>1, Part, ZenonT(60)
<1>3. /\ SubSeq(b, to, M) \in Seq(Word) /\ Len(SubSeq(b, to, M)) = M + 1 - to
      /\ \A k \in 1..(M + 1 - to) : SubSeq(b, to, M)[k] = b[to + k - 1]
  <2>1. to <= M + 1 /\ M <= Len(b)
    BY <1>1
  <2> QED BY <2>1, Part, ZenonT(60)
<1>4. M + 1 - to = N + 1 - from
  BY <1>1, SMTT(60)
<1>5. ASSUME NEW k \in 1..(N + 1 - from) PROVE b[to + k - 1] = a[from + k - 1]
  <2>1. from + k - 1 \in from..N /\ to + ((from + k - 1) - from) = to + k - 1
    BY <1>1
  <2>2. b[to + ((from + k - 1) - from)] = a[from + k - 1]
    BY <1>1, <2>1
  <2> QED BY <2>1, <2>2, Zenon
<1>6. PICK x \in Seq(Word), y \in Seq(Word) : x = SubSeq(b, to, M) /\ y = SubSeq(a, from, N)
  BY <1>2, <1>3
<1>7. Len(x) = Len(y) /\ \A k \in 1..Len(x) : x[k] = y[k]
  BY <1>2, <1>3, <1>4, <1>5, <1>6, ZenonT(60)
<1>8. x = y
  BY <1>7, SeqEqual
<1> QED BY <1>1, <1>6, <1>8, Zenon

\* Parts of two lists that are alike.
LEMMA SamePart ==
  ASSUME NEW a \in Seq(Word), NEW b \in Seq(Word), NEW from \in Nat \ {0}, NEW to \in Nat,
         from <= to + 1, to <= Len(a), to <= Len(b), \A k \in from..to : b[k] = a[k]
  PROVE  SubSeq(b, from, to) = SubSeq(a, from, to)
<1>1. PICK x \in Seq(Word), y \in Seq(Word) : x = SubSeq(b, from, to) /\ y = SubSeq(a, from, to)
  BY Part
<1>2. /\ Len(x) = to + 1 - from /\ Len(y) = to + 1 - from
      /\ \A k \in 1..(to + 1 - from) : x[k] = b[from + k - 1]
      /\ \A k \in 1..(to + 1 - from) : y[k] = a[from + k - 1]
  <2>1. Len(x) = to + 1 - from /\ \A k \in 1..(to + 1 - from) : x[k] = b[from + k - 1]
    BY <1>1, Part, ZenonT(60)
  <2>2. Len(y) = to + 1 - from /\ \A k \in 1..(to + 1 - from) : y[k] = a[from + k - 1]
    <3>1. /\ Len(SubSeq(a, from, to)) = to + 1 - from
          /\ \A k \in 1..(to + 1 - from) : SubSeq(a, from, to)[k] = a[from + k - 1]
      BY Part
    <3> QED BY <1>1, <3>1, Zenon
  <2> QED BY <2>1, <2>2
<1>3. \A k \in 1..(to + 1 - from) : from + k - 1 \in from..to
  OBVIOUS
<1>4. \A k \in 1..Len(x) : x[k] = y[k]
  BY <1>2, <1>3
<1>5. x = y
  BY <1>2, <1>4, SeqEqual
<1> QED BY <1>1, <1>5

\* Words without a digit may be passed over.
LEMMA SkipWords ==
  ASSUME NEW list \in Seq(Word), NEW from \in Nat \ {0}, NEW to \in Nat, from <= to + 1, to <= Len(list),
         \A k \in from..to : list[k].kind # "digit"
  PROVE  DigitsOf(SubSeq(list, from, Len(list))) = DigitsOf(SubSeq(list, to + 1, Len(list)))
<1>1. PICK x \in Seq(Word) : x = SubSeq(list, from, to)
  BY Part
<1>2. Len(x) = to + 1 - from /\ \A k \in 1..(to + 1 - from) : x[k] = list[from + k - 1]
  BY <1>1, Part, ZenonT(60)
<1>3. \A k \in 1..(to + 1 - from) : from + k - 1 \in from..to
  OBVIOUS
<1>4. \A k \in 1..Len(x) : x[k].kind # "digit"
  BY <1>2, <1>3
<1>5. DigitsOf(x) = <<>>
  BY <1>4, DigitsNone
<1>6. PICK rest \in Seq(Word), y \in Seq(Word) : rest = SubSeq(list, to + 1, Len(list)) /\ y = DigitsOf(rest)
  <2>1. SubSeq(list, to + 1, Len(list)) \in Seq(Word)
    OBVIOUS
  <2>2. \A z \in Seq(Word) : DigitsOf(z) \in Seq(Word)
    <3> TAKE z \in Seq(Word)
    <3>1. Len(z) \in 0..Len(z)
      BY LenProperties
    <3> QED BY <3>1, DigitsTyped DEF DigitsOf
  <2> QED BY <2>1, <2>2
<1>7. DigitsOf(SubSeq(list, from, Len(list))) = DigitsOf(x) \o y
  BY <1>1, <1>6, CutInTwo, Zenon
<1>8. <<>> \o y = y
  BY ConcatEmptySeq
<1> QED BY <1>5, <1>6, <1>7, <1>8, Zenon

\* Digits may be taken.
LEMMA TakeDigits ==
  ASSUME NEW list \in Seq(Word), NEW from \in Nat \ {0}, NEW to \in Nat, from <= to + 1, to <= Len(list),
         \A k \in from..to : list[k].kind = "digit", NEW before \in Seq(Word)
  PROVE  /\ SubSeq(list, from, to) \in Seq(Word) /\ before \o SubSeq(list, from, to) \in Seq(Word)
         /\ before \o DigitsOf(SubSeq(list, from, Len(list))) =
              (before \o SubSeq(list, from, to)) \o DigitsOf(SubSeq(list, to + 1, Len(list)))
<1>1. PICK x \in Seq(Word) : x = SubSeq(list, from, to)
  BY Part
<1>2. Len(x) = to + 1 - from /\ \A k \in 1..(to + 1 - from) : x[k] = list[from + k - 1]
  BY <1>1, Part, ZenonT(60)
<1>3. \A k \in 1..(to + 1 - from) : from + k - 1 \in from..to
  OBVIOUS
<1>4. \A k \in 1..Len(x) : x[k].kind = "digit"
  BY <1>2, <1>3
<1>5. DigitsOf(x) = x
  BY <1>4, DigitsAll
<1>6. PICK y \in Seq(Word) : y = DigitsOf(SubSeq(list, to + 1, Len(list)))
  <2>1. SubSeq(list, to + 1, Len(list)) \in Seq(Word)
    OBVIOUS
  <2>2. \A z \in Seq(Word) : DigitsOf(z) \in Seq(Word)
    <3> TAKE z \in Seq(Word)
    <3>1. Len(z) \in 0..Len(z)
      BY LenProperties
    <3> QED BY <3>1, DigitsTyped DEF DigitsOf
  <2> QED BY <2>1, <2>2
<1>7. DigitsOf(SubSeq(list, from, Len(list))) = x \o y
  <2>1. DigitsOf(SubSeq(list, from, Len(list))) = DigitsOf(x) \o y
    BY <1>1, <1>6, CutInTwo, Zenon
  <2> QED BY <1>5, <2>1, Zenon
<1>8. before \o x \in Seq(Word) /\ before \o (x \o y) = (before \o x) \o y
  BY ConcatProperties, ConcatAssociative, SMTT(60)
<1> QED BY <1>1, <1>6, <1>7, <1>8, Zenon

\* A word that is no digit may be taken out.
LEMMA DropMark ==
  ASSUME NEW list \in Seq(Word), NEW shorter \in Seq(Word), NEW from \in Nat \ {0}, NEW n \in 1..Len(list), from <= n,
         list[n].kind # "digit", Len(shorter) = Len(list) - 1,
         \A k \in 1..(Len(list) - 1) : shorter[k] = IF k < n THEN list[k] ELSE list[k + 1]
  PROVE  DigitsOf(SubSeq(shorter, from, Len(shorter))) = DigitsOf(SubSeq(list, from, Len(list)))
<1>1. /\ n \in Nat \ {0} /\ n - 1 \in Nat /\ Len(list) \in Nat /\ Len(shorter) \in Nat
      /\ from <= (n - 1) + 1 /\ n - 1 <= Len(list) /\ n - 1 <= Len(shorter) /\ (n - 1) + 1 = n
      /\ n <= Len(shorter) + 1 /\ n + 1 <= Len(list) + 1 /\ n + 1 \in Nat \ {0}
      /\ Len(list) - (n + 1) = Len(shorter) - n /\ n <= n + 1 /\ n <= Len(list)
  BY LenProperties
<1>2. SubSeq(shorter, from, n - 1) = SubSeq(list, from, n - 1)
  <2>1. \A k \in from..(n - 1) : shorter[k] = list[k]
    BY <1>1
  <2> QED BY <1>1, <2>1, SamePart
<1>3. SubSeq(shorter, n, Len(shorter)) = SubSeq(list, n + 1, Len(list))
  <2>1. ASSUME NEW k \in (n + 1)..Len(list) PROVE shorter[n + (k - (n + 1))] = list[k]
    <3>1. k - 1 \in 1..(Len(list) - 1) /\ ~(k - 1 < n) /\ (k - 1) + 1 = k /\ n + (k - (n + 1)) = k - 1
      BY <1>1
    <3>2. shorter[k - 1] = list[(k - 1) + 1]
      BY <3>1
    <3> QED BY <3>1, <3>2, Zenon
  <2> QED BY <1>1, <2>1, SameEnd
<1>4. DigitsOf(SubSeq(list, n, Len(list))) = DigitsOf(SubSeq(list, n + 1, Len(list)))
  <2>1. \A k \in n..n : list[k].kind # "digit"
    BY <1>1
  <2> QED BY <1>1, <2>1, SkipWords
<1>5. DigitsOf(SubSeq(list, from, Len(list))) =
        DigitsOf(SubSeq(list, from, n - 1)) \o DigitsOf(SubSeq(list, (n - 1) + 1, Len(list)))
  BY <1>1, CutInTwo
<1>6. DigitsOf(SubSeq(shorter, from, Len(shorter))) =
        DigitsOf(SubSeq(shorter, from, n - 1)) \o DigitsOf(SubSeq(shorter, (n - 1) + 1, Len(shorter)))
  BY <1>1, CutInTwo
<1> QED BY <1>1, <1>2, <1>3, <1>4, <1>5, <1>6, Zenon

-----------------------------------------------------------------------------
(* What the rule for numbers has read so far: the steps.                    *)

LEMMA NumberStart == DigitsInit => NumberInv
<1> SUFFICES ASSUME DigitsInit PROVE NumberInv
  OBVIOUS
<1>1. /\ digitWords \in Seq(Word) /\ digitText = digitWords /\ read = <<>> /\ number = <<>> /\ digitPc = "scan"
      /\ digitNode = 1 /\ \A i \in 1..Len(digitWords) : ~digitWords[i].silent
  <2>1. digitWords \in Seq(Word) /\ \A i \in 1..Len(digitWords) : ~digitWords[i].silent
    BY TextsAssumption DEF DigitsInit
  <2> QED BY <2>1 DEF DigitsInit
<1>2. DigitsInv
  BY DigitsStart
<1>3. NumberTyped
  BY <1>1, EmptySeq DEF NumberTyped
<1>4. Unread = 1
  BY <1>1 DEF Unread
<1>5. RestOpen
  <2>1. Len(digitWords) \in Nat
    BY <1>1, LenProperties
  <2> QED BY <1>1, <1>4, <2>1 DEF RestOpen
<1>6. AllAccounted
  <2>1. SubSeq(digitWords, 1, Len(digitWords)) = digitWords
    BY <1>1
  <2>2. DigitsOf(digitWords) \in Seq(Word)
    <3>1. Len(digitWords) \in 0..Len(digitWords)
      BY <1>1, LenProperties
    <3> QED BY <1>1, <3>1, DigitsTyped DEF DigitsOf
  <2>3. <<>> \o DigitsOf(digitWords) = DigitsOf(digitWords)
    BY <2>2, ConcatEmptySeq
  <2> QED BY <1>1, <1>4, <2>1, <2>3, Zenon DEF AllAccounted
<1>7. OnlyCommas /\ HalfSaid /\ NumbersRead
  BY <1>1 DEF OnlyCommas, HalfSaid, NumbersRead, SaysItsValue, EveryDigitRead, DecimalsOneByOne
<1> QED BY <1>2, <1>3, <1>5, <1>6, <1>7 DEF NumberInv

LEMMA LeastIsLeast ==
  ASSUME NEW P \in SUBSET Nat, NEW p \in P
  PROVE  LeastOf(P) \in P /\ LeastOf(P) <= p
<1>1. PICK x \in P : \A y \in P : x <= y
  BY LeastElement
<1> QED BY <1>1 DEF LeastOf

\* The next run, and that none is passed over.
LEMMA RunFound ==
  ASSUME NumberInv, FindRun
  PROVE  /\ s' \in digitNode..Len(digitWords) /\ e' \in s'..Len(digitWords)
         /\ \A i \in digitNode..(s' - 1) : ~InNumber(i)
         /\ \A i \in s'..e' : InNumber(i)
<1>1. digitNode \in Nat \ {0} /\ Len(digitWords) \in Nat
  BY DEF NumberInv, DigitsInv, DigitsTypeOK
<1>2. RunStarts \in SUBSET Nat /\ RunStarts # {}
  BY <1>1 DEF RunStarts, FindRun
<1>3. s' \in RunStarts /\ \A p \in RunStarts : s' <= p
  BY <1>2, LeastIsLeast DEF FindRun
<1>4. s' \in digitNode..Len(digitWords) /\ InNumber(s')
  BY <1>3 DEF RunStarts
<1>5. ASSUME NEW i \in digitNode..(s' - 1) PROVE ~InNumber(i)
  <2>1. i \in digitNode..Len(digitWords) /\ i < s' /\ s' \in Nat
    <3>1. PICK x \in digitNode..Len(digitWords) : x = s'
      BY <1>4
    <3>2. i \in digitNode..(x - 1)
      BY <3>1, Zenon
    <3>3. i \in digitNode..Len(digitWords) /\ i < x /\ x \in Nat
      BY <1>1, <3>2
    <3> QED BY <3>1, <3>3, Zenon
  <2>2. i \notin RunStarts
    BY <1>3, <2>1
  <2> QED BY <2>1, <2>2 DEF RunStarts
<1> DEFINE P == {j \in s'..Len(digitWords) : \A k \in s'..j : InNumber(k)}
<1>6. P \in SUBSET (0..Len(digitWords)) /\ s' \in P
  BY <1>1, <1>4
<1>7. e' = GreatestOf(P)
  BY DEF FindRun, RunEnd
<1>8. e' \in P
  <2> HIDE DEF P
  <2> QED BY <1>1, <1>6, <1>7, GreatestExists
<1>9. e' \in s'..Len(digitWords) /\ \A k \in s'..e' : InNumber(k)
  BY <1>8
<1> QED BY <1>4, <1>5, <1>9

LEMMA FindRunReads ==
  ASSUME NumberInv, DigitsInv', FindRun
  PROVE  NumberInv'
<1>1. /\ digitNode \in Nat \ {0} /\ Len(digitWords) \in Nat /\ digitWords \in Seq(Word) /\ digitPc = "scan"
      /\ digitPc' = "cut" /\ UNCHANGED <<digitWords, digitNode, history>>
  BY DEF NumberInv, DigitsInv, DigitsTypeOK, FindRun
<1>2. UNCHANGED <<digitText, how, number, read>>
  BY <1>1 DEF history
<1>3. /\ s' \in digitNode..Len(digitWords) /\ e' \in s'..Len(digitWords)
      /\ \A i \in digitNode..(s' - 1) : ~InNumber(i)
      /\ \A i \in s'..e' : InNumber(i)
  BY RunFound
<1>4. Unread = digitNode /\ Unread' = s'
  BY <1>1 DEF Unread
<1>5. NumberTyped'
  BY <1>2 DEF NumberInv, NumberTyped
<1>6. RestOpen'
  <2>1. \A i \in digitNode..Len(digitWords) : ~digitWords[i].silent
    BY <1>1, <1>4 DEF NumberInv, RestOpen
  <2>2. \A i \in s'..Len(digitWords) : i \in digitNode..Len(digitWords)
    BY <1>1, <1>3
  <2>3. \A i \in s'..Len(digitWords) : ~digitWords[i].silent
    BY <2>1, <2>2
  <2> QED BY <1>1, <1>3, <1>4, <2>3 DEF RestOpen, InNumber
<1>7. AllAccounted'
  <2>1. /\ s' - 1 \in Nat /\ digitNode <= (s' - 1) + 1 /\ s' - 1 <= Len(digitWords) /\ (s' - 1) + 1 = s'
    <3>1. PICK x \in digitNode..Len(digitWords) : x = s'
      BY <1>3
    <3>2. x - 1 \in Nat /\ digitNode <= (x - 1) + 1 /\ x - 1 <= Len(digitWords) /\ (x - 1) + 1 = x
      BY <1>1
    <3> QED BY <3>1, <3>2, Zenon
  <2>2. \A k \in digitNode..(s' - 1) : digitWords[k].kind # "digit"
    BY <1>3 DEF InNumber
  <2>3. DigitsOf(SubSeq(digitWords, digitNode, Len(digitWords))) = DigitsOf(SubSeq(digitWords, (s' - 1) + 1, Len(digitWords)))
    BY <1>1, <2>1, <2>2, SkipWords
  <2>4. read \o DigitsOf(SubSeq(digitWords, digitNode, Len(digitWords))) = DigitsOf(digitText)
    BY <1>1, <1>4, Zenon DEF NumberInv, AllAccounted
  <2>5. read \o DigitsOf(SubSeq(digitWords, s', Len(digitWords))) = DigitsOf(digitText)
    BY <2>1, <2>3, <2>4, Zenon
  <2> QED BY <1>1, <1>2, <1>4, <2>5, Zenon DEF AllAccounted
<1>8. OnlyCommas' /\ HalfSaid' /\ NumbersRead'
  BY <1>1 DEF OnlyCommas, HalfSaid, NumbersRead, SaysItsValue, EveryDigitRead, DecimalsOneByOne
<1> QED BY <1>5, <1>6, <1>7, <1>8 DEF NumberInv

LEMMA NoMoreRunsReads ==
  ASSUME NumberInv, DigitsInv', NoMoreRuns
  PROVE  NumberInv'
<1>1. /\ digitNode \in Nat \ {0} /\ Len(digitWords) \in Nat /\ digitWords \in Seq(Word) /\ digitPc = "scan"
      /\ digitPc' = "done" /\ UNCHANGED <<digitWords, digitNode, history>>
      /\ digitNode <= Len(digitWords) + 1 /\ RunStarts = {}
  BY DEF NumberInv, DigitsInv, DigitsTypeOK, NoMoreRuns, RestOpen
<1>2. UNCHANGED <<digitText, how, number, read>>
  BY <1>1 DEF history
<1>3. Unread = digitNode
  BY <1>1 DEF Unread
<1>4. \A k \in digitNode..Len(digitWords) : digitWords[k].kind # "digit"
  BY <1>1 DEF RunStarts, InNumber
<1>5. DigitsOf(SubSeq(digitWords, digitNode, Len(digitWords))) =
        DigitsOf(SubSeq(digitWords, Len(digitWords) + 1, Len(digitWords)))
  <2>1. Len(digitWords) <= Len(digitWords)
    BY <1>1
  <2> QED BY <1>1, <1>4, <2>1, SkipWords
<1>6. PICK none \in Seq(Word) : none = SubSeq(digitWords, Len(digitWords) + 1, Len(digitWords)) /\ Len(none) = 0
  <2>1. PICK n \in Nat : n = Len(digitWords)
    BY <1>1
  <2>2. n + 1 \in Nat \ {0} /\ n + 1 <= n + 1 /\ n <= Len(digitWords) /\ n + 1 - (n + 1) = 0
    BY <2>1
  <2>3. SubSeq(digitWords, n + 1, n) \in Seq(Word) /\ Len(SubSeq(digitWords, n + 1, n)) = n + 1 - (n + 1)
    BY <1>1, <2>2, Part, Zenon
  <2> QED BY <2>1, <2>2, <2>3, Zenon
<1>7. DigitsOf(none) = <<>>
  <2>1. \A k \in 1..Len(none) : none[k].kind # "digit"
    BY <1>6
  <2> QED BY <2>1, DigitsNone
<1>8. read \o DigitsOf(SubSeq(digitWords, digitNode, Len(digitWords))) = DigitsOf(digitText)
  BY <1>1, <1>3, Zenon DEF NumberInv, AllAccounted
<1>9. read \o <<>> = read
  BY ConcatEmptySeq DEF NumberInv, NumberTyped
<1>10. read = DigitsOf(digitText)
  BY <1>5, <1>6, <1>7, <1>8, <1>9, Zenon
<1>11. NumberTyped' /\ RestOpen' /\ AllAccounted' /\ OnlyCommas' /\ HalfSaid'
  BY <1>1, <1>2 DEF NumberInv, NumberTyped, RestOpen, AllAccounted, OnlyCommas, HalfSaid
<1>12. NumbersRead'
  <2>1. EveryDigitRead'
    BY <1>2, <1>10, Zenon DEF EveryDigitRead
  <2> QED BY <1>1, <2>1 DEF NumbersRead, SaysItsValue, DecimalsOneByOne
<1> QED BY <1>11, <1>12 DEF NumberInv

LEMMA SkipMarkReads ==
  ASSUME NumberInv, DigitsInv', SkipMark
  PROVE  NumberInv'
<1>1. /\ s \in Nat /\ e \in Nat /\ 1 <= s /\ s <= e /\ e <= Len(digitWords) /\ Len(digitWords) \in Nat
      /\ digitWords \in Seq(Word) /\ digitPc = "cut" /\ UNCHANGED <<digitWords, e, history>>
      /\ digitWords[s].kind # "digit"
  BY DEF NumberInv, DigitsInv, DigitsTypeOK, Within, SkipMark, IsComma, IsPeriod
<1>2. UNCHANGED <<digitText, how, number, read>>
  BY <1>1 DEF history
<1>3. \/ digitPc' = "scan" /\ digitNode' = s + 1 /\ s = e
      \/ digitPc' = "cut" /\ s' = s + 1
  BY <1>1 DEF SkipMark
<1>4. Unread = s /\ Unread' = s + 1
  BY <1>1, <1>3 DEF Unread
<1>5. digitPc' \in {"scan", "cut"}
  BY <1>3
<1>6. NumberTyped'
  BY <1>2 DEF NumberInv, NumberTyped
<1>7. RestOpen'
  <2>1. (\A i \in s..Len(digitWords) : ~digitWords[i].silent) /\ \A i \in s..e : InNumber(i)
    BY <1>1, <1>4 DEF NumberInv, RestOpen
  <2>2. /\ \A i \in (s + 1)..Len(digitWords) : i \in s..Len(digitWords)
        /\ \A i \in (s + 1)..e : i \in s..e
    BY <1>1
  <2>3. digitPc' = "scan" => digitNode' <= Len(digitWords') + 1
    BY <1>1, <1>3
  <2> QED BY <1>1, <1>4, <2>1, <2>2, <2>3 DEF RestOpen, InNumber
<1>8. AllAccounted'
  <2>1. \A k \in s..s : digitWords[k].kind # "digit"
    BY <1>1
  <2>2. s \in Nat \ {0} /\ s <= s + 1 /\ s <= Len(digitWords)
    BY <1>1
  <2>3. DigitsOf(SubSeq(digitWords, s, Len(digitWords))) = DigitsOf(SubSeq(digitWords, s + 1, Len(digitWords)))
    BY <1>1, <2>1, <2>2, SkipWords
  <2>4. read \o DigitsOf(SubSeq(digitWords, s, Len(digitWords))) = DigitsOf(digitText)
    BY <1>1, <1>4, Zenon DEF NumberInv, AllAccounted
  <2> QED BY <1>1, <1>2, <1>4, <2>3, <2>4, Zenon DEF AllAccounted
<1>9. OnlyCommas' /\ HalfSaid' /\ NumbersRead'
  BY <1>5 DEF OnlyCommas, HalfSaid, NumbersRead, SaysItsValue, EveryDigitRead, DecimalsOneByOne
<1> QED BY <1>6, <1>7, <1>8, <1>9 DEF NumberInv

LEMMA RestOfRunReads ==
  ASSUME NumberInv, DigitsInv', RestOfRun
  PROVE  NumberInv'
<1>1. /\ s \in Nat /\ e \in Nat /\ last \in Nat /\ last <= e /\ e <= Len(digitWords) /\ Len(digitWords) \in Nat
      /\ digitPc = "next" /\ UNCHANGED <<digitWords, e, history>>
  BY DEF NumberInv, DigitsInv, DigitsTypeOK, Within, RestOfRun
<1>2. UNCHANGED <<digitText, how, number, read>>
  BY <1>1 DEF history
<1>3. \/ digitPc' = "scan" /\ digitNode' = last + 1 /\ last = e
      \/ digitPc' = "cut" /\ s' = last + 1
  BY <1>1 DEF RestOfRun
<1>4. Unread = last + 1 /\ Unread' = last + 1
  BY <1>1, <1>3 DEF Unread
<1>5. digitPc' \in {"scan", "cut"}
  BY <1>3
<1>6. NumberTyped' /\ RestOpen' /\ AllAccounted'
  <2>1. NumberTyped'
    BY <1>2 DEF NumberInv, NumberTyped
  <2>2. RestOpen'
    BY <1>1, <1>3, <1>4, <1>5 DEF NumberInv, RestOpen, InNumber
  <2>3. AllAccounted'
    BY <1>1, <1>2, <1>4, <1>5 DEF NumberInv, AllAccounted
  <2> QED BY <2>1, <2>2, <2>3
<1>7. OnlyCommas' /\ HalfSaid' /\ NumbersRead'
  BY <1>5 DEF OnlyCommas, HalfSaid, NumbersRead, SaysItsValue, EveryDigitRead, DecimalsOneByOne
<1> QED BY <1>6, <1>7 DEF NumberInv

\* Up to the last digit before a period there is no period.
LEMMA FinalIs ==
  ASSUME DigitsTypeOK, Within, AtDigit
  PROVE  /\ FinalBeforePeriod \in s..e /\ ~IsComma(FinalBeforePeriod)
         /\ \A i \in s..FinalBeforePeriod : ~IsPeriod(i)
<1> DEFINE P == {f \in s..e : f = e \/ IsPeriod(f + 1)}
           before == LeastOf(P)
           Q == {f \in s..before : f = s \/ ~IsComma(f)}
<1>1. s \in Nat /\ e \in Nat /\ s <= e /\ ~IsComma(s) /\ ~IsPeriod(s)
  BY DEF DigitsTypeOK, Within, AtDigit
<1>2. P \in SUBSET Nat /\ e \in P
  BY <1>1
<1>3. before \in P /\ \A p \in P : before <= p
  <2> HIDE DEF P
  <2> QED BY <1>2, LeastIsLeast
<1>4. PICK b \in s..e : b = before
  BY <1>3
<1>5. ASSUME NEW i \in s..b PROVE ~IsPeriod(i)
  <2>1. CASE i = s
    BY <1>1, <2>1
  <2>2. CASE i # s
    <3>1. i - 1 \in s..e /\ (i - 1) + 1 = i /\ ~(b <= i - 1)
      BY <1>1, <1>4, <2>2
    <3>2. i - 1 \notin P
      <4> HIDE DEF P
      <4> QED BY <1>3, <1>4, <3>1
    <3> QED BY <3>1, <3>2
  <2> QED BY <2>1, <2>2
<1>6. Q \in SUBSET (0..b) /\ s \in Q /\ b \in Nat
  BY <1>1, <1>4
<1>7. GreatestOf(Q) \in Q
  <2> HIDE DEF Q, before
  <2> QED BY <1>6, GreatestExists
<1>8. PICK f \in s..b : f = GreatestOf(Q) /\ (f = s \/ ~IsComma(f))
  <2>1. GreatestOf(Q) \in s..b /\ (GreatestOf(Q) = s \/ ~IsComma(GreatestOf(Q)))
    BY <1>4, <1>7
  <2> HIDE DEF Q
  <2> QED BY <2>1
<1>9. f = FinalBeforePeriod
  BY <1>8, Zenon DEF FinalBeforePeriod
<1>10. f \in s..e /\ ~IsComma(f) /\ \A i \in s..f : i \in s..b
  BY <1>1, <1>4, <1>8, SMTT(60)
<1> QED BY <1>5, <1>9, <1>10

LEMMA FinalCommaIs ==
  ASSUME DigitsTypeOK, Within, AtDigit
  PROVE  /\ FinalBeforeComma \in s..e
         /\ \A i \in s..FinalBeforeComma : ~IsPeriod(i) /\ ~IsComma(i)
<1>1. /\ FinalBeforePeriod \in s..e /\ ~IsComma(FinalBeforePeriod)
      /\ \A i \in s..FinalBeforePeriod : ~IsPeriod(i)
  BY FinalIs
<1>2. PICK f \in s..e : f = FinalBeforePeriod
  BY <1>1
<1>3. s \in Nat /\ e \in Nat
  BY DEF DigitsTypeOK
<1>4. CASE Commas = {}
  <2>1. \A i \in s..f : ~IsComma(i)
    BY <1>2, <1>4 DEF Commas
  <2>2. FinalBeforeComma = f
    BY <1>2, <1>4 DEF FinalBeforeComma
  <2> QED BY <1>1, <1>2, <2>1, <2>2
<1>5. CASE Commas # {}
  <2>1. Commas \in SUBSET Nat /\ \A c \in Commas : c \in s..f
    BY <1>2, <1>3 DEF Commas
  <2>2. LeastOf(Commas) \in Commas /\ \A c \in Commas : LeastOf(Commas) <= c
    BY <1>5, <2>1, LeastIsLeast
  <2>3. PICK l \in s..f : l = LeastOf(Commas) /\ IsComma(l)
    BY <1>2, <2>1, <2>2 DEF Commas
  <2>4. l - 1 \in s..e
    <3>1. l # s
      BY <2>3 DEF AtDigit
    <3> QED BY <1>2, <1>3, <2>3, <3>1
  <2>5. ASSUME NEW i \in s..(l - 1) PROVE ~IsPeriod(i) /\ ~IsComma(i)
    <3>1. i \in s..f /\ ~(l <= i)
      BY <1>3, <2>3
    <3>2. i \notin Commas
      BY <2>2, <2>3, <3>1
    <3> QED BY <1>1, <1>2, <3>1, <3>2 DEF Commas
  <2>6. FinalBeforeComma = l - 1
    BY <1>5, <2>3 DEF FinalBeforeComma
  <2> QED BY <2>4, <2>5, <2>6
<1> QED BY <1>4, <1>5

LEMMA UntilPeriodReads ==
  ASSUME NumberInv, DigitsInv', ReadUntilPeriod
  PROVE  NumberInv'
<1>1. /\ DigitsTypeOK /\ Within /\ AtDigit /\ digitPc = "cut" /\ digitPc' = "commas" /\ how' = "period"
      /\ last' = FinalBeforePeriod /\ digitNode' = s /\ UNCHANGED <<digitWords, s, e, digitText, number, read>>
  BY DEF NumberInv, DigitsInv, ReadUntilPeriod, AtDigit
<1>2. /\ FinalBeforePeriod \in s..e /\ ~IsComma(FinalBeforePeriod)
      /\ \A i \in s..FinalBeforePeriod : ~IsPeriod(i)
  BY <1>1, FinalIs
<1>3. Unread = s /\ Unread' = s
  BY <1>1 DEF Unread
<1>4. NumberTyped' /\ RestOpen' /\ AllAccounted'
  BY <1>1, <1>3 DEF NumberInv, NumberTyped, RestOpen, AllAccounted, InNumber
<1>5. OnlyCommas'
  <2>1. s \in Nat /\ \A i \in s..(s - 1) : FALSE
    BY <1>1 DEF DigitsTypeOK
  <2> QED BY <1>1, <1>2, <2>1 DEF OnlyCommas, IsComma, IsPeriod
<1>6. HalfSaid' /\ NumbersRead'
  BY <1>1 DEF HalfSaid, NumbersRead, SaysItsValue, EveryDigitRead, DecimalsOneByOne
<1> QED BY <1>4, <1>5, <1>6 DEF NumberInv

LEMMA PassDigitReads ==
  ASSUME NumberInv, DigitsInv', PassDigit
  PROVE  NumberInv'
<1>1. /\ s \in Nat /\ digitNode \in Nat /\ s <= digitNode /\ digitPc = "commas" /\ ~IsComma(digitNode)
      /\ digitNode' = digitNode + 1
      /\ UNCHANGED <<digitPc, digitWords, s, e, last, digitText, how, number, read>>
  BY DEF NumberInv, DigitsInv, DigitsTypeOK, Within, PassDigit, history
<1>2. Unread = s /\ Unread' = s
  BY <1>1 DEF Unread
<1>3. NumberTyped' /\ RestOpen' /\ AllAccounted'
  BY <1>1, <1>2 DEF NumberInv, NumberTyped, RestOpen, AllAccounted, InNumber
<1>4. OnlyCommas'
  <2>1. ASSUME NEW i \in s..((digitNode + 1) - 1) PROVE ~IsComma(i)
    <3>1. i = digitNode \/ i \in s..(digitNode - 1)
      BY <1>1
    <3> QED BY <1>1, <3>1 DEF NumberInv, OnlyCommas
  <2> QED BY <1>1, <2>1 DEF NumberInv, OnlyCommas, IsComma, IsPeriod
<1>5. HalfSaid' /\ NumbersRead'
  BY <1>1 DEF HalfSaid, NumbersRead, SaysItsValue, EveryDigitRead, DecimalsOneByOne
<1> QED BY <1>3, <1>4, <1>5 DEF NumberInv

LEMMA RemoveCommaReads ==
  ASSUME NumberInv, DigitsInv', RemoveComma
  PROVE  NumberInv'
<1>1. /\ digitWords \in Seq(Word) /\ Len(digitWords) \in Nat /\ digitNode \in 1..Len(digitWords)
      /\ s \in Nat /\ 1 <= s /\ s <= digitNode /\ digitNode < last /\ last <= e /\ e <= Len(digitWords)
      /\ last \in Nat /\ e \in Nat /\ digitPc = "commas" /\ IsComma(digitNode)
      /\ digitWords' = RemoveAt(digitWords, digitNode) /\ last' = last - 1 /\ e' = e - 1
      /\ UNCHANGED <<digitPc, digitNode, s, digitText, how, number, read>>
  BY DEF NumberInv, DigitsInv, DigitsTypeOK, Within, RemoveComma, history
<1>2. PICK shorter \in Seq(Word) :
        /\ shorter = digitWords' /\ Len(shorter) = Len(digitWords) - 1
        /\ \A k \in 1..(Len(digitWords) - 1) : shorter[k] = IF k < digitNode THEN digitWords[k] ELSE digitWords[k + 1]
  <2>1. /\ RemoveAt(digitWords, digitNode) \in Seq(Word)
        /\ Len(RemoveAt(digitWords, digitNode)) = Len(digitWords) - 1
        /\ \A k \in 1..(Len(digitWords) - 1) :
             RemoveAt(digitWords, digitNode)[k] = IF k < digitNode THEN digitWords[k] ELSE digitWords[k + 1]
    BY <1>1, Removed
  <2> QED BY <1>1, <2>1, Zenon
<1>3. Unread = s /\ Unread' = s
  BY <1>1 DEF Unread
<1>4. ASSUME NEW k \in s..Len(shorter)
      PROVE  \/ k < digitNode /\ k \in s..(digitNode - 1) /\ shorter[k] = digitWords[k]
             \/ ~(k < digitNode) /\ k + 1 \in s..Len(digitWords) /\ shorter[k] = digitWords[k + 1]
  BY <1>1, <1>2
<1>5. NumberTyped'
  BY <1>1 DEF NumberInv, NumberTyped
<1>6. RestOpen'
  <2>1. /\ \A i \in s..Len(digitWords) : ~digitWords[i].silent
        /\ \A i \in s..e : InNumber(i)
    BY <1>1, <1>3 DEF NumberInv, RestOpen
  <2>2. ASSUME NEW k \in s..Len(shorter) PROVE ~shorter[k].silent
    <3>1. k \in s..Len(digitWords)
      BY <1>1, <1>2
    <3> QED BY <1>4, <2>1, <3>1
  <2>3. ASSUME NEW k \in s..(e - 1) PROVE shorter[k].kind \in {"digit", "comma", "period"}
    <3>1. k \in s..Len(shorter) /\ k \in s..e /\ k + 1 \in s..e
      BY <1>1, <1>2
    <3>2. InNumber(k) /\ InNumber(k + 1)
      BY <2>1, <3>1
    <3> QED BY <1>4, <3>1, <3>2 DEF InNumber
  <2> QED BY <1>1, <1>2, <1>3, <2>2, <2>3 DEF RestOpen, InNumber
<1>7. AllAccounted'
  <2>1. digitWords[digitNode].kind # "digit" /\ s \in Nat \ {0}
    BY <1>1 DEF IsComma
  <2>2. DigitsOf(SubSeq(shorter, s, Len(shorter))) = DigitsOf(SubSeq(digitWords, s, Len(digitWords)))
    BY <1>1, <1>2, <2>1, DropMark
  <2>3. read \o DigitsOf(SubSeq(digitWords, s, Len(digitWords))) = DigitsOf(digitText)
    BY <1>1, <1>3, Zenon DEF NumberInv, AllAccounted
  <2> QED BY <1>1, <1>2, <1>3, <2>2, <2>3, Zenon DEF AllAccounted
<1>8. OnlyCommas'
  <2>1. /\ how = "period" /\ \A i \in s..last : digitWords[i].kind \notin {"period", "stop"}
        /\ \A i \in s..(digitNode - 1) : digitWords[i].kind # "comma"
        /\ digitWords[last].kind # "comma"
    BY <1>1 DEF NumberInv, OnlyCommas, IsComma, IsPeriod
  <2>2. ASSUME NEW k \in s..(last - 1) PROVE shorter[k].kind \notin {"period", "stop"}
    <3>1. k \in s..Len(shorter) /\ k \in s..last /\ k + 1 \in s..last
      BY <1>1, <1>2
    <3> QED BY <1>4, <2>1, <3>1
  <2>3. ASSUME NEW k \in s..(digitNode - 1) PROVE shorter[k].kind # "comma"
    <3>1. k \in s..Len(shorter) /\ k < digitNode
      BY <1>1, <1>2
    <3> QED BY <1>4, <2>1, <3>1
  <2>4. shorter[last - 1].kind # "comma"
    <3>1. last - 1 \in s..Len(shorter) /\ ~(last - 1 < digitNode) /\ (last - 1) + 1 = last
      BY <1>1, <1>2
    <3>2. shorter[last - 1] = digitWords[(last - 1) + 1]
      BY <1>4, <3>1
    <3> QED BY <2>1, <3>1, <3>2, Zenon
  <2> QED BY <1>1, <1>2, <2>1, <2>2, <2>3, <2>4 DEF OnlyCommas, IsComma, IsPeriod
<1>9. HalfSaid' /\ NumbersRead'
  BY <1>1 DEF HalfSaid, NumbersRead, SaysItsValue, EveryDigitRead, DecimalsOneByOne
<1> QED BY <1>5, <1>6, <1>7, <1>8, <1>9 DEF NumberInv

\* The piece of digits that is read next, as a number or not.
LEMMA PieceTaken ==
  ASSUME NumberInv, DigitsInv', NEW final \in s..e, digitPc = "cut" \/ digitPc = "commas",
         \A i \in s..final : digitWords[i].kind = "digit",
         digitWords' = digitWords, s' = s, e' = e, digitText' = digitText, last' = final,
         digitPc' \in {"numeral", "next"}, read' = read \o SubSeq(digitWords, s, final), number' \in Seq(Word)
  PROVE  NumberTyped' /\ RestOpen' /\ AllAccounted' /\ OnlyCommas' /\ EveryDigitRead'
<1>1. /\ s \in Nat \ {0} /\ e \in Nat /\ final \in Nat /\ s <= final + 1 /\ final <= Len(digitWords)
      /\ final <= e /\ e <= Len(digitWords) /\ Len(digitWords) \in Nat /\ s <= final /\ digitWords \in Seq(Word)
  BY DEF NumberInv, DigitsInv, DigitsTypeOK, Within
<1>2. Unread = s /\ Unread' = final + 1
  BY DEF Unread
<1>3. /\ SubSeq(digitWords, s, final) \in Seq(Word) /\ read \o SubSeq(digitWords, s, final) \in Seq(Word)
      /\ read \o DigitsOf(SubSeq(digitWords, s, Len(digitWords))) =
           (read \o SubSeq(digitWords, s, final)) \o DigitsOf(SubSeq(digitWords, final + 1, Len(digitWords)))
  <2>1. read \in Seq(Word)
    BY DEF NumberInv, NumberTyped
  <2> QED BY <1>1, <2>1, TakeDigits
<1>4. NumberTyped'
  BY <1>3 DEF NumberInv, NumberTyped
<1>5. RestOpen'
  <2>1. (\A i \in s..Len(digitWords) : ~digitWords[i].silent) /\ \A i \in s..e : InNumber(i)
    BY <1>2 DEF NumberInv, RestOpen
  <2>2. /\ \A i \in (final + 1)..Len(digitWords) : i \in s..Len(digitWords)
        /\ \A i \in (final + 1)..e : i \in s..e
    BY <1>1
  <2> QED BY <1>2, <2>1, <2>2 DEF RestOpen, InNumber
<1>6. AllAccounted'
  <2>1. read \o DigitsOf(SubSeq(digitWords, s, Len(digitWords))) = DigitsOf(digitText)
    <3>1. digitPc # "done"
      OBVIOUS
    <3> QED BY <1>2, <3>1, Zenon DEF NumberInv, AllAccounted
  <2> QED BY <1>2, <1>3, <2>1, Zenon DEF AllAccounted
<1>7. OnlyCommas' /\ EveryDigitRead'
  BY DEF OnlyCommas, EveryDigitRead
<1> QED BY <1>4, <1>5, <1>6, <1>7

\* Nothing is said and nothing is worth anything yet.
LEMMA NothingSaid ==
  ASSUME NEW j \in 0..3, NEW p \in 0..MaxPlace
  PROVE  SaysWorth(nothing_said, 0, j, p, 0)
<1>1. PICK m \in Nat : m = Myriad[p]
  BY MyriadTyped
<1>2. PICK x \in Nat : x = 10 ^ (j + 1)
  <2>1. CASE j = 0
    BY <2>1
  <2>2. CASE j = 1
    BY <2>2
  <2>3. CASE j = 2
    BY <2>3
  <2>4. CASE j = 3
    BY <2>4
  <2> QED BY <2>1, <2>2, <2>3, <2>4
<1>3. (0 * x) * m = 0 + 0 * m
  OBVIOUS
<1>4. nothing_said \in Understanding /\ nothing_said.total = 0 /\ nothing_said.group = 0 /\ nothing_said.digit = 0
  BY DEF nothing_said, Understanding
<1> QED BY <1>1, <1>2, <1>3, <1>4 DEF SaysWorth, Standing

LEMMA NumeralStarts ==
  ASSUME NumberInv, DigitsInv', NEW final \in s..e, digitPc = "cut" \/ digitPc = "commas", StartNumeral(final),
         \A i \in s..final : digitWords[i].kind = "digit",
         digitWords' = digitWords, s' = s, e' = e, digitText' = digitText,
         how' = "comma" /\ s > 2 => ~(IsPeriod(s - 1) /\ IsKazu(s - 2))
  PROVE  NumberInv'
<1>1. /\ s \in Nat \ {0} /\ e \in Nat /\ final \in Nat /\ s <= final + 1 /\ final <= Len(digitWords)
      /\ final <= e /\ e <= Len(digitWords) /\ Len(digitWords) \in Nat /\ s <= final /\ digitWords \in Seq(Word)
  BY DEF NumberInv, DigitsInv, DigitsTypeOK, Within
<1>2. /\ last' = final /\ digitNode' = s /\ have' = 0 /\ read' = read \o SubSeq(digitWords, s, final)
      /\ \/ digitPc' = "numeral" /\ number' = SubSeq(digitWords, s, final)
         \/ digitPc' = "next" /\ number' = <<>>
  BY DEF StartNumeral
<1>3. PICK piece \in Seq(Word) :
        /\ piece = SubSeq(digitWords, s, final) /\ Len(piece) = final + 1 - s
        /\ \A k \in 1..(final + 1 - s) : piece[k] = digitWords[s + k - 1]
  BY <1>1, Part, ZenonT(60)
<1>4. number' \in Seq(Word) /\ digitPc' \in {"numeral", "next"}
  BY <1>2, <1>3, EmptySeq
<1>5. NumberTyped' /\ RestOpen' /\ AllAccounted' /\ OnlyCommas' /\ EveryDigitRead'
  BY <1>2, <1>4, PieceTaken
<1>6. HalfSaid'
  <2> SUFFICES ASSUME digitPc' = "numeral" PROVE HalfSaid'
    BY DEF HalfSaid
  <2>1. number' = piece /\ last' + 1 - digitNode' = final + 1 - s /\ s' = s
    BY <1>2, <1>3
  <2>2. ASSUME NEW k \in 1..Len(piece) PROVE piece[k].kind = "digit" /\ ~piece[k].silent
    <3>1. s + k - 1 \in s..final /\ s + k - 1 \in s..Len(digitWords) /\ k \in 1..(final + 1 - s)
      BY <1>1, <1>3
    <3>2. \A i \in s..Len(digitWords) : ~digitWords[i].silent
      <4>1. Unread = s
        BY DEF Unread
      <4> QED BY <4>1 DEF NumberInv, RestOpen
    <3> QED BY <1>3, <3>1, <3>2
  <2>3. ASSUME NEW k \in 1..(final + 1 - s) PROVE digitWords[s - 1 + k] = piece[Len(piece) - (final + 1 - s) + k]
    <3>1. s - 1 + k = s + k - 1 /\ Len(piece) - (final + 1 - s) + k = k
      BY <1>1, <1>3
    <3> QED BY <1>3, <3>1
  <2>4. digitIndex' \in 0..3 /\ place' \in 0..MaxPlace
    <3>1. /\ digitIndex' \in 0..3 /\ place' + 1 \in 0..MaxPlace + 1 /\ place' \in Int
          /\ final + 1 - s = 4 * place' + digitIndex' + 1 /\ final + 1 - s > 1
      <4>1. final + 1 - s > 1
        <5>1. final - s + 1 > 1
          BY DEF StartNumeral
        <5> QED BY <1>1, <5>1
      <4> QED BY <2>1, <4>1 DEF DigitsInv, DigitsTypeOK, Remaining
    <3>2. PICK x \in Int, y \in 0..3 : x = place' /\ y = digitIndex'
      BY <3>1
    <3>3. x + 1 \in 0..MaxPlace + 1 /\ final + 1 - s = 4 * x + y + 1 /\ final + 1 - s > 1
      BY <3>1, <3>2, Zenon
    <3>4. x \in 0..MaxPlace
      BY <1>1, <3>3 DEF MaxPlace
    <3> QED BY <3>1, <3>2, <3>4, Zenon
  <2>5. SaysWorth(nothing_said, 0, digitIndex', place', 0)
    BY <2>4, NothingSaid
  <2>6. /\ HeardUpTo(piece)[0] = nothing_said /\ WorthUpTo(piece)[0] = 0
        /\ Len(piece) - (final + 1 - s) = 0 /\ s - s = 0 /\ final + 1 - s <= Len(piece) /\ s <= final + 1
    BY <1>1, <1>3, HeardSteps, WorthSteps
  <2>7. SaysWorth(HeardUpTo(piece)[s - s], WorthUpTo(piece)[Len(piece) - (final + 1 - s)], digitIndex', place', have')
    BY <1>2, <2>5, <2>6, Zenon
  <2> QED BY <1>2, <1>3, <2>1, <2>2, <2>3, <2>6, <2>7, Zenon DEF HalfSaid
<1>7. SaysItsValue'
  BY <1>2 DEF SaysItsValue
<1>8. DecimalsOneByOne'
  BY DEF DecimalsOneByOne, IsPeriod, IsKazu
<1> QED BY <1>5, <1>6, <1>7, <1>8 DEF NumberInv, NumbersRead

LEMMA CommasGoneReads ==
  ASSUME NumberInv, DigitsInv', CommasGone
  PROVE  NumberInv'
<1>1. /\ DigitsTypeOK /\ Within /\ digitPc = "commas" /\ digitNode = last /\ StartNumeral(last)
      /\ UNCHANGED <<digitWords, s, e, digitText, how>>
  BY DEF NumberInv, DigitsInv, CommasGone
<1>2. last \in s..e /\ s \in Nat /\ last \in Nat /\ e \in Nat
  BY <1>1 DEF DigitsTypeOK, Within
<1>3. ASSUME NEW i \in s..last PROVE digitWords[i].kind = "digit"
  <2>1. i \in s..e /\ (i = last \/ i \in s..(last - 1))
    BY <1>2
  <2>2. Unread = s
    BY <1>1 DEF Unread
  <2>3. InNumber(i)
    BY <1>1, <2>1, <2>2 DEF NumberInv, RestOpen
  <2>4. ~IsPeriod(i) /\ ~IsComma(i)
    BY <1>1, <2>1 DEF NumberInv, OnlyCommas
  <2> QED BY <2>3, <2>4 DEF InNumber, IsPeriod, IsComma
<1>4. how' # "comma"
  BY <1>1 DEF NumberInv, OnlyCommas
<1> QED BY <1>1, <1>2, <1>3, <1>4, NumeralStarts

\* The neighbours of decimals speak against a number.
LEMMA DecimalsScore ==
  ASSUME DigitsTypeOK, s > 2, NEW final \in Nat, IsPeriod(s - 1), IsKazu(s - 2)
  PROVE  Score(s, final) < 0
<1>1. ScoreBefore(s) = -5
  <2>1. s # 1 /\ digitWords[s - 2].kind # "numero" /\ digitWords[s - 1].kind \in {"period", "stop"}
    BY DEF DigitsTypeOK, IsPeriod, IsKazu
  <2> QED BY <2>1 DEF ScoreBefore
<1>2. ScoreAfter(final) \in {-2, 0, 2, 4}
  BY DEF ScoreAfter
<1> QED BY <1>1, <1>2 DEF Score

LEMMA PieceIsDigits ==
  ASSUME NumberInv, AtDigit
  PROVE  FinalBeforeComma \in s..e /\ \A i \in s..FinalBeforeComma : digitWords[i].kind = "digit"
<1>1. DigitsTypeOK /\ Within /\ digitPc = "cut"
  BY DEF NumberInv, DigitsInv, AtDigit
<1>2. /\ FinalBeforeComma \in s..e
      /\ \A i \in s..FinalBeforeComma : ~IsPeriod(i) /\ ~IsComma(i)
  BY <1>1, FinalCommaIs
<1>3. PICK f \in s..e : f = FinalBeforeComma
  BY <1>2
<1>4. s \in Nat /\ e \in Nat
  BY <1>1 DEF DigitsTypeOK
<1>5. ASSUME NEW i \in s..f PROVE digitWords[i].kind = "digit"
  <2>1. i \in s..e
    BY <1>3, <1>4
  <2>2. Unread = s
    BY <1>1 DEF Unread
  <2>3. InNumber(i)
    BY <1>1, <2>1, <2>2 DEF NumberInv, RestOpen
  <2> QED BY <1>2, <1>3, <2>3 DEF InNumber, IsPeriod, IsComma
<1> QED BY <1>3, <1>5

LEMMA UntilCommaReads ==
  ASSUME NumberInv, DigitsInv', ReadUntilComma
  PROVE  NumberInv'
<1>1. /\ DigitsTypeOK /\ Within /\ digitPc = "cut" /\ AtDigit /\ StartNumeral(FinalBeforeComma) /\ how' = "comma"
      /\ Score(s, FinalBeforeComma) >= 0 /\ UNCHANGED <<digitWords, s, e, digitText>>
  BY DEF NumberInv, DigitsInv, ReadUntilComma, AtDigit
<1>2. FinalBeforeComma \in s..e /\ \A i \in s..FinalBeforeComma : digitWords[i].kind = "digit"
  BY <1>1, PieceIsDigits
<1>3. PICK f \in s..e : f = FinalBeforeComma
  BY <1>2
<1>4. s > 2 => ~(IsPeriod(s - 1) /\ IsKazu(s - 2))
  <2> SUFFICES ASSUME s > 2, IsPeriod(s - 1), IsKazu(s - 2) PROVE FALSE
    OBVIOUS
  <2>1. f \in Nat
    BY <1>1 DEF DigitsTypeOK
  <2>2. Score(s, f) < 0 /\ Score(s, f) >= 0
    BY <1>1, <1>3, <2>1, DecimalsScore
  <2>3. Score(s, f) \in Int
    BY DEF Score, ScoreBefore, ScoreAfter
  <2> QED BY <2>2, <2>3
<1> QED BY <1>1, <1>2, <1>3, <1>4, NumeralStarts

LEMMA OneByOneReads ==
  ASSUME NumberInv, DigitsInv', ReadOneByOne
  PROVE  NumberInv'
<1>1. /\ digitPc = "cut" /\ AtDigit /\ last' = FinalBeforeComma /\ digitPc' = "next" /\ number' = <<>>
      /\ read' = read \o SubSeq(digitWords, s, FinalBeforeComma)
      /\ UNCHANGED <<digitWords, s, e, digitText>>
  BY DEF ReadOneByOne, AtDigit
<1>2. FinalBeforeComma \in s..e /\ \A i \in s..FinalBeforeComma : digitWords[i].kind = "digit"
  BY <1>1, PieceIsDigits
<1>3. NumberTyped' /\ RestOpen' /\ AllAccounted' /\ OnlyCommas' /\ EveryDigitRead'
  BY <1>1, <1>2, PieceTaken, EmptySeq
<1>4. HalfSaid' /\ SaysItsValue' /\ DecimalsOneByOne'
  BY <1>1 DEF HalfSaid, SaysItsValue, DecimalsOneByOne
<1> QED BY <1>3, <1>4 DEF NumberInv, NumbersRead

LEMMA NumeralDoneReads ==
  ASSUME NumberInv, DigitsInv', NumeralDone
  PROVE  NumberInv'
<1>1. /\ digitPc = "numeral" /\ digitPc' = "next" /\ digitNode > last
      /\ UNCHANGED <<digitWords, digitNode, s, e, last, digitText, how, number, read>>
  BY DEF NumeralDone, history
<1>2. /\ s \in Nat \ {0} /\ last \in Nat /\ digitNode \in Nat /\ place \in Int /\ place + 1 >= 0 /\ digitIndex \in 0..3
      /\ s <= digitNode /\ s <= last /\ last <= Len(digitWords) /\ Len(digitWords) \in Nat /\ digitWords \in Seq(Word)
      /\ last + 1 - digitNode = 4 * place + digitIndex + 1
  BY <1>1 DEF NumberInv, DigitsInv, DigitsTypeOK, Within, Remaining, MaxPlace
<1>3. last + 1 - digitNode = 0 /\ ~(place >= 0) /\ digitNode - s = last + 1 - s
  <2>1. digitNode <= last + 1
    BY <1>1 DEF NumberInv, HalfSaid
  <2> QED BY <1>1, <1>2, <2>1
<1>4. Unread = last + 1 /\ Unread' = last + 1
  BY <1>1 DEF Unread
<1>5. NumberTyped' /\ RestOpen' /\ AllAccounted' /\ OnlyCommas' /\ HalfSaid'
  BY <1>1, <1>4 DEF NumberInv, NumberTyped, RestOpen, AllAccounted, OnlyCommas, HalfSaid, InNumber
<1>6. SaysItsValue'
  <2>1. PICK m \in Nat : m = Len(number)
    BY LenProperties DEF NumberInv, NumberTyped
  <2>2. SaysWorth(HeardUpTo(SubSeq(digitWords, s, last))[digitNode - s],
                  WorthUpTo(number)[m - (last + 1 - digitNode)], digitIndex, place, have)
    BY <1>1, <2>1, Zenon DEF NumberInv, HalfSaid
  <2>3. m - 0 = m
    BY <2>1
  <2>4. SaysWorth(HeardUpTo(SubSeq(digitWords, s, last))[last + 1 - s], WorthUpTo(number)[m], digitIndex, place, have)
    BY <1>3, <2>2, <2>3, Zenon
  <2>5. Len(SubSeq(digitWords, s, last)) = last + 1 - s
    <3>1. s <= last + 1
      BY <1>2
    <3> QED BY <1>2, <3>1, Part, Zenon
  <2>6. Spoken(SubSeq(digitWords, s, last)) = Written(number)
    BY <1>3, <2>1, <2>4, <2>5 DEF SaysWorth, Spoken, Written
  <2> QED BY <1>1, <2>6, Zenon DEF SaysItsValue
<1>7. EveryDigitRead' /\ DecimalsOneByOne'
  BY <1>1 DEF EveryDigitRead, DecimalsOneByOne
<1> QED BY <1>5, <1>6, <1>7 DEF NumberInv, NumbersRead

\* One round of the loop that reads a digit: as many words are put in as the
\* node moves on by more than one.
Reads(j) ==
  /\ digitNode' = digitNode + 1 + j /\ last' = last + j /\ e' = e + j
  /\ digitWords' \in Seq(Word) /\ Len(digitWords') = Len(digitWords) + j
  /\ \A k \in 1..(digitNode - 1) : digitWords'[k] = digitWords[k]
  /\ \A k \in (digitNode + 1)..Len(digitWords) : digitWords'[k + j] = digitWords[k]

\* The digit at the node, and what was understood before it.
Understood == HeardUpTo(SubSeq(digitWords, s, last))[digitNode - s]
WorthSoFar == WorthUpTo(number)[Len(number) - (last + 1 - digitNode)]

LEMMA NumeralPlaces ==
  ASSUME NumberInv, digitPc = "numeral", digitNode <= last
  PROVE  /\ s \in Nat \ {0} /\ e \in Nat /\ last \in Nat /\ digitNode \in Nat \ {0} /\ Len(digitWords) \in Nat
         /\ s <= digitNode /\ last <= e /\ e <= Len(digitWords) /\ digitWords \in Seq(Word)
         /\ digitNode \in 1..Len(digitWords)
         /\ digitIndex \in 0..3 /\ place \in 0..MaxPlace /\ have \in {0, 1}
         /\ digitWords[digitNode] \in Word /\ digitWords[digitNode].kind = "digit" /\ ~digitWords[digitNode].silent
         /\ SaysWorth(Understood, WorthSoFar, digitIndex, place, have)
         /\ number \in Seq(Word) /\ Len(number) \in Nat /\ last + 1 - digitNode <= Len(number)
         /\ last + 1 - digitNode = 4 * place + digitIndex + 1
<1>1. /\ s \in Nat \ {0} /\ e \in Nat /\ last \in Nat /\ digitNode \in Nat \ {0} /\ Len(digitWords) \in Nat
      /\ s <= digitNode /\ last <= e /\ e <= Len(digitWords) /\ digitWords \in Seq(Word)
      /\ digitIndex \in 0..3 /\ place \in Int /\ place + 1 \in 0..MaxPlace + 1 /\ have \in {0, 1}
      /\ last + 1 - digitNode = 4 * place + digitIndex + 1
  BY DEF NumberInv, DigitsInv, DigitsTypeOK, Within, Remaining
<1>2. digitNode \in 1..Len(digitWords) /\ place \in 0..MaxPlace
  BY <1>1 DEF MaxPlace
<1>3. number \in Seq(Word) /\ Len(number) \in Nat
  BY LenProperties DEF NumberInv, NumberTyped
<1>4. /\ \A k \in 1..Len(number) : number[k].kind = "digit" /\ ~number[k].silent
      /\ last + 1 - digitNode <= Len(number)
      /\ \A k \in 1..(last + 1 - digitNode) :
           digitWords[digitNode - 1 + k] = number[Len(number) - (last + 1 - digitNode) + k]
      /\ SaysWorth(Understood, WorthSoFar, digitIndex, place, have)
  BY Zenon DEF NumberInv, HalfSaid, Understood, WorthSoFar
<1>5. PICK r \in Nat : r = last + 1 - digitNode /\ r >= 1
  BY <1>1
<1>6. digitWords[digitNode] = number[Len(number) - r + 1] /\ Len(number) - r + 1 \in 1..Len(number)
  <2>1. 1 \in 1..r /\ digitNode - 1 + 1 = digitNode /\ r <= Len(number)
    BY <1>1, <1>4, <1>5
  <2>2. digitWords[digitNode - 1 + 1] = number[Len(number) - r + 1]
    BY <1>4, <1>5, <2>1, Zenon
  <2> QED BY <1>3, <2>1, <2>2
<1>7. digitWords[digitNode] \in Word
  BY <1>1, <1>2
<1> QED BY <1>1, <1>2, <1>3, <1>4, <1>6, <1>7

\* What is understood before the digit stays so, and the words put there are
\* heard next.
LEMMA HeardNext ==
  ASSUME NumberInv, digitPc = "numeral", digitNode <= last, NEW j \in {0, 1}, Reads(j), s' = s
  PROVE  /\ j = 0 => Understood' = Hear(Understood, digitWords'[digitNode])
         /\ j = 1 => Understood' = Hear(Hear(Understood, digitWords'[digitNode]), digitWords'[digitNode + 1])
<1>1. /\ s \in Nat \ {0} /\ e \in Nat /\ last \in Nat /\ digitNode \in Nat \ {0} /\ Len(digitWords) \in Nat
      /\ s <= digitNode /\ last <= e /\ e <= Len(digitWords) /\ digitWords \in Seq(Word)
  BY NumeralPlaces
<1>2. PICK list \in Seq(Word) :
        /\ list = digitWords' /\ Len(list) = Len(digitWords) + j
        /\ \A k \in 1..(digitNode - 1) : list[k] = digitWords[k]
  BY DEF Reads
<1>3. PICK n \in Nat : n = digitNode - s
  BY <1>1
<1>4. PICK a \in Seq(Word) :
        /\ a = SubSeq(digitWords, s, last) /\ Len(a) = last + 1 - s
        /\ \A k \in 1..(last + 1 - s) : a[k] = digitWords[s + k - 1]
  <2>1. s <= last + 1 /\ last <= Len(digitWords)
    BY <1>1
  <2>2. /\ SubSeq(digitWords, s, last) \in Seq(Word) /\ Len(SubSeq(digitWords, s, last)) = last + 1 - s
        /\ \A k \in 1..(last + 1 - s) : SubSeq(digitWords, s, last)[k] = digitWords[s + k - 1]
    BY <1>1, <2>1, Part
  <2> QED BY <2>2, Zenon
<1>5. PICK b \in Seq(Word) :
        /\ b = SubSeq(list, s, last + j) /\ Len(b) = last + j + 1 - s
        /\ \A k \in 1..(last + j + 1 - s) : b[k] = list[s + k - 1]
  <2>1. last + j \in Nat /\ s <= (last + j) + 1 /\ last + j <= Len(list)
    BY <1>1, <1>2
  <2>2. /\ SubSeq(list, s, last + j) \in Seq(Word) /\ Len(SubSeq(list, s, last + j)) = last + j + 1 - s
        /\ \A k \in 1..(last + j + 1 - s) : SubSeq(list, s, last + j)[k] = list[s + k - 1]
    BY <1>1, <2>1, Part, SMTT(60)
  <2> QED BY <2>2, Zenon
<1>6. /\ Len(a) \in Nat /\ Len(b) \in Nat /\ n <= Len(a) /\ n + 1 <= Len(b) /\ n + 1 + j <= Len(b)
      /\ \A k \in 1..n : a[k] = b[k]
  <2>1. Len(a) \in Nat /\ Len(b) \in Nat /\ n <= Len(a) /\ n + 1 <= Len(b) /\ n + 1 + j <= Len(b)
    BY <1>1, <1>3, <1>4, <1>5
  <2>2. ASSUME NEW k \in 1..n PROVE a[k] = b[k]
    <3>1. k \in 1..(last + 1 - s) /\ k \in 1..(last + j + 1 - s) /\ s + k - 1 \in 1..(digitNode - 1)
      BY <1>1, <1>3
    <3> QED BY <1>2, <1>4, <1>5, <3>1
  <2> QED BY <2>1, <2>2
<1>7. b[n + 1] = list[digitNode]
  <2>1. n + 1 \in 1..(last + j + 1 - s) /\ s + (n + 1) - 1 = digitNode
    BY <1>1, <1>3
  <2> QED BY <1>5, <2>1
<1>8. HeardUpTo(b)[n + 1] = Hear(HeardUpTo(a)[n], b[n + 1])
  BY <1>6, HeardMore
<1>9. Understood = HeardUpTo(a)[n]
  BY <1>3, <1>4, Zenon DEF Understood
<1>10. Understood' = HeardUpTo(b)[n + 1 + j]
  <2>1. digitNode' - s' = n + 1 + j
    BY <1>1, <1>3 DEF Reads
  <2>2. last' = last + j
    BY DEF Reads
  <2> QED BY <1>2, <1>5, <2>1, <2>2, Zenon DEF Understood
<1>11. CASE j = 0
  <2>1. n + 1 + j = n + 1
    BY <1>11
  <2> QED BY <1>2, <1>7, <1>8, <1>9, <1>10, <1>11, <2>1
<1>12. CASE j = 1
  <2>1. n + 1 + j = (n + 1) + 1 /\ n + 1 \in Nat /\ (n + 1) + 1 <= Len(b)
    BY <1>6, <1>12
  <2>2. b[(n + 1) + 1] = list[digitNode + 1]
    <3>1. (n + 1) + 1 \in 1..(last + j + 1 - s) /\ s + ((n + 1) + 1) - 1 = digitNode + 1
      BY <1>1, <1>3, <1>12
    <3> QED BY <1>5, <3>1
  <2>3. HeardUpTo(b)[(n + 1) + 1] = Hear(HeardUpTo(b)[n + 1], b[(n + 1) + 1])
    BY <1>6, <2>1, HeardMore
  <2> QED BY <1>2, <1>7, <1>8, <1>9, <1>10, <1>12, <2>1, <2>2, <2>3
<1> QED BY <1>11, <1>12

\* With the digit its worth is said, and all else stays as it is.
LEMMA OneMoreSaid ==
  ASSUME NumberInv, DigitsInv', digitPc = "numeral", digitNode <= last, digitPc' = "numeral",
         NEW j \in {0, 1}, Reads(j), s' = s, UNCHANGED history,
         SaysWorth(Understood', 10 * WorthSoFar + digitWords[digitNode].value, digitIndex', place', have')
  PROVE  NumberInv'
<1>1. /\ s \in Nat \ {0} /\ e \in Nat /\ last \in Nat /\ digitNode \in Nat \ {0} /\ Len(digitWords) \in Nat
      /\ s <= digitNode /\ last <= e /\ e <= Len(digitWords) /\ digitWords \in Seq(Word)
      /\ digitNode \in 1..Len(digitWords)
      /\ number \in Seq(Word) /\ Len(number) \in Nat /\ last + 1 - digitNode <= Len(number)
  BY NumeralPlaces
<1>2. PICK list \in Seq(Word) :
        /\ list = digitWords' /\ Len(list) = Len(digitWords) + j
        /\ \A k \in 1..(digitNode - 1) : list[k] = digitWords[k]
        /\ \A k \in (digitNode + 1)..Len(digitWords) : list[k + j] = digitWords[k]
  BY DEF Reads
<1>3. digitNode' = digitNode + 1 + j /\ last' = last + j /\ e' = e + j
  BY DEF Reads
<1>4. UNCHANGED <<digitText, how, number, read>>
  BY DEF history
<1>5. Unread = last + 1 /\ Unread' = last + j + 1
  <2>1. Unread = last + 1 /\ Unread' = (last + j) + 1
    BY <1>3 DEF Unread
  <2> QED BY <1>1, <2>1
<1>6. NumberTyped'
  BY <1>4 DEF NumberInv, NumberTyped
<1>7. RestOpen'
  <2>1. (\A i \in (last + 1)..Len(digitWords) : ~digitWords[i].silent) /\ \A i \in (last + 1)..e : InNumber(i)
    BY <1>5 DEF NumberInv, RestOpen
  <2>2. ASSUME NEW i \in (last + j + 1)..Len(list) PROVE ~list[i].silent
    <3>1. i - j \in (digitNode + 1)..Len(digitWords) /\ i - j \in (last + 1)..Len(digitWords) /\ (i - j) + j = i
      BY <1>1, <1>2
    <3>2. list[(i - j) + j] = digitWords[i - j]
      BY <1>2, <3>1
    <3> QED BY <2>1, <3>1, <3>2
  <2>3. ASSUME NEW i \in (last + j + 1)..(e + j) PROVE list[i].kind \in {"digit", "comma", "period"}
    <3>1. i - j \in (digitNode + 1)..Len(digitWords) /\ i - j \in (last + 1)..e /\ (i - j) + j = i
      BY <1>1
    <3>2. list[(i - j) + j] = digitWords[i - j] /\ InNumber(i - j)
      BY <1>2, <2>1, <3>1
    <3> QED BY <3>1, <3>2 DEF InNumber
  <2> QED BY <1>2, <1>3, <1>5, <2>2, <2>3 DEF RestOpen, InNumber
<1>8. AllAccounted'
  <2>1. SubSeq(list, last + j + 1, Len(list)) = SubSeq(digitWords, last + 1, Len(digitWords))
    <3>1. /\ last + 1 \in Nat \ {0} /\ last + j + 1 \in Nat \ {0} /\ last + 1 <= Len(digitWords) + 1
          /\ last + j + 1 <= Len(list) + 1 /\ Len(digitWords) - (last + 1) = Len(list) - (last + j + 1)
      BY <1>1, <1>2
    <3>2. ASSUME NEW k \in (last + 1)..Len(digitWords) PROVE list[last + j + 1 + (k - (last + 1))] = digitWords[k]
      <4>1. k \in (digitNode + 1)..Len(digitWords) /\ last + j + 1 + (k - (last + 1)) = k + j
        BY <1>1
      <4> QED BY <1>2, <4>1
    <3> QED BY <1>1, <3>1, <3>2, SameEnd, ZenonT(60)
  <2>2. read \o DigitsOf(SubSeq(digitWords, last + 1, Len(digitWords))) = DigitsOf(digitText)
    BY <1>5, Zenon DEF NumberInv, AllAccounted
  <2> QED BY <1>2, <1>4, <1>5, <2>1, <2>2, Zenon DEF AllAccounted
<1>9. HalfSaid'
  <2>1. PICK r \in Nat, m \in Nat : /\ r = last + 1 - digitNode /\ r >= 1 /\ m = Len(number) - r
                                    /\ last' + 1 - digitNode' = r - 1 /\ r - 1 <= Len(number)
                                    /\ Len(number) - (r - 1) = m + 1 /\ m + 1 \in 1..Len(number)
    <3>1. PICK r \in Nat : r = last + 1 - digitNode
      BY <1>1
    <3>2. PICK m \in Nat : m = Len(number) - r
      <4>1. PICK N \in Nat : N = Len(number)
        BY <1>1
      <4>2. r <= N
        BY <1>1, <3>1, <4>1, Zenon
      <4>3. N - r \in Nat
        BY <4>2
      <4> QED BY <4>1, <4>3
    <3>3. /\ r >= 1 /\ r - 1 <= Len(number) /\ Len(number) - (r - 1) = m + 1 /\ m + 1 \in 1..Len(number)
          /\ (last + j) + 1 - (digitNode + 1 + j) = r - 1
      BY <1>1, <3>1, <3>2
    <3>4. last' + 1 - digitNode' = r - 1
      BY <1>3, <3>3, Zenon
    <3> QED BY <3>1, <3>2, <3>3, <3>4, Zenon
  <2>2. /\ \A k \in 1..Len(number) : number[k].kind = "digit" /\ ~number[k].silent
        /\ \A k \in 1..r : digitWords[digitNode - 1 + k] = number[m + k]
    BY <2>1, Zenon DEF NumberInv, HalfSaid
  <2>7. digitNode' <= last' + 1
    <3>1. digitNode + 1 + j <= (last + j) + 1
      BY <1>1
    <3> QED BY <1>3, <3>1, Zenon
  <2>3. ASSUME NEW k \in 1..(r - 1) PROVE list[(digitNode + 1 + j) - 1 + k] = number[(m + 1) + k]
    <3>1. /\ k + 1 \in 1..r /\ digitNode - 1 + (k + 1) = digitNode + k /\ m + (k + 1) = (m + 1) + k
          /\ (digitNode + 1 + j) - 1 + k = (digitNode + k) + j /\ digitNode + k \in (digitNode + 1)..Len(digitWords)
      BY <1>1, <2>1
    <3>2. digitWords[digitNode - 1 + (k + 1)] = number[m + (k + 1)]
      BY <2>2, <3>1
    <3>3. list[(digitNode + k) + j] = digitWords[digitNode + k]
      BY <1>2, <3>1
    <3> QED BY <3>1, <3>2, <3>3, Zenon
  <2>4. WorthUpTo(number)[m + 1] = 10 * WorthSoFar + digitWords[digitNode].value
    <3>1. 1 \in 1..r /\ digitNode - 1 + 1 = digitNode /\ (m + 1) - 1 = m
      BY <1>1, <2>1
    <3>2. digitWords[digitNode] = number[m + 1]
      BY <2>2, <3>1
    <3>3. WorthUpTo(number)[m + 1] = 10 * WorthUpTo(number)[(m + 1) - 1] + number[m + 1].value
      BY <1>1, <2>1, WorthSteps
    <3>4. WorthSoFar = WorthUpTo(number)[m]
      BY <2>1, Zenon DEF WorthSoFar
    <3> QED BY <3>1, <3>2, <3>3, <3>4
  <2>5. SaysWorth(Understood', WorthUpTo(number)[m + 1], digitIndex', place', have')
    BY <2>4, Zenon
  <2>6. Understood' = HeardUpTo(SubSeq(digitWords', s', last'))[digitNode' - s']
    BY Zenon DEF Understood
  <2> QED BY <1>2, <1>3, <1>4, <2>1, <2>2, <2>3, <2>5, <2>6, <2>7, ZenonT(60) DEF HalfSaid
<1>10. OnlyCommas' /\ SaysItsValue' /\ EveryDigitRead'
  BY DEF OnlyCommas, SaysItsValue, EveryDigitRead
<1>11. DecimalsOneByOne'
  <2> SUFFICES ASSUME how = "comma", s > 2 PROVE ~(IsPeriod(s - 1) /\ IsKazu(s - 2))'
    BY <1>4 DEF DecimalsOneByOne
  <2>1. s - 1 \in 1..(digitNode - 1) /\ s - 2 \in 1..(digitNode - 1)
    BY <1>1
  <2>2. list[s - 1] = digitWords[s - 1] /\ list[s - 2] = digitWords[s - 2]
    BY <1>2, <2>1
  <2>3. ~(IsPeriod(s - 1) /\ IsKazu(s - 2))
    BY DEF NumberInv, NumbersRead, DecimalsOneByOne
  <2> QED BY <1>2, <2>2, <2>3 DEF IsPeriod, IsKazu
<1> QED BY <1>6, <1>7, <1>8, <1>9, <1>10, <1>11 DEF NumberInv, NumbersRead

\* What the words that are put in say.
LEMMA SaidSilent ==
  ASSUME NEW h \in Understanding, NEW w \in Word
  PROVE  Hear(h, Silenced(w)) = h
<1>1. Silenced(w) \in Word /\ Silenced(w).silent
  BY DEF Silenced, Word
<1> QED BY <1>1, HearWord

LEMMA ReplaceReads ==
  ASSUME NumberInv, digitPc = "numeral", digitNode <= last, NEW word \in Word, Replace(word)
  PROVE  Reads(0) /\ digitWords'[digitNode] = word /\ digitPc' = "numeral"
<1>1. /\ digitWords \in Seq(Word) /\ Len(digitWords) \in Nat /\ digitNode \in 1..Len(digitWords)
      /\ digitNode \in Nat /\ last \in Nat /\ e \in Nat
  BY NumeralPlaces
<1>2. /\ digitWords' = [digitWords EXCEPT ![digitNode] = word] /\ digitNode' = digitNode + 1
      /\ digitPc' = digitPc /\ e' = e /\ last' = last
  BY DEF Replace
<1>3. PICK list \in Seq(Word) :
        /\ list = digitWords' /\ Len(list) = Len(digitWords) /\ list[digitNode] = word
        /\ \A k \in 1..Len(digitWords) : k # digitNode => list[k] = digitWords[k]
  <2>1. /\ [digitWords EXCEPT ![digitNode] = word] \in Seq(Word)
        /\ Len([digitWords EXCEPT ![digitNode] = word]) = Len(digitWords)
        /\ [digitWords EXCEPT ![digitNode] = word][digitNode] = word
        /\ \A k \in 1..Len(digitWords) : k # digitNode => [digitWords EXCEPT ![digitNode] = word][k] = digitWords[k]
    BY <1>1
  <2> QED BY <1>2, <2>1, Zenon
<1>4. digitNode' = digitNode + 1 + 0 /\ last' = last + 0 /\ e' = e + 0 /\ Len(list) = Len(digitWords) + 0
  BY <1>1, <1>2, <1>3
<1>5. \A k \in 1..(digitNode - 1) : list[k] = digitWords[k]
  BY <1>1, <1>3
<1>6. ASSUME NEW k \in (digitNode + 1)..Len(digitWords) PROVE list[k + 0] = digitWords[k]
  <2>1. k + 0 = k /\ k \in 1..Len(digitWords) /\ k # digitNode
    BY <1>1
  <2> QED BY <1>3, <2>1
<1> QED BY <1>2, <1>3, <1>4, <1>5, <1>6 DEF Reads

LEMMA FollowReads ==
  ASSUME NumberInv, digitPc = "numeral", digitNode < last, NEW said \in Word, NEW word \in Word, Follow(said, word)
  PROVE  Reads(1) /\ digitWords'[digitNode] = said /\ digitWords'[digitNode + 1] = word /\ digitPc' = "numeral"
<1>0. digitNode <= last
  <2>1. digitNode \in Nat /\ last \in Nat
    BY DEF NumberInv, DigitsInv, DigitsTypeOK
  <2> QED BY <2>1
<1>1. /\ digitWords \in Seq(Word) /\ digitNode \in 1..Len(digitWords)
      /\ digitNode \in Nat /\ last \in Nat /\ e \in Nat /\ digitNode < Len(digitWords) /\ digitNode # Len(digitWords)
      /\ s <= digitNode /\ Len(digitWords) \in Nat
  <2>1. /\ digitWords \in Seq(Word) /\ digitNode \in 1..Len(digitWords) /\ s <= digitNode /\ Len(digitWords) \in Nat
        /\ digitNode \in Nat /\ last \in Nat /\ e \in Nat /\ last <= e /\ e <= Len(digitWords)
    BY <1>0, NumeralPlaces
  <2> QED BY <2>1
<1>2. /\ digitWords' = SubSeq(digitWords, 1, digitNode - 1) \o <<said, word>> \o SubSeq(digitWords, digitNode + 1, Len(digitWords))
      /\ digitPc' = digitPc /\ digitNode' = digitNode + 2 /\ e' = e + 1 /\ last' = last + 1
  BY <1>1, Zenon DEF Follow
<1>3. PICK a \in Seq(Word) : /\ a = SubSeq(digitWords, 1, digitNode - 1) /\ Len(a) = digitNode - 1
                             /\ \A k \in 1..(digitNode - 1) : a[k] = digitWords[k]
  <2>1. /\ SubSeq(digitWords, 1, digitNode - 1) \in Seq(Word) /\ Len(SubSeq(digitWords, 1, digitNode - 1)) = digitNode - 1
        /\ \A k \in 1..(digitNode - 1) : SubSeq(digitWords, 1, digitNode - 1)[k] = digitWords[k]
    BY <1>1
  <2> QED BY <2>1, Zenon
<1>4. PICK c \in Seq(Word) : /\ c = SubSeq(digitWords, digitNode + 1, Len(digitWords)) /\ Len(c) = Len(digitWords) - digitNode
                             /\ \A k \in 1..(Len(digitWords) - digitNode) : c[k] = digitWords[digitNode + k]
  <2>1. /\ SubSeq(digitWords, digitNode + 1, Len(digitWords)) \in Seq(Word)
        /\ Len(SubSeq(digitWords, digitNode + 1, Len(digitWords))) = Len(digitWords) - digitNode
        /\ \A k \in 1..(Len(digitWords) - digitNode) :
             SubSeq(digitWords, digitNode + 1, Len(digitWords))[k] = digitWords[digitNode + k]
    BY <1>1
  <2> QED BY <2>1, Zenon
<1>5. PICK p \in Seq(Word) : p = <<said, word>> /\ Len(p) = 2 /\ p[1] = said /\ p[2] = word
  <2>1. <<said, word>> \in Seq(Word) /\ Len(<<said, word>>) = 2 /\ <<said, word>>[1] = said /\ <<said, word>>[2] = word
    OBVIOUS
  <2> QED BY <2>1, Zenon
<1>6. PICK ap \in Seq(Word) :
        /\ ap = a \o p /\ Len(ap) = digitNode + 1 /\ ap[digitNode] = said /\ ap[digitNode + 1] = word
        /\ \A k \in 1..(digitNode - 1) : ap[k] = digitWords[k]
  <2>1. /\ a \o p \in Seq(Word) /\ Len(a \o p) = Len(a) + Len(p)
        /\ \A k \in 1..(Len(a) + Len(p)) : (a \o p)[k] = IF k <= Len(a) THEN a[k] ELSE p[k - Len(a)]
    BY ConcatProperties
  <2>2. PICK x \in Seq(Word), A \in Nat, N \in Nat :
          /\ x = a \o p /\ A = digitNode - 1 /\ N = digitNode + 1 /\ Len(x) = N
          /\ \A k \in 1..N : x[k] = IF k <= A THEN a[k] ELSE p[k - A]
    <3>1. PICK A \in Nat, N \in Nat : A = digitNode - 1 /\ N = digitNode + 1
      BY <1>1
    <3>2. Len(a) = A /\ Len(a) + Len(p) = N
      BY <1>1, <1>3, <1>5, <3>1
    <3>3. PICK x \in Seq(Word) : x = a \o p
      BY <2>1, Zenon
    <3>4. Len(x) = N /\ \A k \in 1..N : x[k] = IF k <= A THEN a[k] ELSE p[k - A]
      BY <2>1, <3>2, <3>3, Zenon
    <3> QED BY <3>1, <3>3, <3>4, Zenon
  <2>3. x[digitNode] = p[1]
    <3>1. digitNode \in 1..N /\ ~(digitNode <= A) /\ digitNode - A = 1
      BY <1>1, <2>2
    <3> QED BY <2>2, <3>1
  <2>4. x[digitNode + 1] = p[2]
    <3>1. digitNode + 1 \in 1..N /\ ~(digitNode + 1 <= A) /\ (digitNode + 1) - A = 2
      BY <1>1, <2>2
    <3> QED BY <2>2, <3>1
  <2>5. ASSUME NEW k \in 1..(digitNode - 1) PROVE x[k] = digitWords[k]
    <3>1. k \in 1..N /\ k <= A
      BY <1>1, <2>2
    <3> QED BY <1>3, <2>2, <3>1
  <2> QED BY <1>5, <2>2, <2>3, <2>4, <2>5, Zenon
<1>7. PICK list \in Seq(Word) :
        /\ list = ap \o c /\ Len(list) = Len(digitWords) + 1
        /\ \A k \in 1..(digitNode + 1) : list[k] = ap[k]
        /\ \A k \in 1..(Len(digitWords) - digitNode) : list[digitNode + 1 + k] = c[k]
  <2>1. /\ ap \o c \in Seq(Word) /\ Len(ap \o c) = Len(ap) + Len(c)
        /\ \A k \in 1..(Len(ap) + Len(c)) : (ap \o c)[k] = IF k <= Len(ap) THEN ap[k] ELSE c[k - Len(ap)]
    BY ConcatProperties
  <2>2. PICK x \in Seq(Word), A \in Nat, N \in Nat :
          /\ x = ap \o c /\ A = digitNode + 1 /\ N = Len(digitWords) + 1 /\ Len(x) = N
          /\ \A k \in 1..N : x[k] = IF k <= A THEN ap[k] ELSE c[k - A]
    <3>1. PICK A \in Nat, N \in Nat, B \in Nat : A = digitNode + 1 /\ N = Len(digitWords) + 1 /\ B = Len(digitWords) - digitNode
      <4>1. digitNode + 1 \in Nat /\ Len(digitWords) + 1 \in Nat /\ Len(digitWords) - digitNode \in Nat
        BY <1>1
      <4> QED BY <4>1, Zenon
    <3>2. Len(ap) = A /\ Len(c) = B /\ A + B = N
      <4>1. Len(ap) = A /\ Len(c) = B
        BY <1>4, <1>6, <3>1, Zenon
      <4>2. A + B = N
        BY <1>1, <3>1
      <4> QED BY <4>1, <4>2
    <3>3. PICK x \in Seq(Word) : x = ap \o c
      BY <2>1, Zenon
    <3>4. Len(x) = N /\ \A k \in 1..N : x[k] = IF k <= A THEN ap[k] ELSE c[k - A]
      BY <2>1, <3>2, <3>3, Zenon
    <3> QED BY <3>1, <3>3, <3>4, Zenon
  <2>3. ASSUME NEW k \in 1..(digitNode + 1) PROVE x[k] = ap[k]
    <3>1. k \in 1..N /\ k <= A
      BY <1>1, <2>2
    <3> QED BY <2>2, <3>1
  <2>4. ASSUME NEW k \in 1..(Len(digitWords) - digitNode) PROVE x[digitNode + 1 + k] = c[k]
    <3>1. /\ digitNode + 1 + k \in 1..N /\ ~(digitNode + 1 + k <= A)
          /\ (digitNode + 1 + k) - A = k
      BY <1>1, <2>2
    <3> QED BY <2>2, <3>1
  <2> QED BY <2>2, <2>3, <2>4, Zenon
<1>8. list = digitWords'
  BY <1>2, <1>3, <1>4, <1>5, <1>6, <1>7, Zenon
<1>9. digitNode' = digitNode + 1 + 1
  BY <1>1, <1>2
<1>10. list[digitNode] = said /\ list[digitNode + 1] = word /\ \A k \in 1..(digitNode - 1) : list[k] = digitWords[k]
  <2>1. /\ digitNode \in 1..(digitNode + 1) /\ digitNode + 1 \in 1..(digitNode + 1)
        /\ \A k \in 1..(digitNode - 1) : k \in 1..(digitNode + 1)
    BY <1>1
  <2> QED BY <1>6, <1>7, <2>1
<1>11. ASSUME NEW k \in (digitNode + 1)..Len(digitWords) PROVE list[k + 1] = digitWords[k]
  <2>1. /\ k - digitNode \in 1..(Len(digitWords) - digitNode) /\ digitNode + 1 + (k - digitNode) = k + 1
        /\ digitNode + (k - digitNode) = k
    BY <1>1
  <2>2. list[digitNode + 1 + (k - digitNode)] = c[k - digitNode] /\ c[k - digitNode] = digitWords[digitNode + (k - digitNode)]
    BY <1>4, <1>7, <2>1
  <2> QED BY <2>1, <2>2, Zenon
<1> QED BY <1>2, <1>7, <1>8, <1>9, <1>10, <1>11 DEF Reads

LEMMA OnesReads ==
  ASSUME NumberInv, DigitsInv', Ones
  PROVE  NumberInv'
<1> DEFINE w == digitWords[digitNode]
           said == IF Digit = 0 THEN Silenced(w) ELSE w
<1>1. /\ digitPc = "numeral" /\ digitNode <= last /\ digitIndex = 0 /\ s' = s
      /\ have' = 0 /\ place' = place - 1 /\ digitIndex' = 3 /\ UNCHANGED history
  BY DEF Ones
<1>2. /\ w \in Word /\ w.kind = "digit" /\ ~w.silent /\ place \in 0..MaxPlace /\ have \in {0, 1}
      /\ SaysWorth(Understood, WorthSoFar, 0, place, have) /\ Understood \in Understanding
      /\ digitNode \in Nat /\ last \in Nat /\ last + 1 - digitNode = 4 * place + 0 + 1
  <2>1. /\ w \in Word /\ w.kind = "digit" /\ ~w.silent /\ place \in 0..MaxPlace /\ have \in {0, 1}
        /\ SaysWorth(Understood, WorthSoFar, digitIndex, place, have)
        /\ digitNode \in Nat /\ last \in Nat /\ last + 1 - digitNode = 4 * place + digitIndex + 1
    BY <1>1, NumeralPlaces
  <2> QED BY <1>1, <2>1 DEF SaysWorth
<1>3. said \in Word
  BY <1>2 DEF Silenced, Word
<1>4. Hear(Understood, said) = IF w.value = 0 THEN Understood ELSE Hear(Understood, w)
  <2>1. CASE Digit = 0
    BY <1>2, <2>1, SaidSilent DEF Digit
  <2>2. CASE Digit # 0
    BY <2>2 DEF Digit
  <2> QED BY <2>1, <2>2
<1>5. SaysWorth(OnesSaid(Understood, w, place, have), 10 * WorthSoFar + w.value, 3, place - 1, 0)
  <2> HIDE DEF w
  <2> QED BY <1>2, OnesSay
<1>6. CASE place > 0 /\ (have = 1 \/ Digit # 0)
  <2>1. Follow(said, W("myriad", place))
    BY <1>6 DEF Ones
  <2>2. W("myriad", place) \in Word
    BY <1>2 DEF W, Word, Kinds, MaxPlace
  <2>3. digitNode < last
    BY <1>2, <1>6 DEF MaxPlace
  <2>4. Reads(1) /\ digitWords'[digitNode] = said /\ digitWords'[digitNode + 1] = W("myriad", place) /\ digitPc' = "numeral"
    <3> HIDE DEF said
    <3> QED BY <1>1, <1>3, <2>1, <2>2, <2>3, FollowReads
  <2>5. Understood' = Hear(Hear(Understood, said), W("myriad", place))
    <3> HIDE DEF said
    <3>1. 1 \in {0, 1}
      OBVIOUS
    <3>2. Understood' = Hear(Hear(Understood, digitWords'[digitNode]), digitWords'[digitNode + 1])
      BY <1>1, <2>4, <3>1, HeardNext
    <3> QED BY <2>4, <3>2, Zenon
  <2>6. Understood' = OnesSaid(Understood, w, place, have)
    BY <1>4, <1>6, <2>5, Zenon DEF OnesSaid, Digit
  <2>7. SaysWorth(Understood', 10 * WorthSoFar + digitWords[digitNode].value, digitIndex', place', have')
    BY <1>1, <1>5, <2>6, Zenon
  <2> HIDE DEF said, w
  <2> QED BY <1>1, <2>4, <2>7, OneMoreSaid
<1>7. CASE ~(place > 0 /\ (have = 1 \/ Digit # 0))
  <2>1. Replace(said)
    BY <1>7 DEF Ones
  <2>2. Reads(0) /\ digitWords'[digitNode] = said /\ digitPc' = "numeral"
    <3> HIDE DEF said
    <3> QED BY <1>1, <1>3, <2>1, ReplaceReads
  <2>3. Understood' = Hear(Understood, said)
    <3> HIDE DEF said
    <3>1. 0 \in {0, 1}
      OBVIOUS
    <3>2. Understood' = Hear(Understood, digitWords'[digitNode])
      BY <1>1, <2>2, <3>1, HeardNext
    <3> QED BY <2>2, <3>2, Zenon
  <2>4. Understood' = OnesSaid(Understood, w, place, have)
    BY <1>4, <1>7, <2>3, Zenon DEF OnesSaid, Digit
  <2>5. SaysWorth(Understood', 10 * WorthSoFar + digitWords[digitNode].value, digitIndex', place', have')
    BY <1>1, <1>5, <2>4, Zenon
  <2> HIDE DEF said, w
  <2> QED BY <1>1, <2>2, <2>5, OneMoreSaid
<1> QED BY <1>6, <1>7

LEMMA TensReads ==
  ASSUME NumberInv, DigitsInv', Tens
  PROVE  NumberInv'
<1> DEFINE w == digitWords[digitNode]
<1>1. /\ digitPc = "numeral" /\ digitNode <= last /\ digitIndex > 0 /\ s' = s
      /\ place' = place /\ digitIndex' = digitIndex - 1 /\ UNCHANGED history
      /\ have' = IF w.value # 0 THEN 1 ELSE have
  BY DEF Tens, Digit
<1>2. /\ w \in Word /\ w.kind = "digit" /\ ~w.silent /\ place \in 0..MaxPlace /\ have \in {0, 1}
      /\ SaysWorth(Understood, WorthSoFar, digitIndex, place, have) /\ Understood \in Understanding
      /\ digitNode \in Nat /\ last \in Nat /\ last + 1 - digitNode = 4 * place + digitIndex + 1
      /\ digitIndex \in 1..3
  <2>1. /\ w \in Word /\ w.kind = "digit" /\ ~w.silent /\ place \in 0..MaxPlace /\ have \in {0, 1}
        /\ SaysWorth(Understood, WorthSoFar, digitIndex, place, have) /\ digitIndex \in 0..3
        /\ digitNode \in Nat /\ last \in Nat /\ last + 1 - digitNode = 4 * place + digitIndex + 1
    BY <1>1, NumeralPlaces
  <2> QED BY <1>1, <2>1 DEF SaysWorth
<1>3. Silenced(w) \in Word /\ W("unit", digitIndex) \in Word
  <2>1. Silenced(w) \in Word
    BY <1>2 DEF Silenced, Word
  <2>2. W("unit", digitIndex) \in Word
    BY <1>2 DEF W, Word, Kinds
  <2> QED BY <2>1, <2>2
<1>4. SaysWorth(TensSaid(Understood, w, digitIndex), 10 * WorthSoFar + w.value, digitIndex - 1, place,
                IF w.value # 0 THEN 1 ELSE have)
  <2> HIDE DEF w
  <2> QED BY <1>2, TensSay
<1>5. SUFFICES ASSUME NEW j \in {0, 1}, Reads(j), digitPc' = "numeral",
                      Understood' = TensSaid(Understood, w, digitIndex)
               PROVE  NumberInv'
  <2>1. CASE Digit = 0
    <3>1. Replace(Silenced(w))
      BY <2>1 DEF Tens
    <3>2. Reads(0) /\ digitWords'[digitNode] = Silenced(w) /\ digitPc' = "numeral"
      <4> HIDE DEF w
      <4> QED BY <1>1, <1>3, <3>1, ReplaceReads
    <3>3. 0 \in {0, 1}
      OBVIOUS
    <3>4. Understood' = Hear(Understood, digitWords'[digitNode])
      BY <1>1, <3>2, <3>3, HeardNext
    <3>5. Hear(Understood, Silenced(w)) = Understood
      <4> HIDE DEF w
      <4> QED BY <1>2, SaidSilent
    <3>6. Understood' = TensSaid(Understood, w, digitIndex)
      BY <2>1, <3>2, <3>4, <3>5, Zenon DEF TensSaid, Digit
    <3> QED BY <1>5, <3>2, <3>3, <3>6
  <2>2. CASE Digit = 1
    <3>1. Replace(W("unit", digitIndex))
      BY <2>2 DEF Tens
    <3>2. Reads(0) /\ digitWords'[digitNode] = W("unit", digitIndex) /\ digitPc' = "numeral"
      BY <1>1, <1>3, <3>1, ReplaceReads
    <3>3. 0 \in {0, 1}
      OBVIOUS
    <3>4. Understood' = Hear(Understood, digitWords'[digitNode])
      BY <1>1, <3>2, <3>3, HeardNext
    <3>5. w.value = 1 /\ w.value # 0
      BY <2>2 DEF Digit
    <3>6. Understood' = TensSaid(Understood, w, digitIndex)
      BY <3>2, <3>4, <3>5, Zenon DEF TensSaid
    <3> QED BY <1>5, <3>2, <3>3, <3>6
  <2>3. CASE Digit # 0 /\ Digit # 1
    <3>1. Follow(w, W("unit", digitIndex))
      BY <2>3 DEF Tens
    <3>2. digitNode < last
      BY <1>2 DEF MaxPlace
    <3>3. Reads(1) /\ digitWords'[digitNode] = w /\ digitWords'[digitNode + 1] = W("unit", digitIndex) /\ digitPc' = "numeral"
      <4> HIDE DEF w
      <4> QED BY <1>1, <1>2, <1>3, <3>1, <3>2, FollowReads
    <3>4. 1 \in {0, 1}
      OBVIOUS
    <3>5. Understood' = Hear(Hear(Understood, digitWords'[digitNode]), digitWords'[digitNode + 1])
      BY <1>1, <3>3, <3>4, HeardNext
    <3>6. Understood' = TensSaid(Understood, w, digitIndex)
      BY <2>3, <3>3, <3>5, Zenon DEF TensSaid, Digit
    <3> QED BY <1>5, <3>3, <3>4, <3>6
  <2> QED BY <2>1, <2>2, <2>3
<1>6. SaysWorth(Understood', 10 * WorthSoFar + digitWords[digitNode].value, digitIndex', place', have')
  BY <1>1, <1>4, <1>5, Zenon
<1> HIDE DEF w
<1> QED BY <1>1, <1>5, <1>6, OneMoreSaid

LEMMA NumberStep == NumberInv /\ [DigitsNext]_digitVars => NumberInv'
<1> SUFFICES ASSUME NumberInv, [DigitsNext]_digitVars PROVE NumberInv'
  OBVIOUS
<1>0. DigitsInv'
  BY NextKeeps DEF NumberInv
<1>1. CASE FindRun
  BY <1>0, <1>1, FindRunReads
<1>2. CASE NoMoreRuns
  BY <1>0, <1>2, NoMoreRunsReads
<1>3. CASE SkipMark
  BY <1>0, <1>3, SkipMarkReads
<1>4. CASE ReadUntilPeriod
  BY <1>0, <1>4, UntilPeriodReads
<1>5. CASE RemoveComma
  BY <1>0, <1>5, RemoveCommaReads
<1>6. CASE PassDigit
  BY <1>0, <1>6, PassDigitReads
<1>7. CASE CommasGone
  BY <1>0, <1>7, CommasGoneReads
<1>8. CASE ReadUntilComma
  BY <1>0, <1>8, UntilCommaReads
<1>9. CASE ReadOneByOne
  BY <1>0, <1>9, OneByOneReads
<1>10. CASE Ones
  BY <1>0, <1>10, OnesReads
<1>11. CASE Tens
  BY <1>0, <1>11, TensReads
<1>12. CASE NumeralDone
  BY <1>0, <1>12, NumeralDoneReads
<1>13. CASE RestOfRun
  BY <1>0, <1>13, RestOfRunReads
<1>14. CASE UNCHANGED digitVars
  <2>1. UNCHANGED <<digitWords, digitPc, digitNode, s, e, last, digitIndex, place, have, digitText, how, number, read>>
    BY <1>14 DEF digitVars, history
  <2>2. Unread' = Unread
    BY <2>1 DEF Unread
  <2>3. NumberTyped' /\ RestOpen' /\ AllAccounted' /\ OnlyCommas' /\ HalfSaid'
    BY <2>1, <2>2 DEF NumberInv, NumberTyped, RestOpen, AllAccounted, OnlyCommas, HalfSaid, InNumber, IsComma, IsPeriod
  <2>4. NumbersRead'
    BY <2>1 DEF NumberInv, NumbersRead, SaysItsValue, EveryDigitRead, DecimalsOneByOne, IsPeriod, IsKazu
  <2> QED BY <1>0, <2>3, <2>4 DEF NumberInv
<1> QED BY <1>1, <1>2, <1>3, <1>4, <1>5, <1>6, <1>7, <1>8, <1>9, <1>10, <1>11, <1>12, <1>13, <1>14 DEF DigitsNext

\* The words the rule leaves say the numbers that are written, in a text of any
\* length: each piece that is read as a number its value, none of the digits
\* forgotten or read twice, and decimals one by one.  (njd_set_digit and
\* convert_digit_sequence with its two tables of units.)
THEOREM NumbersAreRead == DigitsSpec => []NumbersRead
<1>1. NumberInv => NumbersRead
  BY DEF NumberInv
<1> QED BY <1>1, NumberStart, NumberStep, PTL DEF DigitsSpec

-----------------------------------------------------------------------------
(* Sums of the words of a text.                                            *)

\* Sizes has the values its definition asks for.
LEMMA SumsExist ==
  ASSUME NEW list, NEW N \in Nat, N = Len(list), \A k \in 1..N : list[k].size \in Nat
  PROVE  /\ Sizes(list)[0] = 0
         /\ \A k \in 0..N : Sizes(list)[k] \in Nat
         /\ \A k \in 1..N : Sizes(list)[k] = Sizes(list)[k - 1] + list[k].size
<1> DEFINE step == [x \in Nat \X Nat |-> IF x[1] \in 1..N THEN x[2] + list[x[1]].size ELSE 0]
           Is(f) == f = [k \in 0..N |-> IF k = 0 THEN 0 ELSE f[k - 1] + list[k].size]
<1>1. step \in [Nat \X Nat -> Nat]
  OBVIOUS
<1>2. PICK g : Recurs(g, Nat, 0, step, N)
  <2>1. 0 \in Nat /\ N \in Nat
    OBVIOUS
  <2> HIDE DEF step
  <2> QED BY <1>1, <2>1, RecursionUpTo, Zenon
<1>3. g \in [0..N -> Nat] /\ g[0] = 0 /\ \A k \in 1..N : g[k] = step[<<k, g[k - 1]>>]
  <2> HIDE DEF step
  <2> QED BY <1>2 DEF Recurs
<1>4. ASSUME NEW k \in 1..N PROVE g[k] = g[k - 1] + list[k].size
  <2>1. k - 1 \in 0..N /\ k \in Nat
    OBVIOUS
  <2>2. <<k, g[k - 1]>> \in Nat \X Nat
    BY <1>3, <2>1
  <2>3. step[<<k, g[k - 1]>>] = g[k - 1] + list[k].size
    BY <2>2
  <2> QED BY <1>3, <2>3
<1> HIDE DEF step
<1>5. Is(g)
  BY <1>3, <1>4
<1> DEFINE sum == CHOOSE f : Is(f)
<1>6. Is(sum)
  BY <1>5
<1>7. Sizes(list) = sum
  BY DEF Sizes
<1> HIDE DEF sum
<1>8. sum[0] = 0 /\ \A k \in 1..N : sum[k] = sum[k - 1] + list[k].size
  BY <1>6
<1> HIDE DEF Is
<1> DEFINE P == {k \in Nat : k <= N => sum[k] \in Nat}
<1>9. P \in SUBSET Nat /\ 0 \in P
  BY <1>8
<1>10. ASSUME NEW k \in P PROVE k + 1 \in P
  <2> SUFFICES ASSUME k + 1 <= N PROVE sum[k + 1] \in Nat
    OBVIOUS
  <2>1. k + 1 \in 1..N /\ (k + 1) - 1 = k /\ k <= N
    OBVIOUS
  <2>2. sum[k] \in Nat /\ list[k + 1].size \in Nat
    BY <2>1
  <2> QED BY <1>8, <2>1, <2>2
<1>11. \A k \in 0..N : sum[k] \in Nat
  <2>1. \A k \in Nat : k \in P
    <3> HIDE DEF P
    <3> QED BY <1>9, <1>10, Induction
  <2> QED BY <2>1
<1> QED BY <1>7, <1>8, <1>11

\* Lists whose words are as long have the same sums.
LEMMA SumsAgree ==
  ASSUME NEW old, NEW new, NEW N \in Nat, N = Len(old), N = Len(new),
         \A k \in 1..N : old[k].size \in Nat /\ new[k].size = old[k].size
  PROVE  \A k \in 0..N : Sizes(new)[k] = Sizes(old)[k]
<1>1. Sizes(old)[0] = 0 /\ \A k \in 1..N : Sizes(old)[k] = Sizes(old)[k - 1] + old[k].size
  BY SumsExist, Zenon
<1>2. Sizes(new)[0] = 0 /\ \A k \in 1..N : Sizes(new)[k] = Sizes(new)[k - 1] + new[k].size
  <2>1. \A k \in 1..N : new[k].size \in Nat
    OBVIOUS
  <2> QED BY <2>1, SumsExist, Zenon
<1> DEFINE P == {k \in Nat : k <= N => Sizes(new)[k] = Sizes(old)[k]}
<1>3. P \in SUBSET Nat /\ 0 \in P
  BY <1>1, <1>2
<1>4. ASSUME NEW k \in P PROVE k + 1 \in P
  <2> SUFFICES ASSUME k + 1 <= N PROVE Sizes(new)[k + 1] = Sizes(old)[k + 1]
    OBVIOUS
  <2>1. k + 1 \in 1..N /\ (k + 1) - 1 = k /\ k <= N
    OBVIOUS
  <2> QED BY <1>1, <1>2, <2>1
<1>5. \A k \in Nat : k \in P
  <2> HIDE DEF P
  <2> QED BY <1>3, <1>4, Induction
<1> QED BY <1>5

-----------------------------------------------------------------------------
(* Words that have changed their accents only.                             *)

Alike(new, old) ==
  /\ new \in Seq(AccentWord) /\ Len(new) = Len(old)
  /\ \A k \in 1..Len(old) :
       /\ new[k].pos = old[k].pos /\ new[k].group1 = old[k].group1
       /\ new[k].chain = old[k].chain /\ new[k].size = old[k].size /\ new[k].rule = old[k].rule

WithAcc(new, old, i, v) == new = [old EXCEPT ![i].acc = v]

\* A list in which the accent of one word is set.
LEMMA AccSet ==
  ASSUME NEW old \in Seq(AccentWord), NEW i \in 1..Len(old), NEW v \in Nat,
         NEW new, WithAcc(new, old, i, v)
  PROVE  /\ Alike(new, old) /\ new[i].acc = v
         /\ \A k \in 1..Len(old) : k # i => new[k] = old[k]
<1>1. PICK N \in Nat : N = Len(old)
  OBVIOUS
<1>2. \A k \in 1..N : old[k] \in AccentWord
  BY <1>1, ElementOfSeq
<1>3. PICK w : w = [old[i] EXCEPT !.acc = v]
  OBVIOUS
<1>4. /\ w \in AccentWord /\ w.acc = v
      /\ w.pos = old[i].pos /\ w.group1 = old[i].group1
      /\ w.chain = old[i].chain /\ w.size = old[i].size /\ w.rule = old[i].rule
  BY <1>1, <1>2, <1>3 DEF AccentWord
<1>5. new = [old EXCEPT ![i] = w]
  BY <1>3 DEF WithAcc
<1>6. new \in Seq(AccentWord) /\ Len(new) = N /\ new[i] = w /\ \A k \in 1..N : k # i => new[k] = old[k]
  <2> HIDE DEF AccentWord
  <2> QED BY <1>1, <1>4, <1>5
<1>7. \A k \in 1..N : /\ new[k].pos = old[k].pos /\ new[k].group1 = old[k].group1
                      /\ new[k].chain = old[k].chain /\ new[k].size = old[k].size
                      /\ new[k].rule = old[k].rule
  BY <1>4, <1>6
<1> QED BY <1>1, <1>4, <1>6, <1>7 DEF Alike

\* Two changes of accents are one.
LEMMA AlikeTwice ==
  ASSUME NEW a, NEW b, NEW c, Alike(b, a), Alike(c, b)
  PROVE  Alike(c, a)
BY DEF Alike

-----------------------------------------------------------------------------
(* The accents of phrases.                                                 *)

EndsAt(list, i, j) ==
  /\ \A k \in (i + 1)..j : list[k].chain = 1
  /\ j = Len(list) \/ list[j + 1].chain # 1

\* The accent of the phrase that opens with word i is in it.
Settled(list, i) ==
  \E j \in i..Len(list) : EndsAt(list, i, j) /\ list[i].acc <= Sizes(list)[j] - Sizes(list)[i - 1]

OpensIn(list, i) == i = 1 \/ list[i].chain # 1

\* All phrases before word n have their accents in them.
SettledBefore(list, n) == \A i \in 1..(n - 1) : OpensIn(list, i) => Settled(list, i)

\* The phrase of word top reaches to word n, and its accent is in it so far.
Reaches(list, first, n, count) ==
  /\ first \in 1..n /\ OpensIn(list, first)
  /\ \A k \in (first + 1)..n : list[k].chain = 1
  /\ count = Sizes(list)[n] - Sizes(list)[first - 1]
  /\ list[first].acc <= count

\* What is done to the words from n on leaves the phrases before n settled.
LEMMA StaysSettled ==
  ASSUME NEW old \in Seq(AccentWord), NEW new, Alike(new, old), NEW n \in 1..(Len(old) + 1),
         \A i \in 1..(n - 1) : new[i].acc = old[i].acc, SettledBefore(old, n)
  PROVE  SettledBefore(new, n)
<1>1. PICK N \in Nat : N = Len(old)
  OBVIOUS
<1>2. /\ Len(new) = N
      /\ \A k \in 1..N : new[k].chain = old[k].chain /\ new[k].size = old[k].size
  BY <1>1 DEF Alike
<1>3. \A k \in 0..N : Sizes(new)[k] = Sizes(old)[k]
  <2>1. \A k \in 1..N : old[k].size \in Nat
    <3>1. \A k \in 1..N : old[k] \in AccentWord
      BY <1>1, ElementOfSeq
    <3> QED BY <3>1 DEF AccentWord
  <2> QED BY <1>1, <1>2, <2>1, SumsAgree
<1>4. ASSUME NEW i \in 1..(n - 1), OpensIn(new, i) PROVE Settled(new, i)
  <2>1. i \in 1..N /\ i - 1 \in 0..N
    BY <1>1
  <2>2. OpensIn(old, i)
    BY <1>2, <1>4, <2>1 DEF OpensIn
  <2>3. PICK j \in i..N : EndsAt(old, i, j) /\ old[i].acc <= Sizes(old)[j] - Sizes(old)[i - 1]
    BY <1>1, <2>2 DEF SettledBefore, Settled
  <2>4. EndsAt(new, i, j)
    <3>1. /\ \A k \in (i + 1)..j : k \in 1..N
          /\ j # N => j + 1 \in 1..N
      BY <2>1, <2>3
    <3> QED BY <1>1, <1>2, <2>3, <3>1 DEF EndsAt
  <2>5. new[i].acc <= Sizes(new)[j] - Sizes(new)[i - 1]
    <3>1. j \in 0..N
      BY <2>1, <2>3
    <3> QED BY <1>3, <2>1, <2>3, <3>1
  <2> QED BY <1>2, <2>3, <2>4, <2>5 DEF Settled
<1> QED BY <1>4 DEF SettledBefore

\* A phrase that ends is settled.
LEMMA EndSettles ==
  ASSUME NEW list \in Seq(AccentWord), NEW n \in 1..Len(list), NEW first, NEW count,
         Reaches(list, first, n, count), SettledBefore(list, first),
         n = Len(list) \/ list[n + 1].chain # 1
  PROVE  SettledBefore(list, n + 1)
<1>1. PICK N \in Nat : N = Len(list)
  OBVIOUS
<1>2. first \in 1..n /\ n \in 1..N
  BY <1>1 DEF Reaches
<1>3. Settled(list, first)
  <2>1. EndsAt(list, first, n)
    BY DEF Reaches, EndsAt
  <2>2. n \in first..N
    BY <1>2
  <2> QED BY <1>1, <2>1, <2>2 DEF Reaches, Settled
<1>4. ASSUME NEW i \in 1..n, OpensIn(list, i) PROVE Settled(list, i)
  <2>1. CASE i < first
    <3>1. i \in 1..(first - 1)
      BY <1>2, <2>1
    <3> QED BY <1>4, <3>1 DEF SettledBefore
  <2>2. CASE i = first
    BY <1>3, <2>2
  <2>3. CASE i > first
    <3>1. i \in (first + 1)..n /\ i # 1
      BY <1>2, <2>3
    <3>2. list[i].chain = 1
      BY <3>1 DEF Reaches
    <3> QED BY <1>4, <3>1, <3>2 DEF OpensIn
  <2> QED BY <1>2, <2>1, <2>2, <2>3
<1>5. (n + 1) - 1 = n
  BY <1>2
<1> QED BY <1>4, <1>5 DEF SettledBefore

\* The words whose accent the rules have not looked at have it in them.
Untouched(list, n) == \A i \in n..Len(list) : list[i].acc <= list[i].size

FitWords(list) == \A i \in 1..Len(list) : Fits(list[i])
SymbolsApart(list) == \A i \in 2..Len(list) : Apart(list[i - 1], list[i]) => list[i].chain # 1

AccentInv ==
  /\ accentWords \in Seq(AccentWord) /\ FitWords(accentWords) /\ SymbolsApart(accentWords)
  /\ accentPc \in {"phrase", "type", "done"} /\ moras \in Nat
  /\ accentPc = "phrase" => /\ accentNode \in 2..(Len(accentWords) + 2) /\ top = 0
                            /\ Untouched(accentWords, 1)
  /\ accentPc # "phrase" =>
       /\ accentNode \in 1..(Len(accentWords) + 1)
       /\ Untouched(accentWords, accentNode)
       /\ accentNode = 1 => top = 0
       /\ accentNode # 1 => /\ Reaches(accentWords, top, accentNode - 1, moras)
                            /\ SettledBefore(accentWords, top)
  /\ accentPc = "done" => accentNode = Len(accentWords) + 1

\* No rule looks at an accent: lists alike but for accents fit alike.
LEMMA AlikeFits ==
  ASSUME NEW old, NEW new, Alike(new, old), FitWords(old), SymbolsApart(old)
  PROVE  FitWords(new) /\ SymbolsApart(new)
<1>1. Len(new) = Len(old) /\ \A k \in 1..Len(old) :
        /\ new[k].pos = old[k].pos /\ new[k].group1 = old[k].group1
        /\ new[k].chain = old[k].chain /\ new[k].size = old[k].size /\ new[k].rule = old[k].rule
  BY DEF Alike
<1>2. FitWords(new)
  BY <1>1 DEF FitWords, Fits, IsNumeral
<1>3. SymbolsApart(new)
  <2> SUFFICES ASSUME NEW i \in 2..Len(old), Apart(new[i - 1], new[i]) PROVE new[i].chain # 1
    BY <1>1 DEF SymbolsApart
  <2>1. i \in 1..Len(old) /\ i - 1 \in 1..Len(old)
    BY <1>1 DEF Alike
  <2> QED BY <1>1, <2>1 DEF SymbolsApart, Apart
<1> QED BY <1>2, <1>3

\* The accent of the phrase stays in it when a word joins.
LEMMA ChangedFits ==
  ASSUME NEW n \in AccentWord, Fits(n), n.acc <= n.size, NEW before \in Nat,
         NEW acc \in Nat, acc <= before, NEW p \in Parts
  PROVE  /\ Changed(acc, before, n, RuleOf(n.rule, p)) \in Nat
         /\ Changed(acc, before, n, RuleOf(n.rule, p)) <= before + n.size
<1>1. PICK clause : clause = RuleOf(n.rule, p)
  OBVIOUS
<1>2. PICK size \in Nat : size = n.size
  BY DEF AccentWord
<1>3. PICK own \in Nat : own = n.acc
  BY DEF AccentWord
<1>4. clause.kind = "*" \/ (size >= 1 /\ clause.add \in Int /\ clause.add <= size)
  <2> DEFINE fits == {k \in DOMAIN n.rule : Names(p, n.rule[k].after)}
  <2>1. CASE fits = {}
    <3>1. clause = Clause("any", "*", 0)
      BY <1>1, <2>1 DEF RuleOf
    <3> QED BY <3>1 DEF Clause
  <2>2. CASE fits # {}
    <3>1. n.rule \in Seq([after : Parts \cup {"any"}, kind : STRING, add : Int])
      BY DEF AccentWord
    <3>2. PICK l \in Nat : l = Len(n.rule) /\ DOMAIN n.rule = 1..l
      BY <3>1, LenProperties
    <3>3. fits \in SUBSET (1..l) /\ 1 \in Int /\ l \in Int
      BY <3>2
    <3>4. \E k \in fits : \A o \in fits : k <= o
      <4> HIDE DEF fits
      <4> QED BY <2>2, <3>3, LeastPlace
    <3>5. PICK k \in fits : k = CHOOSE i \in fits : \A o \in fits : i <= o
      <4> HIDE DEF fits
      <4> QED BY <3>4
    <3>6. clause = n.rule[k]
      BY <1>1, <2>2, <3>5 DEF RuleOf
    <3>7. k \in DOMAIN n.rule
      OBVIOUS
    <3>8. n.rule[k] \in [after : Parts \cup {"any"}, kind : STRING, add : Int]
      BY <3>1, <3>2, <3>7, ElementOfSeq
    <3>9. clause.add \in Int
      BY <3>6, <3>8
    <3>10. clause.kind # "*" => size >= 1 /\ clause.add <= size
      BY <1>2, <3>6, <3>7 DEF Fits
    <3> QED BY <3>9, <3>10
  <2> QED BY <2>1, <2>2
<1>5. CASE clause.kind = "*"
  BY <1>1, <1>2, <1>5 DEF Changed
<1>6. CASE size >= 1 /\ clause.add \in Int /\ clause.add <= size
  <2>1. PICK moved : moved = NotNegative(before + clause.add)
    OBVIOUS
  <2>2. moved \in Nat /\ moved <= before + size
    BY <1>6, <2>1 DEF NotNegative
  <2>3. /\ before + own \in Nat /\ before + own <= before + size
        /\ before + 1 \in Nat /\ before + 1 <= before + size
        /\ before <= before + size /\ acc <= before + size /\ 0 <= before + size
    BY <1>2, <1>3, <1>6
  <2>4. Changed(acc, before, n, clause) \in {moved, before + own, before + 1, before, acc, 0}
    BY <1>3, <2>1 DEF Changed
  <2> QED BY <1>1, <1>2, <2>2, <2>3, <2>4
<1> QED BY <1>4, <1>5, <1>6

\* Nor does a digit get an accent behind its power of ten.
LEMMA DigitFits ==
  ASSUME accentWords \in Seq(AccentWord), FitWords(accentWords),
         NEW i \in 1..Len(accentWords), AfterDigit(i)
  PROVE  /\ DigitAccent(i) \in Nat
         /\ DigitAccent(i) <= accentWords[i - 1].size + accentWords[i].size
<1>1. PICK p \in AccentWord : p = accentWords[i - 1]
  <2>1. i - 1 \in 1..Len(accentWords)
    BY DEF AfterDigit
  <2> QED BY <2>1, ElementOfSeq
<1>2. PICK n \in AccentWord : n = accentWords[i]
  BY ElementOfSeq
<1>3. p.size \in Nat /\ n.size \in Nat
  BY DEF AccentWord
<1>4. p.size >= 1 /\ n.size >= 1
  <2>1. i - 1 \in 1..Len(accentWords) /\ IsNumeral(p) /\ IsNumeral(n)
    BY <1>1, <1>2 DEF AfterDigit
  <2> QED BY <1>1, <1>2, <2>1 DEF FitWords, Fits
<1>5. n.name \in Powers
  BY <1>2 DEF AfterDigit
<1>6. DigitAccent(i) \in {0, 1, 2, p.size + n.size, p.size + 1}
  BY <1>1, <1>2, <1>5 DEF DigitAccent, Powers
<1> QED BY <1>1, <1>2, <1>3, <1>4, <1>6

-----------------------------------------------------------------------------
(* Chains.                                                                 *)

\* The last rule that applies decides, and there always is one.
LEMMA VerdictGiven ==
  ASSUME NEW p, NEW n
  PROVE  ChainOf(p, n) \in {0, 1} /\ (Apart(p, n) => ChainOf(p, n) = 0)
<1>1. PICK v : v = Verdicts(p, n)
  OBVIOUS
<1>2. /\ DOMAIN v = 1..17 /\ v[1][1]
      /\ \A k \in 1..17 : v[k][2] \in {0, 1}
      /\ v[13][1] <=> "symbol" \in {p.pos, n.pos}
      /\ v[17][1] <=> n.group1 = "suffix"
      /\ v[13][2] = 0 /\ v[14][2] = 0 /\ v[15][2] = 0 /\ v[16][2] = 0
  <2>1. DOMAIN v = 1..17
    BY <1>1 DEF Verdicts
  <2>2. v[1][1] /\ (v[13][1] <=> "symbol" \in {p.pos, n.pos}) /\ (v[17][1] <=> n.group1 = "suffix")
    BY <1>1 DEF Verdicts
  <2>3. v[13][2] = 0 /\ v[14][2] = 0 /\ v[15][2] = 0 /\ v[16][2] = 0
    BY <1>1 DEF Verdicts
  <2>4. \A k \in 1..17 : v[k][2] \in {0, 1}
    BY <1>1 DEF Verdicts
  <2> QED BY <2>1, <2>2, <2>3, <2>4
<1> DEFINE applying == {k \in DOMAIN v : v[k][1]}
<1>3. \E k \in applying : \A l \in applying : l <= k
  <2>1. PICK R : R = {r \in Int \X Int : r[1] >= r[2]}
    OBVIOUS
  <2>2. \A x, y \in Int : <<x, y>> \in R <=> x >= y
    BY <2>1
  <2>3. IsFiniteSet(applying) /\ applying \subseteq Int /\ applying # {}
    <3>1. applying \subseteq 1..17 /\ 1 \in applying
      BY <1>2
    <3>2. 1 \in Int /\ 17 \in Int /\ 1..17 \subseteq Int
      OBVIOUS
    <3>3. IsFiniteSet(1..17)
      BY <3>2, FS_Interval
    <3> HIDE DEF applying
    <3> QED BY <3>1, <3>2, <3>3, FS_Subset, Zenon
  <2> HIDE DEF applying
  <2>4. /\ \A x, y \in applying : <<x, y>> \in R \/ <<y, x>> \in R
        /\ \A x, y, z \in applying : <<x, y>> \in R /\ <<y, z>> \in R => <<x, z>> \in R
    BY <2>2, <2>3
  <2>5. \E k \in applying : \A l \in applying : <<k, l>> \in R
    BY <2>3, <2>4, FirstExists
  <2> QED BY <2>2, <2>3, <2>5
<1>4. PICK k \in applying : k = (CHOOSE i \in applying : \A l \in applying : l <= i)
                            /\ \A l \in applying : l <= k
  <2> HIDE DEF applying
  <2> QED BY <1>3
<1>5. ChainOf(p, n) = v[k][2]
  BY <1>1, <1>4 DEF ChainOf
<1>6. k \in 1..17
  BY <1>2
<1>7. ASSUME Apart(p, n) PROVE v[k][2] = 0
  <2>1. "symbol" \in {p.pos, n.pos} /\ n.group1 # "suffix"
    BY <1>7, Zenon DEF Apart
  <2>2. 13 \in applying /\ 17 \notin applying
    BY <1>2, <2>1
  <2>3. 13 <= k /\ k # 17
    BY <1>4, <2>2
  <2>4. k \in {13, 14, 15, 16}
    BY <1>6, <2>3
  <2> QED BY <1>2, <2>4
<1> QED BY <1>2, <1>5, <1>6, <1>7

\* A word decides for itself whether it is chained; none to a symbol.
LEMMA WordIsChained ==
  ASSUME AccentInv, ChainWord
  PROVE  AccentInv'
<1>1. PICK ws \in Seq(AccentWord) : ws = accentWords
  BY DEF AccentInv
<1>2. PICK N \in Nat : N = Len(ws)
  OBVIOUS
<1>3. PICK n \in 2..N : n = accentNode
  BY <1>1, <1>2 DEF AccentInv, ChainWord
<1>4. /\ \A k \in 1..N : ws[k] \in AccentWord
      /\ n - 1 \in 1..N /\ n \in 1..N
  BY <1>2, <1>3, ElementOfSeq
<1>5. PICK verdict : verdict = ChainOf(ws[n - 1], ws[n])
  OBVIOUS
<1>6. verdict \in {0, 1} /\ (Apart(ws[n - 1], ws[n]) => verdict = 0)
  BY <1>5, VerdictGiven
<1>7. PICK w : w = [ws[n] EXCEPT !.chain = IF ws[n].chain >= 0 THEN ws[n].chain ELSE verdict]
  OBVIOUS
<1>8. /\ w \in AccentWord
      /\ w.pos = ws[n].pos /\ w.group1 = ws[n].group1 /\ w.acc = ws[n].acc
      /\ w.size = ws[n].size /\ w.rule = ws[n].rule
      /\ w.chain = IF ws[n].chain >= 0 THEN ws[n].chain ELSE verdict
  BY <1>4, <1>6, <1>7 DEF AccentWord
<1>9. PICK new : new = accentWords'
  OBVIOUS
<1>10. new = [ws EXCEPT ![n] = w]
  <2>1. CASE ws[n].chain >= 0
    <3>1. w = ws[n]
      BY <1>4, <1>7, <2>1 DEF AccentWord
    <3>2. new = ws
      BY <1>1, <1>3, <1>9, <2>1 DEF ChainWord
    <3> HIDE DEF AccentWord
    <3> QED BY <1>2, <1>4, <3>1, <3>2
  <2>2. CASE ~(ws[n].chain >= 0)
    <3>1. new = [ws EXCEPT ![n].chain = verdict]
      BY <1>1, <1>3, <1>5, <1>9, <2>2 DEF ChainWord
    <3> QED BY <1>7, <2>2, <3>1
  <2> QED BY <2>1, <2>2
<1>11. new \in Seq(AccentWord) /\ Len(new) = N /\ new[n] = w /\ \A k \in 1..N : k # n => new[k] = ws[k]
  BY <1>2, <1>4, <1>8, <1>10
<1>12. \A k \in 1..N : /\ new[k].pos = ws[k].pos /\ new[k].group1 = ws[k].group1 /\ new[k].acc = ws[k].acc
                       /\ new[k].size = ws[k].size /\ new[k].rule = ws[k].rule
  BY <1>8, <1>11
<1>13. FitWords(new)
  <2>1. FitWords(ws)
    BY <1>1 DEF AccentInv
  <2> QED BY <1>2, <1>11, <1>12, <2>1 DEF FitWords, Fits, IsNumeral
<1>14. SymbolsApart(new)
  <2>1. SymbolsApart(ws)
    BY <1>1 DEF AccentInv
  <2> SUFFICES ASSUME NEW i \in 2..N, Apart(new[i - 1], new[i]) PROVE new[i].chain # 1
    BY <1>11 DEF SymbolsApart
  <2>2. i \in 1..N /\ i - 1 \in 1..N
    OBVIOUS
  <2>3. Apart(ws[i - 1], ws[i])
    BY <1>12, <2>2 DEF Apart
  <2>4. ws[i].chain # 1
    BY <1>2, <2>1, <2>3 DEF SymbolsApart
  <2> QED BY <1>6, <1>8, <1>11, <2>2, <2>3, <2>4
<1>15. Untouched(new, 1)
  <2>1. Untouched(ws, 1)
    BY <1>1 DEF AccentInv, ChainWord
  <2> QED BY <1>2, <1>11, <1>12, <2>1 DEF Untouched
<1>16. accentPc' = "phrase" /\ accentNode' = n + 1 /\ n + 1 \in 2..(N + 2) /\ top' = 0 /\ moras' \in Nat
  BY <1>3 DEF ChainWord, AccentInv
<1> QED BY <1>9, <1>11, <1>13, <1>14, <1>15, <1>16 DEF AccentInv

\* A word opens a phrase, and its accent is its own.
LEMMA PhraseOpens ==
  ASSUME AccentInv, TypeWord, accentNode = 1 \/ accentWords[accentNode].chain # 1
  PROVE  AccentInv'
<1>1. PICK ws \in Seq(AccentWord) : ws = accentWords
  BY DEF AccentInv
<1>2. PICK N \in Nat : N = Len(ws)
  OBVIOUS
<1>3. PICK n \in 1..N : n = accentNode
  <2>1. accentPc = "type" /\ accentNode <= Len(accentWords)
    BY DEF TypeWord
  <2>2. accentNode \in 1..(Len(accentWords) + 1)
    BY <2>1, SMTT(60) DEF AccentInv
  <2> QED BY <1>1, <1>2, <2>1, <2>2, SMTT(60)
<1>4. accentPc = "type" /\ accentPc' = "type" /\ accentNode' = n + 1
  BY <1>3 DEF TypeWord
<1>5. ws[n] \in AccentWord /\ ws[n].acc \in Nat /\ ws[n].size \in Nat /\ ws[n].acc <= ws[n].size
  <2>1. ws[n] \in AccentWord
    BY <1>2, ElementOfSeq
  <2>2. Untouched(ws, n)
    BY <1>1, <1>3, <1>4 DEF AccentInv
  <2> QED BY <1>2, <2>1, <2>2 DEF AccentWord, Untouched
<1>6. ~AfterDigit(n)
  BY <1>1, <1>3 DEF AfterDigit
<1>7. PICK ruled : WithAcc(ruled, ws, n, ws[n].acc)
  BY DEF WithAcc
<1>8. Alike(ruled, ws) /\ ruled[n].acc = ws[n].acc /\ \A k \in 1..N : k # n => ruled[k] = ws[k]
  BY <1>2, <1>5, <1>7, AccSet
<1>9. PICK new : new = IF OpensWithTen(n) THEN [ruled EXCEPT ![n].acc = 0] ELSE ruled
  OBVIOUS
<1>10. /\ Alike(new, ws) /\ new[n].acc \in Nat /\ new[n].acc <= ws[n].size
       /\ \A k \in 1..N : k # n => new[k] = ws[k]
  <2>1. CASE OpensWithTen(n)
    <3>1. WithAcc(new, ruled, n, 0)
      BY <1>9, <2>1 DEF WithAcc
    <3>2. ruled \in Seq(AccentWord) /\ n \in 1..Len(ruled) /\ Len(ruled) = N
      BY <1>2, <1>8 DEF Alike
    <3>3. Alike(new, ruled) /\ new[n].acc = 0 /\ \A k \in 1..N : k # n => new[k] = ruled[k]
      BY <3>1, <3>2, AccSet
    <3>4. Alike(new, ws)
      BY <1>8, <3>3, AlikeTwice
    <3> QED BY <1>5, <1>8, <3>3, <3>4
  <2>2. CASE ~OpensWithTen(n)
    BY <1>5, <1>8, <1>9, <2>2
  <2> QED BY <2>1, <2>2
<1>11. /\ accentWords' = new /\ top' = n /\ moras' = 0 + ws[n].size
  BY <1>1, <1>3, <1>6, <1>7, <1>9 DEF TypeWord, WithAcc
<1>12. /\ new \in Seq(AccentWord) /\ Len(new) = N
       /\ \A k \in 1..N : new[k].chain = ws[k].chain /\ new[k].size = ws[k].size
  BY <1>2, <1>10 DEF Alike
<1>13. FitWords(new) /\ SymbolsApart(new)
  BY <1>1, <1>10, AlikeFits DEF AccentInv
<1>14. Untouched(new, n + 1)
  <2>1. Untouched(ws, n)
    BY <1>1, <1>3, <1>4 DEF AccentInv
  <2>2. \A i \in (n + 1)..N : i \in n..N /\ i \in 1..N /\ i # n
    OBVIOUS
  <2> QED BY <1>2, <1>10, <1>12, <2>1, <2>2 DEF Untouched
<1>15. Reaches(new, n, n, ws[n].size)
  <2>1. /\ Sizes(new)[n] = Sizes(new)[n - 1] + new[n].size /\ Sizes(new)[n - 1] \in Nat
    <3>1. \A k \in 1..N : new[k].size \in Nat
      <4>1. \A k \in 1..N : new[k] \in AccentWord
        BY <1>12, ElementOfSeq
      <4> QED BY <4>1 DEF AccentWord
    <3>2. n - 1 \in 0..N
      OBVIOUS
    <3> QED BY <1>12, <3>1, <3>2, SumsExist
  <2>2. ws[n].size = Sizes(new)[n] - Sizes(new)[n - 1]
    BY <1>5, <1>12, <2>1
  <2>3. OpensIn(new, n)
    BY <1>1, <1>3, <1>12 DEF OpensIn
  <2>4. \A k \in (n + 1)..n : new[k].chain = 1
    OBVIOUS
  <2>5. n \in 1..n
    OBVIOUS
  <2> QED BY <1>10, <2>2, <2>3, <2>4, <2>5 DEF Reaches
<1>16. SettledBefore(new, n)
  <2>1. SettledBefore(ws, n)
    <3>1. CASE n = 1
      BY <3>1 DEF SettledBefore
    <3>2. CASE n # 1
      <4>1. Reaches(ws, top, n - 1, moras) /\ SettledBefore(ws, top)
        BY <1>1, <1>3, <1>4, <3>2 DEF AccentInv
      <4>2. n - 1 \in 1..N /\ (n - 1) + 1 = n /\ ws[n].chain # 1
        BY <1>1, <1>3, <3>2
      <4>3. PICK m \in 1..N : m = n - 1
        BY <4>2
      <4>4. SettledBefore(ws, m + 1)
        BY <1>2, <4>1, <4>2, <4>3, EndSettles
      <4> QED BY <4>2, <4>3, <4>4
    <3> QED BY <3>1, <3>2
  <2>2. \A i \in 1..(n - 1) : new[i].acc = ws[i].acc
    <3>1. \A i \in 1..(n - 1) : i \in 1..N /\ i # n
      OBVIOUS
    <3> QED BY <1>10, <3>1
  <2>3. n \in 1..(N + 1)
    OBVIOUS
  <2> QED BY <1>2, <1>10, <2>1, <2>2, <2>3, StaysSettled
<1>17. moras' = ws[n].size /\ moras' \in Nat
  BY <1>5, <1>11
<1>18. /\ accentNode' \in 1..(Len(accentWords') + 1) /\ accentNode' # 1 /\ accentNode' - 1 = n
       /\ accentPc' # "phrase" /\ accentPc' # "done"
  BY <1>4, <1>11, <1>12
<1>19. /\ Reaches(accentWords', top', accentNode' - 1, moras') /\ SettledBefore(accentWords', top')
       /\ Untouched(accentWords', accentNode')
  BY <1>4, <1>11, <1>14, <1>15, <1>16, <1>17, <1>18
<1> QED BY <1>4, <1>11, <1>12, <1>13, <1>17, <1>18, <1>19 DEF AccentInv

\* A word joins the phrase.
LEMMA WordJoins ==
  ASSUME AccentInv, TypeWord, accentNode # 1, accentWords[accentNode].chain = 1
  PROVE  AccentInv'
<1>1. PICK ws \in Seq(AccentWord) : ws = accentWords
  BY DEF AccentInv
<1>2. PICK N \in Nat : N = Len(ws)
  OBVIOUS
<1>3. PICK n \in 2..N : n = accentNode
  BY <1>1, <1>2 DEF AccentInv, TypeWord
<1>4. accentPc = "type" /\ accentPc' = "type" /\ accentNode' = n + 1
  BY <1>3 DEF TypeWord
<1>5. n \in 1..N /\ n - 1 \in 1..N /\ \A k \in 1..N : ws[k] \in AccentWord
  BY <1>2, ElementOfSeq
<1>6. Reaches(ws, top, n - 1, moras) /\ SettledBefore(ws, top)
  BY <1>1, <1>3, <1>4 DEF AccentInv
<1>7. PICK first \in 1..(n - 1) : first = top
  BY <1>6 DEF Reaches
<1>8. first \in 1..N /\ first # n
  BY <1>5
<1>9. ws[n].acc \in Nat /\ ws[n].size \in Nat /\ ws[n].acc <= ws[n].size
  <2>1. Untouched(ws, n)
    BY <1>1, <1>3, <1>4 DEF AccentInv
  <2>2. ws[n].acc <= ws[n].size
    BY <1>2, <1>5, <2>1 DEF Untouched
  <2>3. ws[n] \in AccentWord
    BY <1>5
  <2>4. \A word \in AccentWord : word.acc \in Nat /\ word.size \in Nat
    BY DEF AccentWord
  <2> QED BY <2>2, <2>3, <2>4
<1>10. PICK count \in Nat : count = moras
  BY DEF AccentInv
<1>11. ws[first].acc \in Nat /\ ws[first].acc <= count
  BY <1>5, <1>6, <1>7, <1>8, <1>10 DEF Reaches, AccentWord
<1>12. PICK acc : acc = Changed(ws[first].acc, count, ws[n], RuleOf(ws[n].rule, ws[n - 1].pos))
  OBVIOUS
<1>13. acc \in Nat /\ acc <= count + ws[n].size
  <2>1. Fits(ws[n])
    BY <1>1, <1>2, <1>5 DEF AccentInv, FitWords
  <2>2. ws[n - 1].pos \in Parts
    BY <1>5 DEF AccentWord
  <2> QED BY <1>5, <1>9, <1>11, <1>12, <2>1, <2>2, ChangedFits
<1>14. PICK ruled : WithAcc(ruled, ws, first, acc)
  BY DEF WithAcc
<1>15. Alike(ruled, ws) /\ ruled[first].acc = acc /\ \A k \in 1..N : k # first => ruled[k] = ws[k]
  BY <1>2, <1>8, <1>13, <1>14, AccSet
<1>16. PICK new : new = IF AfterDigit(n) THEN [ruled EXCEPT ![n - 1].acc = DigitAccent(n)] ELSE ruled
  OBVIOUS
<1>17. \A k \in 1..N : ws[k].size \in Nat
  BY <1>5 DEF AccentWord
<1>18. /\ Sizes(ws)[n] = Sizes(ws)[n - 1] + ws[n].size
       /\ Sizes(ws)[n - 1] = Sizes(ws)[n - 2] + ws[n - 1].size
       /\ \A k \in 0..N : Sizes(ws)[k] \in Nat
  <2>1. \A k \in 1..N : Sizes(ws)[k] = Sizes(ws)[k - 1] + ws[k].size
    BY <1>2, <1>17, SumsExist
  <2>2. \A k \in 0..N : Sizes(ws)[k] \in Nat
    BY <1>2, <1>17, SumsExist
  <2>3. (n - 1) - 1 = n - 2
    OBVIOUS
  <2> QED BY <1>5, <2>1, <2>2, <2>3
<1>19. count = Sizes(ws)[n - 1] - Sizes(ws)[first - 1]
  BY <1>6, <1>7, <1>10 DEF Reaches
<1>20. /\ Alike(new, ws) /\ new[first].acc <= count + ws[n].size
       /\ \A k \in 1..N : k # first /\ k # n - 1 => new[k] = ws[k]
  <2>1. CASE AfterDigit(n)
    <3>1. DigitAccent(n) \in Nat /\ DigitAccent(n) <= ws[n - 1].size + ws[n].size
      <4>1. FitWords(ws)
        BY <1>1 DEF AccentInv
      <4> QED BY <1>1, <1>2, <1>5, <2>1, <4>1, DigitFits
    <3>2. WithAcc(new, ruled, n - 1, DigitAccent(n))
      BY <1>16, <2>1 DEF WithAcc
    <3>3. ruled \in Seq(AccentWord) /\ n - 1 \in 1..Len(ruled) /\ Len(ruled) = N
      BY <1>2, <1>5, <1>15 DEF Alike
    <3>4. /\ Alike(new, ruled) /\ new[n - 1].acc = DigitAccent(n)
          /\ \A k \in 1..N : k # n - 1 => new[k] = ruled[k]
      BY <3>1, <3>2, <3>3, AccSet, SMTT(30)
    <3>5. Alike(new, ws)
      BY <1>15, <3>4, AlikeTwice
    <3>6. CASE first = n - 1
      <4>1. count = ws[n - 1].size
        <5>1. n - 2 \in 0..N /\ first - 1 = n - 2
          BY <3>6
        <5>2. PICK a \in Nat : a = Sizes(ws)[n - 2]
          BY <1>18, <5>1
        <5>3. PICK b \in Nat : b = ws[n - 1].size
          BY <1>5, <1>17
        <5>4. count = (a + b) - a
          BY <1>18, <1>19, <5>1, <5>2, <5>3
        <5> QED BY <5>3, <5>4
      <4>2. new[first].acc <= count + ws[n].size
        BY <3>1, <3>4, <3>6, <4>1
      <4> QED BY <1>15, <3>4, <3>5, <4>2
    <3>7. CASE first # n - 1
      BY <1>8, <1>13, <1>15, <3>4, <3>5, <3>7
    <3> QED BY <3>6, <3>7
  <2>2. CASE ~AfterDigit(n)
    BY <1>13, <1>15, <1>16, <2>2
  <2> QED BY <2>1, <2>2
<1>21. accentWords' = new /\ top' = first /\ moras' = count + ws[n].size
  <2>1. ws[n].chain = 1 /\ n # 1 /\ ~OpensWithTen(n)
    BY <1>1, <1>3 DEF OpensWithTen
  <2> QED BY <1>1, <1>3, <1>7, <1>10, <1>12, <1>14, <1>16, <2>1 DEF TypeWord, WithAcc
<1>22. /\ new \in Seq(AccentWord) /\ Len(new) = N
       /\ \A k \in 1..N : new[k].chain = ws[k].chain /\ new[k].size = ws[k].size
  BY <1>2, <1>20 DEF Alike
<1>23. FitWords(new) /\ SymbolsApart(new)
  BY <1>1, <1>20, AlikeFits DEF AccentInv
<1>24. Untouched(new, n + 1)
  <2>1. Untouched(ws, n)
    BY <1>1, <1>3, <1>4 DEF AccentInv
  <2>2. \A i \in (n + 1)..N : i \in n..N /\ i \in 1..N /\ i # first /\ i # n - 1
    OBVIOUS
  <2> QED BY <1>2, <1>20, <1>22, <2>1, <2>2 DEF Untouched
<1>25. Reaches(new, first, n, count + ws[n].size)
  <2>1. \A k \in 0..N : Sizes(new)[k] = Sizes(ws)[k]
    BY <1>2, <1>17, <1>22, SumsAgree
  <2>2. count + ws[n].size = Sizes(new)[n] - Sizes(new)[first - 1]
    <3>1. n \in 0..N /\ n - 1 \in 0..N /\ first - 1 \in 0..N
      BY <1>5, <1>8
    <3>2. PICK a \in Nat : a = Sizes(ws)[n - 1]
      BY <1>18, <3>1
    <3>3. PICK b \in Nat : b = Sizes(ws)[first - 1]
      BY <1>18, <3>1
    <3>4. count + ws[n].size = (a + ws[n].size) - b
      BY <1>9, <1>19, <3>2, <3>3, SMTT(30)
    <3> QED BY <1>18, <2>1, <3>1, <3>2, <3>3, <3>4
  <2>3. OpensIn(new, first)
    BY <1>6, <1>7, <1>8, <1>22 DEF OpensIn, Reaches
  <2>4. \A k \in (first + 1)..n : new[k].chain = 1
    <3>1. ws[n].chain = 1
      BY <1>1, <1>3
    <3>2. \A k \in (first + 1)..n : k \in 1..N /\ (k = n \/ k \in (first + 1)..(n - 1))
      OBVIOUS
    <3>3. \A k \in (first + 1)..(n - 1) : ws[k].chain = 1
      BY <1>6, <1>7 DEF Reaches
    <3> QED BY <1>22, <3>1, <3>2, <3>3
  <2>5. first \in 1..n
    OBVIOUS
  <2> QED BY <1>20, <2>2, <2>3, <2>4, <2>5 DEF Reaches
<1>26. SettledBefore(new, first)
  <2>1. \A i \in 1..(first - 1) : new[i].acc = ws[i].acc
    <3>1. \A i \in 1..(first - 1) : i \in 1..N /\ i # first /\ i # n - 1
      OBVIOUS
    <3> QED BY <1>20, <3>1
  <2>2. first \in 1..(N + 1)
    OBVIOUS
  <2> QED BY <1>2, <1>6, <1>7, <1>20, <2>1, <2>2, StaysSettled
<1>27. moras' \in Nat
  BY <1>9, <1>21
<1>28. /\ accentNode' \in 1..(Len(accentWords') + 1) /\ accentNode' # 1 /\ accentNode' - 1 = n
       /\ accentPc' # "phrase" /\ accentPc' # "done"
  BY <1>4, <1>21, <1>22
<1>29. /\ Reaches(accentWords', top', accentNode' - 1, moras') /\ SettledBefore(accentWords', top')
       /\ Untouched(accentWords', accentNode')
  BY <1>4, <1>21, <1>24, <1>25, <1>26, <1>28
<1> QED BY <1>4, <1>21, <1>22, <1>23, <1>27, <1>28, <1>29 DEF AccentInv

\* Each step keeps the invariant.
LEMMA AccentInvKept ==
  ASSUME AccentInv, [AccentNext]_accentVars
  PROVE  AccentInv'
<1>1. CASE ChainWord
  BY <1>1, WordIsChained
<1>2. CASE PhrasesDone
  <2>1. accentPc = "phrase" /\ accentPc' = "type" /\ accentNode' = 1
        /\ UNCHANGED <<accentWords, top, moras>>
    BY <1>2 DEF PhrasesDone
  <2>2. Len(accentWords) \in Nat
    BY DEF AccentInv
  <2> QED BY <2>1, <2>2 DEF AccentInv
<1>3. CASE TypeWord
  <2>1. CASE accentNode = 1 \/ accentWords[accentNode].chain # 1
    BY <1>3, <2>1, PhraseOpens
  <2>2. CASE ~(accentNode = 1 \/ accentWords[accentNode].chain # 1)
    BY <1>3, <2>2, WordJoins
  <2> QED BY <2>1, <2>2
<1>4. CASE TypesDone
  <2>1. accentPc = "type" /\ accentNode > Len(accentWords) /\ accentPc' = "done"
        /\ UNCHANGED <<accentWords, accentNode, top, moras>>
    BY <1>4 DEF TypesDone
  <2>2. Len(accentWords) \in Nat /\ accentNode \in 1..(Len(accentWords) + 1)
    BY <2>1 DEF AccentInv
  <2>3. accentNode = Len(accentWords) + 1
    BY <2>1, <2>2
  <2> QED BY <2>1, <2>3 DEF AccentInv
<1>5. CASE UNCHANGED accentVars
  BY <1>5 DEF accentVars, AccentInv
<1> QED BY <1>1, <1>2, <1>3, <1>4, <1>5, Zenon DEF AccentNext

\* At the end every phrase is settled.
LEMMA SettledInPhrase ==
  ASSUME AccentInv, accentPc = "done", NEW i \in 1..Len(accentWords), Opens(i)
  PROVE  accentWords[i].acc <= MorasOf(i, LastWord(i))
<1>1. PICK ws \in Seq(AccentWord) : ws = accentWords
  BY DEF AccentInv
<1>2. PICK N \in Nat : N = Len(ws)
  OBVIOUS
<1>3. i \in 1..N /\ accentNode = N + 1 /\ N \in 1..N
  BY <1>1, <1>2 DEF AccentInv
<1>4. SettledBefore(ws, N + 1)
  <2>1. Reaches(ws, top, (N + 1) - 1, moras) /\ SettledBefore(ws, top)
    BY <1>1, <1>3 DEF AccentInv
  <2>2. (N + 1) - 1 = N
    OBVIOUS
  <2> QED BY <1>2, <1>3, <2>1, <2>2, EndSettles
<1>5. PICK j \in i..N : EndsAt(ws, i, j) /\ ws[i].acc <= Sizes(ws)[j] - Sizes(ws)[i - 1]
  <2>1. OpensIn(ws, i)
    BY <1>1 DEF Opens, OpensIn
  <2>2. i \in 1..((N + 1) - 1)
    BY <1>3
  <2> QED BY <1>2, <1>4, <2>1, <2>2 DEF SettledBefore, Settled
<1> DEFINE IsLast(x) == (\A k \in (i + 1)..x : ~Opens(k)) /\ (x = N \/ Opens(x + 1))
<1>6. \A k \in (i + 1)..(N + 1) : Opens(k) <=> ws[k].chain # 1
  BY <1>1, <1>3 DEF Opens
<1>7. IsLast(j)
  <2>1. \A k \in (i + 1)..j : k \in (i + 1)..(N + 1)
    OBVIOUS
  <2>2. j + 1 \in (i + 1)..(N + 1)
    BY <1>3
  <2> QED BY <1>2, <1>5, <1>6, <2>1, <2>2 DEF EndsAt
<1>8. ASSUME NEW x \in i..N, IsLast(x), NEW y \in i..N, IsLast(y) PROVE ~(x < y)
  <2> SUFFICES ASSUME x < y PROVE FALSE
    OBVIOUS
  <2>1. x + 1 \in (i + 1)..y /\ x # N
    BY <1>3
  <2> QED BY <1>8, <2>1
<1>9. \A x \in i..N : IsLast(x) => x = j
  <2> SUFFICES ASSUME NEW x \in i..N, IsLast(x) PROVE x = j
    OBVIOUS
  <2>1. ~(x < j) /\ ~(j < x)
    <3> HIDE DEF IsLast
    <3> QED BY <1>7, <1>8
  <2> QED BY <1>3, <2>1
<1>10. LastWord(i) = CHOOSE x \in i..N : IsLast(x)
  BY <1>1, <1>2, Zenon DEF LastWord
<1>11. LastWord(i) = j
  <2> HIDE DEF IsLast
  <2> QED BY <1>7, <1>9, <1>10
<1> QED BY <1>1, <1>5, <1>11 DEF MorasOf

\* The invariant implies the property.
LEMMA AccentInvSound ==
  ASSUME AccentInv
  PROVE  AccentsSound
<1>1. AccentTypeOK
  <2>1. Len(accentWords) \in Nat
    BY DEF AccentInv
  <2>2. top \in 0..Len(accentWords)
    <3>1. CASE accentPc = "phrase" \/ accentNode = 1
      BY <2>1, <3>1 DEF AccentInv
    <3>2. CASE ~(accentPc = "phrase" \/ accentNode = 1)
      BY <2>1, <3>2 DEF AccentInv, Reaches
    <3> QED BY <3>1, <3>2
  <2>3. accentNode \in 1..(Len(accentWords) + 2)
    BY <2>1 DEF AccentInv
  <2> QED BY <2>2, <2>3 DEF AccentInv, AccentTypeOK
<1>2. AccentInPhrase
  BY SettledInPhrase DEF AccentInPhrase
<1>3. SymbolAlone
  BY DEF AccentInv, SymbolsApart, SymbolAlone, Opens
<1> QED BY <1>1, <1>2, <1>3 DEF AccentsSound

\* The accent of every phrase falls on one of its moras or nowhere, and a pause
\* stays between phrases, for texts of any length and all rules of words and
\* numerals together, if what the dictionary says of a word fits the word.
THEOREM AccentsAreSound == WordsFit => (AccentSpec => []AccentsSound)
<1> SUFFICES ASSUME WordsFit PROVE AccentSpec => []AccentsSound
  OBVIOUS
<1>1. AccentInit => AccentInv
  <2> SUFFICES ASSUME AccentInit PROVE AccentInv
    OBVIOUS
  <2>1. accentWords \in AccentTexts /\ accentWords \in Seq(AccentWord)
    BY AccentAssumption DEF AccentInit
  <2>2. FitWords(accentWords) /\ SymbolsApart(accentWords) /\ Untouched(accentWords, 1)
    BY <2>1 DEF WordsFit, FitWords, SymbolsApart, Untouched
  <2>3. Len(accentWords) \in Nat
    BY <2>1
  <2> QED BY <2>1, <2>2, <2>3 DEF AccentInit, AccentInv
<1>2. AccentInv /\ [AccentNext]_accentVars => AccentInv'
  BY AccentInvKept
<1>3. AccentInv => AccentsSound
  BY AccentInvSound
<1> QED BY <1>1, <1>2, <1>3, PTL DEF AccentSpec

-----------------------------------------------------------------------------
(* Vowels: the words, their moras in a row, and what the text says of them. *)

\* A word as the rules leave it: only its marks may differ.
SameWord(w, v) == w.moras = v.moras /\ w.pos = v.pos /\ w.chain = v.chain /\ w.acc = v.acc

\* The words are those of the text, those ahead with their marks as well.
SameWords ==
  /\ vowelWords \in Seq(VowelWord) /\ text \in Seq(VowelWord) /\ Len(text) = Len(vowelWords)
  /\ \A w \in 1..Len(vowelWords) :
       /\ SameWord(vowelWords[w], text[w]) /\ vowelWords[w].moras # <<>>
       /\ vowelWords[w].unvoiced \subseteq 1..Len(vowelWords[w].moras)
       /\ w >= vowelNode => vowelWords[w].unvoiced = text[w].unvoiced

Pieces == [w \in 1..Len(vowelWords) |-> [k \in 1..Len(vowelWords[w].moras) |-> <<w, k>>]]

\* The moras before word w, and the place of the running mora.
Begin(w) == Len(Joint(Pieces, w - 1))
Here == Begin(vowelNode) + index

\* What the text says of each of its moras.
Line ==
  LET all == 1..Len(Places)
  IN [size |-> Len(Places),
      moras |-> [p \in all |-> MoraAt(Places[p])],
      words |-> [p \in all |-> Places[p][1]],
      counts |-> [p \in all |-> PlaceInPhrase(Places[p])],
      accents |-> [p \in all |-> text[HeadOf(Places[p][1])].acc],
      led |-> {p \in all : text[HeadOf(Places[p][1])].chain # 1},
      marked |-> {p \in all : Marked(Places[p])},
      polite |-> {p \in all : Polite(Places[p])},
      signs |-> {p \in all : MoraAt(Places[p]) \in {Pause, Ask}}]

\* The moras the window has left behind that are unvoiced.
Whispered ==
  {p \in 1..Len(Places) : IF Places[p][1] < vowelNode THEN Flagged(Places[p])
                          ELSE Places[p][1] = vowelNode /\ Places[p][2] \in buff}

-----------------------------------------------------------------------------
(* Vowels: the invariant.                                                   *)

Entry ==
  [mora : Moras \cup {Pause, Ask, "none"}, nlink : 0..Len(vowelWords), flag : {-1, 0, 1}, midx : Int, atype : Int]

Known(line, p) == p \in 1..line.size /\ line.moras[p] # "x"

\* An entry stands for the mora at place p.
Shows(line, m, p) ==
  /\ Known(line, p) /\ m.mora = line.moras[p] /\ m.nlink = line.words[p]
  /\ m.midx + 1 = line.counts[p]
  /\ p \in line.led => m.atype = line.accents[p]

\* The first n entries stand for the moras from p on; one is missing only if the
\* text ends before it or has no mora there.
Seen(line, win, p, n) ==
  \A i \in 1..n : IF win[i].mora = "none" THEN \E j \in 0..(i - 1) : ~Known(line, p + j)
                                          ELSE Shows(line, win[i], p + i - 1)

\* A mark of the dictionary is lost to the rule on polite endings only.
Keeps(line, m, p) == p \in line.marked => m.flag = Unvoiced \/ p \in line.polite \/ p \in line.signs

\* Why two moras in a row may be unvoiced.
Twice(line, p) ==
  \/ p + 1 \in line.marked /\ (p \in line.marked \/ p \in line.polite)
  \/ p \in line.marked /\ p + 1 \in line.polite

\* Rule 2 has unvoiced the word "shi" and voiced the mora behind it.
ByRule2(m, n) == m.mora = "shi" /\ ~OnAccent(m) /\ n.mora # "none" /\ n.flag = Voiced

\* Why the entries have the flags they have.
FirstGiven(line, win, p) ==
  win[1].flag = Unvoiced => p \in line.marked \/ p \in line.polite \/ ByRule2(win[1], win[2])
Succeeds(line, quiet, m, p) ==
  p - 1 \in quiet => m.flag # -1 /\ (m.flag = Unvoiced => Twice(line, p - 1))
FlagsGiven(line, quiet, win, p) ==
  /\ \A i \in 1..3 : win[i].mora # "none" => Keeps(line, win[i], p + i - 1)
  /\ \A i \in 2..3 : win[i].mora # "none" /\ win[i].flag = Unvoiced => p + i - 1 \in line.marked
  /\ win[1].mora # "none" => FirstGiven(line, win, p) /\ Succeeds(line, quiet, win[1], p)

\* The moras before place p are as the rules ask.
WellVoiced(line, quiet, p) ==
  \A q \in 1..(p - 1) :
    /\ q \in quiet /\ line.accents[q] = line.counts[q] /\ q \in line.led =>
         q \in line.marked \/ q \in line.polite
    /\ q \in line.marked => q \in quiet \/ q \in line.polite \/ q \in line.signs
    /\ q + 1 < p /\ q \in quiet /\ q + 1 \in quiet => Twice(line, q)

NoneYet == <<Nothing(0), Nothing(0), Nothing(0)>>

Walking ==
  /\ vowelNode \in 1..(Len(vowelWords) + 1) /\ index \in Nat \ {0} /\ buff \subseteq 1..(index - 1)
  /\ vowelNode > Len(vowelWords) => index = 1
  /\ vowelNode <= Len(vowelWords) => index <= Len(vowelWords[vowelNode].moras) + 1
  /\ vowelPc \in {"mora", "rules", "done", "wrong"}
  /\ vowelPc = "rules" => vowelNode <= Len(vowelWords) /\ index <= Len(vowelWords[vowelNode].moras)
  /\ vowelPc = "done" => vowelNode = Len(vowelWords) + 1

VowelsInv ==
  /\ SameWords /\ Walking
  /\ \E e1, e2, e3 \in Entry : window = <<e1, e2, e3>>
  /\ vowelPc = "mora" =>
       /\ window[3] = Nothing(0)
       /\ IF Here = 1 THEN window = NoneYet ELSE Seen(Line, window, Here, 2)
  /\ vowelPc = "rules" => window[1].mora # "none" /\ Seen(Line, window, Here, 3)
  /\ vowelPc \in {"mora", "rules"} => FlagsGiven(Line, Whispered, window, Here)
  /\ WellVoiced(Line, Whispered, Here)

-----------------------------------------------------------------------------
(* Vowels: where the moras stand.                                           *)

LaidOut ==
  /\ \A w \in 1..(Len(vowelWords) + 1) : Begin(w) \in Nat
  /\ Begin(1) = 0 /\ Begin(Len(vowelWords) + 1) = Len(Places) /\ Len(Places) \in Nat
  /\ \A w \in 1..Len(vowelWords) :
       /\ Len(vowelWords[w].moras) \in Nat \ {0}
       /\ Begin(w + 1) = Begin(w) + Len(vowelWords[w].moras)
       /\ \A k \in 1..Len(vowelWords[w].moras) :
            Begin(w) + k \in 1..Len(Places) /\ Places[Begin(w) + k] = <<w, k>>
  /\ \A p \in 1..Len(Places) :
       \E w \in 1..Len(vowelWords) : \E k \in 1..Len(vowelWords[w].moras) : p = Begin(w) + k

\* A word has its moras in a row.
LEMMA WordShape ==
  ASSUME SameWords, NEW w \in 1..Len(vowelWords)
  PROVE  /\ vowelWords[w] \in VowelWord /\ Len(vowelWords[w].moras) \in Nat \ {0}
         /\ \A k \in 1..Len(vowelWords[w].moras) : vowelWords[w].moras[k] \in Moras \cup {Pause, Ask}
<1>1. vowelWords \in Seq(VowelWord) /\ vowelWords[w].moras # <<>>
  BY DEF SameWords
<1>2. vowelWords[w] \in VowelWord
  BY <1>1, ElementOfSeq
<1>3. vowelWords[w].moras \in Seq(Moras \cup {Pause, Ask})
  <2>1. vowelWords[w].moras \in Seq(Moras) \/ vowelWords[w].moras \in {<<Pause>>, <<Ask>>}
    BY <1>2 DEF VowelWord
  <2>2. \A ms \in Seq(Moras) : ms \in Seq(Moras \cup {Pause, Ask})
    <3> HIDE DEF Moras
    <3> QED OBVIOUS
  <2>3. <<Pause>> \in Seq(Moras \cup {Pause, Ask}) /\ <<Ask>> \in Seq(Moras \cup {Pause, Ask})
    OBVIOUS
  <2> QED BY <2>1, <2>2, <2>3, Zenon
<1>4. PICK ms \in Seq(Moras \cup {Pause, Ask}) : ms = vowelWords[w].moras
  BY <1>3
<1>5. Len(ms) \in Nat /\ Len(ms) # 0 /\ \A k \in 1..Len(ms) : ms[k] \in Moras \cup {Pause, Ask}
  <2>1. Len(ms) # 0
    BY <1>1, <1>4, EmptySeq
  <2> QED BY <2>1
<1> QED BY <1>2, <1>4, <1>5

\* The moras of the words stand one word after the other, none left out.
LEMMA TextLaidOut ==
  ASSUME SameWords
  PROVE  LaidOut
<1>1. PICK gs : gs = Pieces
  OBVIOUS
<1> DEFINE Long(w) == Len(vowelWords[w].moras)
           Slots == Nat \X Nat
<1>2. PICK N \in Nat : N = Len(vowelWords)
  BY DEF SameWords
<1>3. \A w \in 1..N : Long(w) \in Nat \ {0}
  BY <1>2, WordShape
<1> HIDE DEF Long
<1>4. gs = [w \in 1..N |-> [k \in 1..Long(w) |-> <<w, k>>]]
  BY <1>1, <1>2 DEF Pieces, Long
<1>5. ASSUME NEW w \in 1..N
      PROVE  /\ gs[w] \in Seq(Slots) /\ Len(gs[w]) = Long(w)
             /\ \A k \in 1..Long(w) : gs[w][k] = <<w, k>>
  <2>1. PICK n \in Nat : n = Long(w)
    BY <1>3
  <2>2. PICK g \in [1..n -> Slots] : g = [k \in 1..n |-> <<w, k>>]
    <3>1. w \in Nat /\ \A k \in 1..n : k \in Nat
      OBVIOUS
    <3> QED BY <3>1
  <2>3. gs[w] = g /\ \A k \in 1..n : g[k] = <<w, k>>
    BY <1>4, <2>1, <2>2
  <2>4. g \in Seq(Slots) /\ Len(g) = n
    <3> HIDE DEF Slots
    <3> QED BY <2>2
  <2> QED BY <2>1, <2>3, <2>4
<1>6. gs \in Seq(Seq(Slots)) /\ Len(gs) = N
  BY <1>4, <1>5
<1> HIDE DEF Slots
<1>7. FlattenSeq(gs) = Places
  BY <1>1 DEF Places, Pieces
<1>8. /\ \A n \in 0..N : Joint(gs, n) \in Seq(Slots)
      /\ Joint(gs, 0) = <<>> /\ Joint(gs, N) = Places
      /\ \A n \in 1..N : Joint(gs, n) = Joint(gs, n - 1) \o gs[n]
  BY <1>6, <1>7, JointStep
<1>9. /\ Places \in Seq(Slots)
      /\ \A p \in 1..N : \A k \in 1..Len(gs[p]) :
              /\ Len(Joint(gs, p - 1)) + k \in 1..Len(Places)
              /\ Places[Len(Joint(gs, p - 1)) + k] = gs[p][k]
      /\ \A x \in 1..Len(Places) :
              \E p \in 1..N : \E k \in 1..Len(gs[p]) : x = Len(Joint(gs, p - 1)) + k
  <2>1. /\ FlattenSeq(gs) \in Seq(Slots)
        /\ \A p \in 1..Len(gs) : \A k \in 1..Len(gs[p]) :
                /\ Len(Joint(gs, p - 1)) + k \in 1..Len(FlattenSeq(gs))
                /\ FlattenSeq(gs)[Len(Joint(gs, p - 1)) + k] = gs[p][k]
        /\ \A x \in 1..Len(FlattenSeq(gs)) :
                \E p \in 1..Len(gs) : \E k \in 1..Len(gs[p]) : x = Len(Joint(gs, p - 1)) + k
    BY <1>6, JointPlaces
  <2> QED BY <1>6, <1>7, <2>1
<1>10. \A w \in 1..(N + 1) : Begin(w) = Len(Joint(gs, w - 1))
  BY <1>1 DEF Begin
<1>11. ASSUME NEW w \in 1..(N + 1) PROVE Begin(w) \in Nat
  <2>1. w - 1 \in 0..N
    OBVIOUS
  <2>2. PICK j \in Seq(Slots) : j = Joint(gs, w - 1)
    BY <1>8, <2>1
  <2> QED BY <1>10, <2>2
<1>12. ASSUME NEW w \in 1..N
       PROVE  Begin(w + 1) = Begin(w) + Long(w)
  <2>1. w - 1 \in 0..N /\ w \in 1..(N + 1) /\ w + 1 \in 1..(N + 1) /\ (w + 1) - 1 = w
    OBVIOUS
  <2>2. PICK j \in Seq(Slots) : j = Joint(gs, w - 1)
    BY <1>8, <2>1
  <2>3. Joint(gs, w) = j \o gs[w]
    BY <1>8, <2>2
  <2>4. PICK b \in Seq(Slots) : b = gs[w] /\ Len(b) = Long(w)
    BY <1>5
  <2>5. Len(j \o b) = Len(j) + Len(b)
    OBVIOUS
  <2> QED BY <1>10, <2>1, <2>2, <2>3, <2>4, <2>5
<1>13. ASSUME NEW w \in 1..N, NEW k \in 1..Long(w)
       PROVE  Begin(w) + k \in 1..Len(Places) /\ Places[Begin(w) + k] = <<w, k>>
  <2>1. k \in 1..Len(gs[w]) /\ w \in 1..(N + 1) /\ gs[w][k] = <<w, k>>
    BY <1>5
  <2> QED BY <1>9, <1>10, <2>1
<1>14. ASSUME NEW p \in 1..Len(Places) PROVE \E w \in 1..N : \E k \in 1..Long(w) : p = Begin(w) + k
  <2>1. PICK w \in 1..N : \E k \in 1..Len(gs[w]) : p = Len(Joint(gs, w - 1)) + k
    BY <1>9
  <2>2. Len(gs[w]) = Long(w) /\ Begin(w) = Len(Joint(gs, w - 1))
    <3>1. w \in 1..(N + 1)
      OBVIOUS
    <3> QED BY <1>5, <1>10, <3>1
  <2> QED BY <2>1, <2>2
<1>15. Begin(1) = 0 /\ Begin(N + 1) = Len(Places) /\ Len(Places) \in Nat
  <2>1. 1 \in 1..(N + 1) /\ N + 1 \in 1..(N + 1) /\ 1 - 1 = 0 /\ (N + 1) - 1 = N
    OBVIOUS
  <2> QED BY <1>8, <1>9, <1>10, <2>1
<1> QED BY <1>2, <1>3, <1>11, <1>12, <1>13, <1>14, <1>15 DEF LaidOut, Long

\* A later word begins no earlier.
LEMMA BeginGrows ==
  ASSUME LaidOut, NEW N \in Nat, N = Len(vowelWords), NEW v \in 1..(N + 1), NEW w \in v..(N + 1)
  PROVE  Begin(v) <= Begin(w)
<1> DEFINE P == {d \in Nat : v + d <= N + 1 => Begin(v) <= Begin(v + d)}
<1>1. Begin(v) \in Nat /\ v + 0 = v
  BY DEF LaidOut
<1>2. 0 \in P /\ P \in SUBSET Nat
  BY <1>1
<1>3. ASSUME NEW d \in P PROVE d + 1 \in P
  <2> SUFFICES ASSUME v + (d + 1) <= N + 1 PROVE Begin(v) <= Begin(v + (d + 1))
    OBVIOUS
  <2>1. v + d \in 1..N /\ (v + d) + 1 = v + (d + 1) /\ v + d \in 1..(N + 1)
    OBVIOUS
  <2>2. Begin(v) <= Begin(v + d)
    BY <2>1
  <2>3. Begin((v + d) + 1) = Begin(v + d) + Len(vowelWords[v + d].moras) /\ Begin(v + d) \in Nat
        /\ Len(vowelWords[v + d].moras) \in Nat
    BY <2>1 DEF LaidOut
  <2> QED BY <1>1, <2>1, <2>2, <2>3
<1>4. \A d \in Nat : d \in P
  <2> HIDE DEF P
  <2> QED BY <1>2, <1>3, Induction
<1>5. w - v \in Nat /\ v + (w - v) = w
  OBVIOUS
<1> QED BY <1>4, <1>5

\* A mora has one place.
LEMMA PositionIs ==
  ASSUME LaidOut, NEW w \in 1..Len(vowelWords), NEW k \in 1..Len(vowelWords[w].moras)
  PROVE  Position(<<w, k>>) = Begin(w) + k
<1>1. Begin(w) + k \in 1..Len(Places) /\ Places[Begin(w) + k] = <<w, k>>
  BY DEF LaidOut
<1>2. ASSUME NEW p \in 1..Len(Places), Places[p] = <<w, k>> PROVE p = Begin(w) + k
  <2>1. PICK v \in 1..Len(vowelWords) : \E l \in 1..Len(vowelWords[v].moras) : p = Begin(v) + l
    BY DEF LaidOut
  <2>2. PICK l \in 1..Len(vowelWords[v].moras) : p = Begin(v) + l
    BY <2>1
  <2>3. Places[p] = <<v, l>>
    BY <2>2 DEF LaidOut
  <2> QED BY <1>2, <2>2, <2>3
<1>3. Position(<<w, k>>) \in 1..Len(Places) /\ Places[Position(<<w, k>>)] = <<w, k>>
  BY <1>1, Zenon DEF Position
<1> QED BY <1>2, <1>3

Heads(w, h) == (h = 1 \/ text[h].chain # 1) /\ \A v \in (h + 1)..w : text[v].chain = 1

\* The word that opens a phrase is one, and the same for all its words.
LEMMA HeadIs ==
  ASSUME NEW w \in Nat \ {0}
  PROVE  /\ HeadOf(w) \in 1..w
         /\ w = 1 \/ text[w].chain # 1 => HeadOf(w) = w
         /\ w # 1 /\ text[w].chain = 1 => HeadOf(w) = HeadOf(w - 1)
<1> DEFINE P == {n \in Nat : n # 0 => \E h \in 1..n : Heads(n, h)}
<1>1. 0 \in P /\ P \in SUBSET Nat
  OBVIOUS
<1>2. ASSUME NEW n \in P PROVE n + 1 \in P
  <2>1. CASE n = 0 \/ text[n + 1].chain # 1
    <3>1. Heads(n + 1, n + 1) /\ n + 1 \in 1..(n + 1)
      BY <2>1 DEF Heads
    <3> QED BY <3>1
  <2>2. CASE n # 0 /\ text[n + 1].chain = 1
    <3>1. PICK h \in 1..n : Heads(n, h)
      BY <2>2
    <3>2. \A v \in (h + 1)..(n + 1) : v = n + 1 \/ v \in (h + 1)..n
      OBVIOUS
    <3>3. Heads(n + 1, h)
      BY <2>2, <3>1, <3>2 DEF Heads
    <3>4. h \in 1..(n + 1)
      OBVIOUS
    <3> QED BY <3>3, <3>4
  <2> QED BY <2>1, <2>2
<1>3. \A n \in Nat : n \in P
  <2> HIDE DEF P
  <2> QED BY <1>1, <1>2, Induction
<1>4. ASSUME NEW n \in Nat, NEW g \in 1..n, NEW h \in 1..n, Heads(n, g), Heads(n, h) PROVE ~(g < h)
  <2> SUFFICES ASSUME g < h PROVE FALSE
    OBVIOUS
  <2>1. h \in (g + 1)..n /\ h # 1
    OBVIOUS
  <2> QED BY <1>4, <2>1 DEF Heads
<1>5. ASSUME NEW n \in Nat, NEW g \in 1..n, NEW h \in 1..n, Heads(n, g), Heads(n, h) PROVE g = h
  <2>1. ~(g < h) /\ ~(h < g)
    BY <1>4, <1>5
  <2> QED BY <2>1
<1>6. ASSUME NEW n \in Nat \ {0} PROVE HeadOf(n) \in 1..n /\ Heads(n, HeadOf(n))
  <2>1. \E h \in 1..n : Heads(n, h)
    BY <1>3
  <2>2. HeadOf(n) = CHOOSE h \in 1..n : Heads(n, h)
    BY Zenon DEF HeadOf, Heads
  <2> QED BY <2>1, <2>2
<1>7. ASSUME w = 1 \/ text[w].chain # 1 PROVE HeadOf(w) = w
  <2>1. Heads(w, w) /\ w \in 1..w
    BY <1>7 DEF Heads
  <2> QED BY <1>5, <1>6, <2>1
<1>8. ASSUME w # 1, text[w].chain = 1 PROVE HeadOf(w) = HeadOf(w - 1)
  <2>1. w - 1 \in Nat \ {0}
    BY <1>8
  <2>2. PICK h \in 1..(w - 1) : h = HeadOf(w - 1)
    BY <1>6, <2>1
  <2>3. Heads(w - 1, h)
    BY <1>6, <2>1, <2>2
  <2>4. \A v \in (h + 1)..w : v = w \/ v \in (h + 1)..(w - 1)
    OBVIOUS
  <2>5. Heads(w, h) /\ h \in 1..w
    BY <1>8, <2>3, <2>4 DEF Heads
  <2> QED BY <1>5, <1>6, <2>2, <2>5
<1> QED BY <1>6, <1>7, <1>8

\* What the text says of the k-th mora of word w, which is at place p.
LineSays(w, k, p) ==
  /\ p \in 1..Line.size /\ Places[p] = <<w, k>>
  /\ Line.moras[p] = vowelWords[w].moras[k] /\ Line.words[p] = w
  /\ Line.counts[p] = p - Begin(HeadOf(w)) /\ Line.accents[p] = text[HeadOf(w)].acc
  /\ p \in Line.led <=> text[HeadOf(w)].chain # 1
  /\ p \in Line.marked <=> k \in text[w].unvoiced
  /\ p \in Line.polite <=> Polite(<<w, k>>)
  /\ p \in Line.signs <=> vowelWords[w].moras[k] \in {Pause, Ask}

\* The line and the words agree on every mora.
LEMMA LineAt ==
  ASSUME SameWords, LaidOut, NEW w \in 1..Len(vowelWords), NEW k \in 1..Len(vowelWords[w].moras),
         NEW p, p = Begin(w) + k
  PROVE  LineSays(w, k, p)
<1>1. p \in 1..Len(Places) /\ Places[p] = <<w, k>> /\ <<w, k>>[1] = w /\ <<w, k>>[2] = k
  BY DEF LaidOut
<1>2. text[w].moras = vowelWords[w].moras
  BY DEF SameWords, SameWord
<1>3. PlaceInPhrase(<<w, k>>) = p - Begin(HeadOf(w))
  <2>1. HeadOf(w) \in 1..w /\ w \in Nat \ {0} /\ Len(vowelWords) \in Nat
    BY HeadIs DEF SameWords
  <2>2. PICK h \in 1..Len(vowelWords) : h = HeadOf(w)
    BY <2>1
  <2>3. 1 \in 1..Len(vowelWords[h].moras) /\ Begin(h) \in Nat /\ Begin(w) \in Nat
    <3>1. Len(vowelWords[h].moras) \in Nat \ {0}
      BY DEF LaidOut
    <3>2. h \in 1..(Len(vowelWords) + 1) /\ w \in 1..(Len(vowelWords) + 1)
      BY <2>1
    <3>3. Begin(h) \in Nat /\ Begin(w) \in Nat
      BY <3>2 DEF LaidOut
    <3> QED BY <3>1, <3>3
  <2>4. Position(<<h, 1>>) = Begin(h) + 1 /\ Position(<<w, k>>) = Begin(w) + k
    BY <2>3, PositionIs
  <2>5. k \in Nat
    OBVIOUS
  <2> QED BY <1>1, <2>2, <2>3, <2>4, <2>5 DEF PlaceInPhrase
<1>4. Line.size = Len(Places)
  BY DEF Line
<1>5. Line.moras[p] = MoraAt(<<w, k>>) /\ Line.words[p] = w /\ Line.counts[p] = PlaceInPhrase(<<w, k>>)
      /\ Line.accents[p] = text[HeadOf(w)].acc
  BY <1>1 DEF Line
<1>6. p \in Line.led <=> text[HeadOf(w)].chain # 1
  BY <1>1 DEF Line
<1>7. p \in Line.marked <=> Marked(<<w, k>>)
  BY <1>1 DEF Line
<1>8. p \in Line.polite <=> Polite(<<w, k>>)
  BY <1>1 DEF Line
<1>9. p \in Line.signs <=> MoraAt(<<w, k>>) \in {Pause, Ask}
  BY <1>1 DEF Line
<1>10. MoraAt(<<w, k>>) = vowelWords[w].moras[k] /\ (Marked(<<w, k>>) <=> k \in text[w].unvoiced)
  BY <1>1, <1>2 DEF MoraAt, Marked
<1> QED BY <1>1, <1>3, <1>4, <1>5, <1>6, <1>7, <1>8, <1>9, <1>10 DEF LineSays

\* Behind the first mora of a phrase the count goes on.
LEMMA CountGoesOn ==
  ASSUME SameWords, LaidOut, NEW w \in 1..Len(vowelWords), NEW k \in 1..Len(vowelWords[w].moras),
         NEW p, p = Begin(w) + k, p > 1, k # 1 \/ text[w].chain = 1
  PROVE  /\ p - 1 \in 1..Line.size /\ Line.counts[p] = Line.counts[p - 1] + 1
         /\ Line.accents[p] = Line.accents[p - 1] /\ (p \in Line.led <=> p - 1 \in Line.led)
<1>1. PICK N \in Nat : N = Len(vowelWords)
  BY DEF SameWords
<1>2. w \in 1..N /\ w \in Nat \ {0} /\ Begin(w) \in Nat /\ p \in Nat
  <2>1. w \in 1..N /\ w \in 1..(N + 1)
    BY <1>1
  <2>2. Begin(w) \in Nat
    BY <1>1, <2>1 DEF LaidOut
  <2> QED BY <2>1, <2>2
<1>3. HeadOf(w) \in 1..w
  BY <1>2, HeadIs
<1>4. PICK h \in 1..N : h = HeadOf(w)
  BY <1>2, <1>3
<1>5. Begin(h) \in Nat
  <2>1. h \in 1..(N + 1)
    OBVIOUS
  <2> QED BY <1>1, <2>1 DEF LaidOut
<1>6. /\ Line.counts[p] = p - Begin(h) /\ Line.accents[p] = text[h].acc
      /\ p \in Line.led <=> text[h].chain # 1
  <2>1. LineSays(w, k, p)
    BY <1>4, LineAt
  <2> QED BY <1>4, <2>1 DEF LineSays
<1>7. PICK v \in 1..N : \E l \in 1..Len(vowelWords[v].moras) : p - 1 = Begin(v) + l /\ HeadOf(v) = h
  <2>1. CASE k # 1
    <3>1. k - 1 \in 1..Len(vowelWords[w].moras) /\ p - 1 = Begin(w) + (k - 1)
      <4>1. Len(vowelWords[w].moras) \in Nat
        BY <1>1, <1>2 DEF LaidOut
      <4> QED BY <1>2, <2>1, <4>1
    <3> QED BY <1>2, <1>4, <3>1
  <2>2. CASE k = 1
    <3>1. w # 1
      <4>1. Begin(1) = 0
        BY DEF LaidOut
      <4> QED BY <2>2, <4>1
    <3>2. PICK v \in 1..N : v = w - 1
      BY <1>2, <3>1
    <3>3. w = v + 1
      BY <1>2, <3>2
    <3>4. Begin(v + 1) = Begin(v) + Len(vowelWords[v].moras) /\ Len(vowelWords[v].moras) \in Nat \ {0}
      BY <1>1 DEF LaidOut
    <3>5. Begin(v) \in Nat
      <4>1. v \in 1..(N + 1)
        OBVIOUS
      <4> QED BY <1>1, <4>1 DEF LaidOut
    <3>6. p - 1 = Begin(v) + Len(vowelWords[v].moras)
      BY <1>2, <2>2, <3>3, <3>4, <3>5
    <3>7. Len(vowelWords[v].moras) \in 1..Len(vowelWords[v].moras)
      BY <3>4
    <3>8. HeadOf(v) = h
      BY <1>2, <1>4, <2>2, <3>1, <3>2, HeadIs
    <3> QED BY <3>6, <3>7, <3>8
  <2> QED BY <2>1, <2>2
<1>8. PICK l \in 1..Len(vowelWords[v].moras) : p - 1 = Begin(v) + l /\ HeadOf(v) = h
  BY <1>7
<1>9. /\ p - 1 \in 1..Line.size /\ Line.counts[p - 1] = (p - 1) - Begin(h) /\ Line.accents[p - 1] = text[h].acc
      /\ p - 1 \in Line.led <=> text[h].chain # 1
  <2>1. v \in 1..Len(vowelWords)
    BY <1>1
  <2>2. LineSays(v, l, p - 1)
    BY <1>8, <2>1, LineAt
  <2> QED BY <1>8, <2>2 DEF LineSays
<1> QED BY <1>2, <1>5, <1>6, <1>9

\* The count of the first mora of a phrase, and of the text.
LEMMA CountStarts ==
  ASSUME SameWords, LaidOut, NEW w \in 1..Len(vowelWords), NEW p, p = Begin(w) + 1
  PROVE  /\ p = 1 => Line.counts[p] = 1
         /\ text[w].chain # 1 => Line.counts[p] = 1 /\ p \in Line.led /\ Line.accents[p] = text[w].acc
<1>1. PICK N \in Nat : N = Len(vowelWords)
  BY DEF SameWords
<1>2. w \in 1..(N + 1) /\ w \in Nat \ {0}
  BY <1>1
<1>3. Begin(w) \in Nat /\ Begin(1) = 0
  BY <1>1, <1>2 DEF LaidOut
<1>4. 1 \in 1..Len(vowelWords[w].moras)
  <2>1. Len(vowelWords[w].moras) \in Nat \ {0}
    BY DEF LaidOut
  <2> QED BY <2>1
<1>5. /\ Line.counts[p] = p - Begin(HeadOf(w)) /\ Line.accents[p] = text[HeadOf(w)].acc
      /\ p \in Line.led <=> text[HeadOf(w)].chain # 1
  <2>1. LineSays(w, 1, p)
    BY <1>4, LineAt
  <2> QED BY <1>4, <2>1 DEF LineSays
<1>6. ASSUME p = 1 PROVE Line.counts[p] = 1
  <2>1. Begin(w) = 0
    BY <1>3, <1>6
  <2>2. HeadOf(w) \in 1..w
    BY <1>2, HeadIs
  <2>3. PICK h \in 1..w : h = HeadOf(w)
    BY <2>2
  <2>4. h \in 1..(N + 1) /\ w \in h..(N + 1)
    BY <1>2
  <2>5. Begin(h) <= Begin(w) /\ Begin(h) \in Nat
    <3>1. Begin(h) <= Begin(w)
      BY <1>1, <2>4, BeginGrows
    <3>2. Begin(h) \in Nat
      BY <1>1, <2>4 DEF LaidOut
    <3> QED BY <3>1, <3>2
  <2> QED BY <1>5, <1>6, <2>1, <2>3, <2>5
<1>7. ASSUME text[w].chain # 1 PROVE Line.counts[p] = 1 /\ p \in Line.led /\ Line.accents[p] = text[w].acc
  <2>1. HeadOf(w) = w
    BY <1>2, <1>7, HeadIs
  <2> QED BY <1>3, <1>5, <1>7, <2>1
<1> QED BY <1>6, <1>7

\* A word is a pause or a question if its mora is.
LEMMA SignIs ==
  ASSUME SameWords, NEW w \in 1..Len(vowelWords), NEW k \in 1..Len(vowelWords[w].moras)
  PROVE  IsSign(w) <=> vowelWords[w].moras[k] \in {Pause, Ask}
<1>1. PICK ms : ms = vowelWords[w].moras
  OBVIOUS
<1>2. ms \in Seq(Moras) \/ ms \in {<<Pause>>, <<Ask>>}
  BY <1>1, WordShape DEF VowelWord
<1>3. CASE ms \in Seq(Moras)
  <2>1. ms[k] \in Moras
    BY <1>1, <1>3, ElementOfSeq
  <2>2. ms[k] \notin {Pause, Ask}
    BY <2>1 DEF Moras, Pause, Ask
  <2>3. ms \notin {<<Pause>>, <<Ask>>}
    <3>1. ASSUME NEW x \in {Pause, Ask}, ms = <<x>> PROVE FALSE
      <4>1. k \in 1..1
        BY <1>1, <3>1
      <4>2. ms[k] = x
        BY <3>1, <4>1
      <4> QED BY <2>2, <4>2
    <3> QED BY <3>1
  <2> QED BY <1>1, <2>2, <2>3 DEF IsSign
<1>4. CASE ms \in {<<Pause>>, <<Ask>>}
  <2>1. k \in 1..1
    BY <1>1, <1>4
  <2>2. ms[k] \in {Pause, Ask}
    BY <1>4, <2>1
  <2> QED BY <1>1, <1>4, <2>2 DEF IsSign
<1> QED BY <1>2, <1>3, <1>4

Fetched(line, m, p) ==
  /\ IF m.mora = "none" THEN ~Known(line, p) ELSE Shows(line, m, p)
  /\ m.mora # "none" => Keeps(line, m, p) /\ (m.flag = Unvoiced => p \in line.marked)

\* What a place and an accent handed to get_mora_information must be.
Handed(line, p, midx, atype) ==
  Known(line, p) => IF p = 1 THEN midx = 0
                    ELSE midx = line.counts[p - 1] /\ (p - 1 \in line.led => atype = line.accents[p - 1])

\* The mora that is looked for is the one at its place, or there is none.
LEMMA FetchNothing ==
  ASSUME SameWords, LaidOut, NEW w \in 1..Len(vowelWords), NEW k \in Nat \ {0},
         NEW p, p = Begin(w) + k, NEW midx, NEW atype
  PROVE  Begin(w) \in Nat /\ Locate(w, k) = IF p <= Len(Places) THEN Places[p] ELSE <<0, 0>>
<1>1. PICK N \in Nat : N = Len(vowelWords)
  BY DEF SameWords
<1>2. Begin(w) \in Nat
  <2>1. w \in 1..(N + 1)
    BY <1>1
  <2> QED BY <1>1, <2>1 DEF LaidOut
<1>3. 1 \in 1..Len(vowelWords[w].moras)
  <2>1. Len(vowelWords[w].moras) \in Nat \ {0}
    BY DEF LaidOut
  <2> QED BY <2>1
<1>4. Position(<<w, 1>>) = Begin(w) + 1
  BY <1>3, PositionIs
<1>5. Position(<<w, 1>>) + k - 1 = p
  BY <1>2, <1>4
<1> QED BY <1>2, <1>5 DEF Locate

\* What get_mora_information finds belongs to its place, if the place and the
\* accent it is handed do.
LEMMA FetchGives ==
  ASSUME SameWords, LaidOut, NEW w \in 1..Len(vowelWords), w >= vowelNode, vowelNode \in Nat, NEW k \in Nat \ {0},
         NEW p, p = Begin(w) + k, NEW midx \in Int, NEW atype \in Int
  PROVE  /\ Fetch(w, k, midx, atype) \in Entry
         /\ Handed(Line, p, midx, atype) => Fetched(Line, Fetch(w, k, midx, atype), p)
<1>1. PICK N \in Nat : N = Len(vowelWords)
  BY DEF SameWords
<1>2. Begin(w) \in Nat /\ Locate(w, k) = IF p <= Len(Places) THEN Places[p] ELSE <<0, 0>>
  BY FetchNothing
<1>3. Line.size = Len(Places) /\ Len(Places) \in Nat /\ p \in Nat
  <2>1. Line.size = Len(Places)
    BY Zenon DEF Line
  <2>2. Len(Places) \in Nat
    BY DEF LaidOut
  <2> QED BY <1>2, <2>1, <2>2
<1>4. CASE p > Len(Places)
  <2>1. Fetch(w, k, midx, atype) = Nothing(0)
    <3>1. Locate(w, k) = <<0, 0>>
      BY <1>2, <1>3, <1>4
    <3>2. Locate(w, k)[1] = 0
      BY <3>1
    <3> QED BY <3>2, Zenon DEF Fetch
  <2>2. Nothing(0) \in Entry /\ Nothing(0).mora = "none"
    BY <1>1 DEF Nothing, Entry
  <2>3. ~Known(Line, p)
    BY <1>3, <1>4 DEF Known
  <2> QED BY <2>1, <2>2, <2>3, SMTT(60) DEF Fetched
<1>5. CASE p <= Len(Places)
  <2>1. p \in 1..Len(Places)
    BY <1>2, <1>3, <1>5
  <2>2. PICK v \in 1..N : \E l \in 1..Len(vowelWords[v].moras) : p = Begin(v) + l
    BY <1>1, <2>1 DEF LaidOut
  <2>3. PICK l \in 1..Len(vowelWords[v].moras) : p = Begin(v) + l
    BY <2>2
  <2>4. v \in 1..Len(vowelWords)
    BY <1>1
  <2>5. LineSays(v, l, p)
    BY <2>3, <2>4, LineAt
  <2>6. v >= vowelNode
    <3>1. CASE v < w
      <4>1. v + 1 \in 1..(N + 1) /\ w \in (v + 1)..(N + 1) /\ v \in 1..(N + 1)
        BY <1>1, <3>1
      <4>2. Begin(v + 1) <= Begin(w)
        BY <1>1, <4>1, BeginGrows
      <4>3. Begin(v + 1) = Begin(v) + Len(vowelWords[v].moras) /\ Len(vowelWords[v].moras) \in Nat
        BY <2>4 DEF LaidOut
      <4>4. Begin(v) \in Nat
        BY <1>1, <4>1 DEF LaidOut
      <4> QED BY <1>2, <2>3, <4>2, <4>3, <4>4
    <3>2. CASE ~(v < w)
      BY <3>2
    <3> QED BY <3>1, <3>2
  <2>7. vowelWords[v].unvoiced = text[v].unvoiced /\ vowelWords[v].acc = text[v].acc
        /\ vowelWords[v].chain = text[v].chain
    BY <2>4, <2>6 DEF SameWords, SameWord
  <2>8. PICK n : n = vowelWords[v]
    OBVIOUS
  <2>9. n \in VowelWord /\ n.moras[l] \in Moras \cup {Pause, Ask}
    BY <2>4, <2>8, WordShape
  <2>10. n.acc \in Int
    BY <2>9 DEF VowelWord
  <2>11. (IsSign(v) <=> n.moras[l] \in {Pause, Ask}) /\ (IsSign(v) <=> p \in Line.signs)
    BY <2>4, <2>5, <2>8, SignIs DEF LineSays
  <2> DEFINE opens == l = 1 /\ n.chain # 1
             found == [mora |-> n.moras[l], nlink |-> v,
                       flag |-> IF l \in n.unvoiced THEN Unvoiced ELSE -1,
                       midx |-> IF opens THEN 0 ELSE midx,
                       atype |-> IF opens THEN n.acc ELSE atype]
  <2>12. Locate(w, k) = <<v, l>>
    BY <1>2, <1>5, <2>5 DEF LineSays
  <2>13. <<v, l>>[1] = v /\ <<v, l>>[2] = l /\ v # 0
    OBVIOUS
  <2>14. PICK m : m = Fetch(w, k, midx, atype)
    OBVIOUS
  <2>15. m = IF IsSign(v) THEN [found EXCEPT !.flag = Voiced]
             ELSE IF n.moras[l] = "x" THEN [found EXCEPT !.mora = "none", !.flag = -1] ELSE found
    BY <2>8, <2>12, <2>13, <2>14, ZenonT(60) DEF Fetch
  <2>16. /\ m.mora = IF ~IsSign(v) /\ n.moras[l] = "x" THEN "none" ELSE n.moras[l]
         /\ m.nlink = v /\ m.midx = (IF opens THEN 0 ELSE midx) /\ m.atype = IF opens THEN n.acc ELSE atype
         /\ m.flag = IF IsSign(v) THEN 0 ELSE IF n.moras[l] = "x" THEN -1 ELSE IF l \in n.unvoiced THEN 1 ELSE -1
    BY <2>15 DEF Voiced, Unvoiced
  <2>17. m = [mora |-> m.mora, nlink |-> m.nlink, flag |-> m.flag, midx |-> m.midx, atype |-> m.atype]
    BY <2>15
  <2> HIDE DEF found
  <2>18. m \in Entry
    <3>1. m.mora \in Moras \cup {Pause, Ask, "none"} /\ m.nlink \in 0..Len(vowelWords)
      BY <1>1, <2>9, <2>16
    <3>2. m.flag \in {-1, 0, 1}
      BY <2>16
    <3>3. m.midx \in Int /\ m.atype \in Int
      BY <2>10, <2>16
    <3> QED BY <2>17, <3>1, <3>2, <3>3 DEF Entry
  <2>19. n.moras[l] # "none" /\ (IsSign(v) => n.moras[l] # "x")
    BY <2>9, <2>11 DEF Moras, Pause, Ask
  <2>20. Known(Line, p) <=> n.moras[l] # "x"
    BY <2>5, <2>8 DEF Known, LineSays
  <2>21. m.mora = "none" <=> ~Known(Line, p)
    BY <2>16, <2>19, <2>20
  <2>22. ASSUME Known(Line, p), Handed(Line, p, midx, atype)
         PROVE  m.midx + 1 = Line.counts[p] /\ (p \in Line.led => m.atype = Line.accents[p])
    <3>1. CASE opens
      <4>1. p = Begin(v) + 1 /\ text[v].chain # 1
        BY <2>3, <2>7, <2>8, <3>1
      <4>2. Line.counts[p] = 1 /\ Line.accents[p] = text[v].acc
        BY <2>4, <4>1, CountStarts
      <4> QED BY <2>7, <2>8, <2>16, <3>1, <4>2
    <3>2. CASE ~opens /\ p = 1
      <4>1. Begin(v) \in Nat
        <5>1. v \in 1..(N + 1)
          OBVIOUS
        <5> QED BY <1>1, <5>1 DEF LaidOut
      <4>2. p = Begin(v) + 1
        BY <2>3, <3>2, <4>1
      <4>3. Line.counts[p] = 1
        BY <2>4, <3>2, <4>2, CountStarts
      <4>4. v = 1
        <5>1. CASE v # 1
          <6>1. 2 \in 1..(N + 1) /\ v \in 2..(N + 1) /\ 1 \in 1..N
            BY <5>1
          <6>2. Begin(2) <= Begin(v)
            BY <1>1, <6>1, BeginGrows
          <6>3. Begin(1 + 1) = Begin(1) + Len(vowelWords[1].moras) /\ Len(vowelWords[1].moras) \in Nat \ {0}
                /\ Begin(1) = 0
            BY <1>1, <6>1 DEF LaidOut
          <6> QED BY <3>2, <4>1, <4>2, <6>2, <6>3
        <5> QED BY <5>1
      <4>5. p \notin Line.led
        <5>1. HeadOf(v) = 1 /\ l = 1
          <6>1. v \in Nat \ {0}
            BY <4>4
          <6>2. HeadOf(v) \in 1..v
            BY <6>1, HeadIs
          <6> QED BY <2>3, <4>1, <4>2, <4>4, <6>2
        <5> QED BY <2>5, <2>7, <2>8, <3>2, <4>4, <5>1 DEF LineSays
      <4>6. m.midx = 0
        BY <2>16, <2>22, <3>2 DEF Handed
      <4> QED BY <4>3, <4>5, <4>6
    <3>3. CASE ~opens /\ p # 1
      <4>1. p > 1 /\ (l # 1 \/ text[v].chain = 1)
        BY <1>3, <2>1, <2>7, <2>8, <3>3
      <4>2. /\ p - 1 \in 1..Line.size /\ Line.counts[p] = Line.counts[p - 1] + 1
            /\ Line.accents[p] = Line.accents[p - 1] /\ (p \in Line.led <=> p - 1 \in Line.led)
        BY <2>3, <2>4, <4>1, CountGoesOn
      <4>3. m.midx = Line.counts[p - 1] /\ (p - 1 \in Line.led => m.atype = Line.accents[p - 1])
        BY <2>16, <2>22, <3>3 DEF Handed
      <4> QED BY <4>2, <4>3
    <3> QED BY <3>1, <3>2, <3>3
  <2>23. Known(Line, p) /\ Handed(Line, p, midx, atype) => Shows(Line, m, p)
    BY <2>5, <2>8, <2>16, <2>19, <2>20, <2>22 DEF Shows, LineSays
  <2>24. m.mora # "none" => Keeps(Line, m, p) /\ (m.flag = Unvoiced => p \in Line.marked)
    BY <2>5, <2>7, <2>8, <2>11, <2>16, <2>20, <2>21 DEF Keeps, LineSays, Unvoiced
  <2> QED BY <2>14, <2>18, <2>21, <2>23, <2>24 DEF Fetched
<1> QED BY <1>3, <1>4, <1>5

\* Marks apart, the rules change nothing of what the text says.
LEMMA LineStays ==
  ASSUME text' = text, Len(vowelWords') = Len(vowelWords),
         \A w \in 1..Len(vowelWords) : vowelWords'[w].moras = vowelWords[w].moras
  PROVE  /\ Pieces' = Pieces /\ Places' = Places /\ Line' = Line /\ Entry' = Entry
         /\ \A w : Begin(w)' = Begin(w)
<1>1. Pieces' = Pieces
  <2>1. ASSUME NEW w \in 1..Len(vowelWords)
        PROVE  [k \in 1..Len(vowelWords'[w].moras) |-> <<w, k>>] = [k \in 1..Len(vowelWords[w].moras) |-> <<w, k>>]
    BY Zenon
  <2> QED BY <2>1 DEF Pieces
<1>2. Places' = Places
  BY <1>1, Zenon DEF Places, Pieces
<1>3. \A w : Begin(w)' = Begin(w)
  BY <1>1, Zenon DEF Begin
<1>4. \A spot : Position(spot)' = Position(spot)
  BY <1>2, Zenon DEF Position
<1>5. \A w : HeadOf(w)' = HeadOf(w)
  BY Zenon DEF HeadOf
<1>6. \A spot : PlaceInPhrase(spot)' = PlaceInPhrase(spot)
  BY <1>4, <1>5, Zenon DEF PlaceInPhrase
<1>7. \A spot : MoraAt(spot)' = MoraAt(spot) /\ (Marked(spot)' <=> Marked(spot))
  BY Zenon DEF MoraAt, Marked
<1>8. \A spot : Polite(spot)' <=> Polite(spot)
  BY <1>7, Zenon DEF Polite
<1>9. Line' = Line
  BY <1>2, <1>5, <1>6, <1>7, <1>8, Zenon DEF Line
<1>10. Entry' = Entry
  BY Zenon DEF Entry
<1> QED BY <1>1, <1>2, <1>3, <1>9, <1>10

\* An entry that is there keeps its place, one that is missing is looked up
\* where it belongs, unless the first one is missing still.
LEMMA FilledShows ==
  ASSUME VowelsInv, LaidOut, vowelPc = "mora", vowelNode <= Len(vowelWords),
         index <= Len(vowelWords[vowelNode].moras)
  PROVE  /\ \E m1, m2, m3 \in Entry : Filled = <<m1, m2, m3>>
         /\ Filled[1].mora # "none" =>
              Seen(Line, Filled, Here, 3) /\ FlagsGiven(Line, Whispered, Filled, Here)
<1>1. PICK N \in Nat : N = Len(vowelWords)
  BY DEF VowelsInv, SameWords
<1>2. PICK n \in 1..N : n = vowelNode
  BY <1>1 DEF VowelsInv, Walking
<1>3. PICK k \in Nat \ {0} : k = index
  BY DEF VowelsInv, Walking
<1>4. Begin(n) \in Nat
  <2>1. n \in 1..(N + 1)
    OBVIOUS
  <2> QED BY <1>1, <2>1 DEF LaidOut
<1>5. PICK g \in Nat \ {0} : g = Here
  <2>1. Here = Begin(n) + k
    BY <1>2, <1>3 DEF Here
  <2> QED BY <1>4, <2>1
<1>6. PICK e1 \in Entry, e2 \in Entry, e3 \in Entry : window = <<e1, e2, e3>>
  BY DEF VowelsInv
<1>7. window[1] = e1 /\ window[2] = e2 /\ window[3] = e3
  BY <1>6
<1>8. e3 = Nothing(0) /\ e3.mora = "none"
  BY <1>7 DEF VowelsInv, Nothing
<1>9. PICK line : line = Line
  OBVIOUS
<1>10. SameWords
  BY DEF VowelsInv
<1> DEFINE Size1(m) == IF m.mora = "none" THEN 0 ELSE 1
<1>11. ASSUME NEW d \in Nat, NEW midx \in Int, NEW atype \in Int
       PROVE  /\ Fetch(n, k + d, midx, atype) \in Entry
              /\ Handed(line, g + d, midx, atype) => Fetched(line, Fetch(n, k + d, midx, atype), g + d)
  <2>1. n \in 1..Len(vowelWords) /\ n >= vowelNode /\ vowelNode \in Nat /\ k + d \in Nat \ {0}
    BY <1>1, <1>2
  <2>2. g + d = Begin(n) + (k + d)
    BY <1>2, <1>3, <1>4, <1>5 DEF Here
  <2> QED BY <1>9, <1>10, <2>1, <2>2, FetchGives
<1>12. \A m \in Entry : m.midx \in Int /\ m.atype \in Int
  BY DEF Entry
<1>13. PICK m1 \in Entry : m1 = IF e1.mora = "none" THEN Fetch(n, k, e1.midx, e1.atype) ELSE e1
  <2>1. e1.midx \in Int /\ e1.atype \in Int /\ k + 0 = k /\ 0 \in Nat
    BY <1>12
  <2>2. Fetch(n, k + 0, e1.midx, e1.atype) \in Entry
    BY <1>11, <2>1
  <2> QED BY <2>1, <2>2
<1>14. PICK s1 \in Nat : s1 = Size1(m1)
  OBVIOUS
<1>15. PICK m2 \in Entry : m2 = IF e2.mora = "none" THEN Fetch(n, k + s1, m1.midx + 1, m1.atype) ELSE e2
  <2>1. m1.midx + 1 \in Int /\ m1.atype \in Int
    BY <1>12
  <2>2. Fetch(n, k + s1, m1.midx + 1, m1.atype) \in Entry
    BY <1>11, <2>1
  <2> QED BY <2>2
<1>16. PICK s2 \in Nat : s2 = Size1(m2)
  OBVIOUS
<1>17. PICK m3 \in Entry : m3 = Fetch(n, k + (s1 + s2), m2.midx + 1, m2.atype)
  <2>1. m2.midx + 1 \in Int /\ m2.atype \in Int /\ s1 + s2 \in Nat
    BY <1>12
  <2>2. Fetch(n, k + (s1 + s2), m2.midx + 1, m2.atype) \in Entry
    BY <1>11, <2>1
  <2> QED BY <2>2
<1>18. Filled = <<m1, m2, m3>>
  <2>1. k + (s1 + s2) = k + s1 + s2
    OBVIOUS
  <2> QED BY <1>2, <1>3, <1>7, <1>8, <1>13, <1>14, <1>15, <1>16, <1>17, <2>1, ZenonT(60) DEF Filled, Missing
<1> SUFFICES ASSUME m1.mora # "none"
             PROVE  Seen(line, <<m1, m2, m3>>, g, 3) /\ FlagsGiven(line, Whispered, <<m1, m2, m3>>, g)
  BY <1>5, <1>9, <1>18
<1>19. s1 = 1
  BY <1>14
\* What is known of an entry that has just been filled.
<1> DEFINE Good(m, p) == Shows(line, m, p) /\ Keeps(line, m, p)
<1>20. /\ g # 1 => IF e1.mora = "none" THEN ~Known(line, g) ELSE Shows(line, e1, g)
       /\ g # 1 /\ e2.mora # "none" => Shows(line, e2, g + 1)
       /\ g = 1 => e1 = Nothing(0) /\ e2 = Nothing(0)
  <2>1. IF g = 1 THEN window = NoneYet ELSE Seen(line, window, g, 2)
    BY <1>5, <1>9 DEF VowelsInv
  <2>2. g = 1 => e1 = Nothing(0) /\ e2 = Nothing(0)
    BY <1>7, <2>1 DEF NoneYet
  <2>3. ASSUME g # 1 PROVE IF e1.mora = "none" THEN ~Known(line, g) ELSE Shows(line, e1, g)
    <3>1. IF e1.mora = "none" THEN \E j \in 0..(1 - 1) : ~Known(line, g + j) ELSE Shows(line, e1, g + 1 - 1)
      BY <1>7, <2>1, <2>3 DEF Seen
    <3>2. g + 1 - 1 = g /\ g + 0 = g /\ \A j \in 0..(1 - 1) : j = 0
      OBVIOUS
    <3> QED BY <3>1, <3>2
  <2>4. ASSUME g # 1, e2.mora # "none" PROVE Shows(line, e2, g + 1)
    <3>1. Shows(line, e2, g + 2 - 1) /\ g + 2 - 1 = g + 1
      BY <1>7, <2>1, <2>4 DEF Seen
    <3> QED BY <3>1
  <2> QED BY <2>2, <2>3, <2>4
<1>21. /\ e1.mora # "none" => /\ Keeps(line, e1, g) /\ FirstGiven(line, window, g)
                              /\ Succeeds(line, Whispered, e1, g)
       /\ e2.mora # "none" => Keeps(line, e2, g + 1) /\ (e2.flag = Unvoiced => g + 1 \in line.marked)
  <2>1. FlagsGiven(line, Whispered, window, g) /\ g + 1 - 1 = g /\ g + 2 - 1 = g + 1
    BY <1>5, <1>9 DEF VowelsInv
  <2> QED BY <1>7, <2>1 DEF FlagsGiven
<1>22. /\ Good(m1, g) /\ FirstGiven(line, <<m1, m2, m3>>, g) /\ Succeeds(line, Whispered, m1, g)
       /\ e1.mora = "none" => e2.mora = "none"
  <2>1. CASE e1.mora = "none"
    <3>1. m1 = Fetch(n, k + 0, e1.midx, e1.atype) /\ g + 0 = g /\ k + 0 = k
      BY <1>13, <2>1
    <3>2. Handed(line, g, e1.midx, e1.atype)
      BY <1>20, <2>1 DEF Handed, Nothing
    <3>3. Fetched(line, m1, g)
      <4>1. e1.midx \in Int /\ e1.atype \in Int /\ 0 \in Nat
        BY <1>12
      <4>2. Handed(line, g + 0, e1.midx, e1.atype) => Fetched(line, Fetch(n, k + 0, e1.midx, e1.atype), g + 0)
        BY <1>11, <4>1
      <4> QED BY <3>1, <3>2, <4>2
    <3>4. Shows(line, m1, g) /\ Keeps(line, m1, g) /\ (m1.flag = Unvoiced => g \in line.marked)
      BY <3>3 DEF Fetched
    <3>5. g = 1
      BY <1>20, <2>1, <3>4 DEF Shows
    <3>6. g - 1 \notin Whispered
      BY <3>5 DEF Whispered
    <3>7. Succeeds(line, Whispered, m1, g)
      BY <3>6 DEF Succeeds
    <3>8. FirstGiven(line, <<m1, m2, m3>>, g)
      BY <3>4 DEF FirstGiven
    <3>9. e2.mora = "none"
      BY <1>20, <3>5 DEF Nothing
    <3> QED BY <3>4, <3>7, <3>8, <3>9
  <2>2. CASE e1.mora # "none"
    <3>1. m1 = e1 /\ g # 1
      BY <1>13, <1>20, <2>2 DEF Nothing
    <3>2. FirstGiven(line, <<m1, m2, m3>>, g)
      <4>1. ByRule2(e1, e2) => m2 = e2
        BY <1>15 DEF ByRule2
      <4> QED BY <1>7, <1>21, <2>2, <3>1, <4>1 DEF FirstGiven
    <3> QED BY <1>20, <1>21, <2>2, <3>1, <3>2
  <2> QED BY <2>1, <2>2
<1>23. IF m2.mora = "none" THEN ~Known(line, g + 1)
       ELSE Good(m2, g + 1) /\ (m2.flag = Unvoiced => g + 1 \in line.marked)
  <2>1. CASE e2.mora = "none"
    <3>1. m2 = Fetch(n, k + 1, m1.midx + 1, m1.atype)
      BY <1>15, <1>19, <2>1
    <3>2. m1.midx + 1 \in Int /\ m1.atype \in Int
      BY <1>12
    <3>3. Handed(line, g + 1, m1.midx + 1, m1.atype)
      <4>1. (g + 1) - 1 = g /\ g + 1 # 1
        OBVIOUS
      <4> QED BY <1>22, <4>1 DEF Handed, Shows
    <3>4. Fetched(line, m2, g + 1)
      BY <1>11, <3>1, <3>2, <3>3
    <3> QED BY <3>4 DEF Fetched
  <2>2. CASE e2.mora # "none"
    <3>1. m2 = e2 /\ g # 1
      BY <1>15, <1>20, <2>2 DEF Nothing
    <3> QED BY <1>20, <1>21, <2>2, <3>1
  <2> QED BY <2>1, <2>2
<1>24. IF m3.mora = "none" THEN ~Known(line, g + 1) \/ ~Known(line, g + 2)
       ELSE Good(m3, g + 2) /\ (m3.flag = Unvoiced => g + 2 \in line.marked)
  <2>1. m2.midx + 1 \in Int /\ m2.atype \in Int
    BY <1>12
  <2>2. CASE m2.mora = "none"
    <3>1. m3 = Fetch(n, k + 1, m2.midx + 1, m2.atype)
      BY <1>16, <1>17, <1>19, <2>2
    <3>2. ~Known(line, g + 1)
      BY <1>23, <2>2
    <3>3. Fetched(line, m3, g + 1)
      <4>1. Handed(line, g + 1, m2.midx + 1, m2.atype)
        BY <3>2 DEF Handed
      <4> QED BY <1>11, <2>1, <3>1, <4>1
    <3>4. m3.mora = "none"
      BY <3>2, <3>3 DEF Fetched, Shows
    <3> QED BY <3>2, <3>4
  <2>3. CASE m2.mora # "none"
    <3>1. m3 = Fetch(n, k + 2, m2.midx + 1, m2.atype)
      BY <1>16, <1>17, <1>19, <2>3
    <3>2. Handed(line, g + 2, m2.midx + 1, m2.atype)
      <4>1. (g + 2) - 1 = g + 1 /\ g + 2 # 1
        OBVIOUS
      <4>2. Shows(line, m2, g + 1)
        BY <1>23, <2>3
      <4> QED BY <4>1, <4>2 DEF Handed, Shows
    <3>3. Fetched(line, m3, g + 2)
      BY <1>11, <2>1, <3>1, <3>2
    <3> QED BY <3>3 DEF Fetched
  <2> QED BY <2>2, <2>3
<1> DEFINE win == <<m1, m2, m3>>
<1>25. win[1] = m1 /\ win[2] = m2 /\ win[3] = m3
  OBVIOUS
<1>26. g + 1 - 1 = g /\ g + 2 - 1 = g + 1 /\ g + 3 - 1 = g + 2
  OBVIOUS
<1> HIDE DEF win
<1>27. Seen(line, win, g, 3)
  <2>1. ASSUME NEW i \in 1..3
        PROVE IF win[i].mora = "none" THEN \E j \in 0..(i - 1) : ~Known(line, g + j)
                                      ELSE Shows(line, win[i], g + i - 1)
    <3>1. CASE i = 1
      BY <1>22, <1>25, <1>26, <3>1
    <3>2. CASE i = 2
      <4>1. 1 \in 0..(i - 1)
        BY <3>2
      <4> QED BY <1>23, <1>25, <1>26, <3>2, <4>1
    <3>3. CASE i = 3
      <4>1. 1 \in 0..(i - 1) /\ 2 \in 0..(i - 1)
        BY <3>3
      <4> QED BY <1>24, <1>25, <1>26, <3>3, <4>1
    <3> QED BY <3>1, <3>2, <3>3
  <2> QED BY <2>1 DEF Seen
<1>28. FlagsGiven(line, Whispered, win, g)
  <2>1. \A i \in 1..3 : win[i].mora # "none" => Keeps(line, win[i], g + i - 1)
    <3>1. ASSUME NEW i \in 1..3, win[i].mora # "none" PROVE Keeps(line, win[i], g + i - 1)
      BY <1>22, <1>23, <1>24, <1>25, <1>26, <3>1
    <3> QED BY <3>1
  <2>2. \A i \in 2..3 : win[i].mora # "none" /\ win[i].flag = Unvoiced => g + i - 1 \in line.marked
    BY <1>23, <1>24, <1>25, <1>26
  <2>3. FirstGiven(line, win, g) /\ Succeeds(line, Whispered, win[1], g)
    BY <1>22, <1>25 DEF win
  <2> QED BY <2>1, <2>2, <2>3 DEF FlagsGiven
<1> QED BY <1>27, <1>28 DEF win

-----------------------------------------------------------------------------
(* Vowels: what the rules do to the window.                                 *)

\* The mora at a place of the text.
LEMMA MoraOfPlace ==
  ASSUME SameWords, LaidOut, NEW p \in 1..Line.size
  PROVE  \E w \in 1..Len(vowelWords) : \E k \in 1..Len(vowelWords[w].moras) :
           p = Begin(w) + k /\ LineSays(w, k, p)
<1>1. p \in 1..Len(Places)
  BY DEF Line
<1>2. PICK w \in 1..Len(vowelWords) : \E k \in 1..Len(vowelWords[w].moras) : p = Begin(w) + k
  BY <1>1 DEF LaidOut
<1>3. PICK k \in 1..Len(vowelWords[w].moras) : p = Begin(w) + k
  BY <1>2
<1>4. LineSays(w, k, p)
  BY <1>3, LineAt
<1> QED BY <1>3, <1>4

\* The rule on polite endings finds them.
LEMMA PoliteIs ==
  ASSUME SameWords, LaidOut, NEW g \in Nat \ {0}, NEW e1 \in Entry, NEW e2 \in Entry, NEW e3 \in Entry,
         NEW win, win = <<e1, e2, e3>>, e1.mora # "none", Seen(Line, win, g, 3), PoliteEnding(win)
  PROVE  g + 1 \in Line.polite /\ g \notin Line.polite /\ e1.mora \in {"ma", "de"}
<1>1. win[1] = e1 /\ win[2] = e2 /\ win[3] = e3
  OBVIOUS
<1>2. /\ e2.mora = "su" /\ e3.mora # "none" /\ e1.nlink = e2.nlink /\ e2.nlink # e3.nlink
      /\ e1.mora \in {"ma", "de"} /\ vowelWords[e2.nlink].pos \in {"verb", "auxiliary", "interjection"}
  BY <1>1 DEF PoliteEnding, PosOf
<1>3. Shows(Line, e1, g) /\ Shows(Line, e2, g + 1) /\ Shows(Line, e3, g + 2)
  <2>1. g + 1 - 1 = g /\ g + 2 - 1 = g + 1 /\ g + 3 - 1 = g + 2
    OBVIOUS
  <2> QED BY <1>1, <1>2, <2>1 DEF Seen
<1>4. g \in 1..Line.size /\ g + 1 \in 1..Line.size /\ g + 2 \in 1..Line.size
  BY <1>3 DEF Shows, Known
<1>5. PICK v \in 1..Len(vowelWords) : \E k \in 1..Len(vowelWords[v].moras) : g = Begin(v) + k /\ LineSays(v, k, g)
  BY <1>4, MoraOfPlace
<1>6. PICK k \in 1..Len(vowelWords[v].moras) : g = Begin(v) + k /\ LineSays(v, k, g)
  BY <1>5
<1>7. PICK w \in 1..Len(vowelWords) :
        \E l \in 1..Len(vowelWords[w].moras) : g + 1 = Begin(w) + l /\ LineSays(w, l, g + 1)
  BY <1>4, MoraOfPlace
<1>8. PICK l \in 1..Len(vowelWords[w].moras) : g + 1 = Begin(w) + l /\ LineSays(w, l, g + 1)
  BY <1>7
<1>9. PICK x \in 1..Len(vowelWords) :
        \E i \in 1..Len(vowelWords[x].moras) : g + 2 = Begin(x) + i /\ LineSays(x, i, g + 2)
  BY <1>4, MoraOfPlace
<1>10. w = v /\ x # v
  <2>1. e1.nlink = v
    BY <1>3, <1>6 DEF Shows, LineSays
  <2>2. e2.nlink = w
    BY <1>3, <1>8 DEF Shows, LineSays
  <2>3. PICK i \in 1..Len(vowelWords[x].moras) : LineSays(x, i, g + 2)
    BY <1>9
  <2>4. e3.nlink = x
    BY <1>3, <2>3 DEF Shows, LineSays
  <2> QED BY <1>2, <2>1, <2>2, <2>4
<1>11. Begin(v) \in Nat /\ Len(vowelWords[v].moras) \in Nat /\ v \in 1..(Len(vowelWords) + 1)
  <2>1. v \in 1..(Len(vowelWords) + 1)
    BY DEF SameWords
  <2> QED BY <2>1 DEF LaidOut
<1>12. l = k + 1
  BY <1>6, <1>8, <1>10, <1>11
<1>13. l = Len(vowelWords[v].moras)
  <2>1. CASE l < Len(vowelWords[v].moras)
    <3>1. l + 1 \in 1..Len(vowelWords[v].moras) /\ g + 2 = Begin(v) + (l + 1)
      <4>1. PICK begin \in Nat : begin = Begin(v)
        BY <1>11
      <4>2. PICK size \in Nat : size = Len(vowelWords[v].moras)
        BY <1>11
      <4>3. g + 1 = begin + l /\ l \in 1..size /\ l < size
        BY <1>8, <1>10, <2>1, <4>1, <4>2
      <4>4. g + 2 = begin + (l + 1) /\ l + 1 \in 1..size
        BY <4>3
      <4> QED BY <4>1, <4>2, <4>4
    <3>2. LineSays(v, l + 1, g + 2)
      BY <3>1, LineAt
    <3> QED BY <1>9, <1>10, <3>2 DEF LineSays
  <2> QED BY <1>10, <1>11, <2>1
<1>14. /\ text[v].moras = vowelWords[v].moras /\ text[v].pos = vowelWords[v].pos
       /\ vowelWords[v].moras[l] = "su" /\ vowelWords[v].moras[k] = e1.mora
  BY <1>2, <1>3, <1>6, <1>8, <1>10, SMTT(60) DEF SameWords, SameWord, Shows, LineSays
<1>15. e2.nlink = v
  BY <1>3, <1>8, <1>10 DEF Shows, LineSays
<1>16. Polite(<<v, l>>)
  <2>1. <<v, l>>[1] = v /\ <<v, l>>[2] = l
    OBVIOUS
  <2>2. l > 1 /\ l - 1 = k
    BY <1>12
  <2>3. MoraAt(<<v, l>>) = "su"
    BY <1>14, <2>1 DEF MoraAt
  <2> QED BY <1>2, <1>13, <1>14, <1>15, <2>1, <2>2, <2>3 DEF Polite
<1>17. ~Polite(<<v, k>>)
  <2>1. MoraAt(<<v, k>>) = e1.mora
    BY <1>14 DEF MoraAt
  <2> QED BY <1>2, <2>1 DEF Polite
<1> QED BY <1>2, <1>6, <1>8, <1>10, <1>16, <1>17 DEF LineSays

\* The rule on the word "shi" finds one.
LEMMA ShiIs ==
  ASSUME SameWords, LaidOut, NEW p, NEW m, Shows(Line, m, p), vowelWords[m.nlink].moras = <<"shi">>
  PROVE  m.mora = "shi"
<1>1. p \in 1..Line.size /\ m.nlink = Line.words[p] /\ m.mora = Line.moras[p]
  BY DEF Shows, Known
<1>2. PICK w \in 1..Len(vowelWords) : \E k \in 1..Len(vowelWords[w].moras) : LineSays(w, k, p)
  BY <1>1, MoraOfPlace
<1>3. PICK k \in 1..Len(vowelWords[w].moras) : LineSays(w, k, p)
  BY <1>2
<1>4. vowelWords[w].moras = <<"shi">> /\ m.mora = vowelWords[w].moras[k]
  BY <1>1, <1>3 DEF LineSays
<1>5. k = 1
  BY <1>4
<1> QED BY <1>4, <1>5

\* An entry of which a rule has set the flag.
SameMora(m, old) ==
  m.mora = old.mora /\ m.nlink = old.nlink /\ m.midx = old.midx /\ m.atype = old.atype

\* A rule sets the flag of an entry and nothing else of it.
LEMMA FlagSet ==
  ASSUME NEW old \in Entry, NEW f \in {-1, 0, 1}
  PROVE  [old EXCEPT !.flag = f] \in Entry /\ SameMora([old EXCEPT !.flag = f], old) /\ [old EXCEPT !.flag = f].flag = f
BY DEF Entry, SameMora

\* A flag that is set in the window is set in its entry.
LEMMA SetInWindow ==
  ASSUME NEW e1 \in Entry, NEW e2 \in Entry, NEW e3 \in Entry, NEW f
  PROVE  /\ [<<e1, e2, e3>> EXCEPT ![1].flag = f] = <<[e1 EXCEPT !.flag = f], e2, e3>>
         /\ [<<e1, e2, e3>> EXCEPT ![2].flag = f] = <<e1, [e2 EXCEPT !.flag = f], e3>>
OBVIOUS

\* Rule 1 decides for the second mora, and for a polite ending only.
LEMMA Rule1Does ==
  ASSUME NEW e1 \in Entry, NEW e2 \in Entry, NEW e3 \in Entry, NEW win, win = <<e1, e2, e3>>
  PROVE  \E m \in Entry :
           /\ Rule1(win) = <<e1, m, e3>> /\ SameMora(m, e2)
           /\ IF PoliteEnding(win) THEN m.flag # -1 ELSE m = e2
<1>1. CASE PoliteEnding(win)
  <2>1. PICK f \in {0, 1} : Rule1(win) = [win EXCEPT ![2].flag = f]
    BY <1>1 DEF Rule1, Voiced, Unvoiced
  <2>2. Rule1(win) = <<e1, [e2 EXCEPT !.flag = f], e3>>
    BY <2>1, SetInWindow
  <2>3. f \in {-1, 0, 1}
    OBVIOUS
  <2>4. PICK m \in Entry : m = [e2 EXCEPT !.flag = f] /\ SameMora(m, e2) /\ m.flag = f
    BY <2>3, FlagSet
  <2>5. m.flag # -1
    BY <2>4
  <2> QED BY <1>1, <2>2, <2>4, <2>5
<1>2. CASE ~PoliteEnding(win)
  BY <1>2 DEF Rule1, SameMora
<1> QED BY <1>1, <1>2

\* What rule 2 does to three entries.
Rule2Done(e1, e2, e3, m1, m2, m3) ==
  /\ SameMora(m1, e1) /\ SameMora(m2, e2) /\ SameMora(m3, e3)
  /\ IF e1.flag = -1 THEN m1.flag \in {-1, 0} ELSE m1.flag = e1.flag
  /\ IF e3.flag = -1 THEN m3.flag \in {-1, 0} ELSE m3.flag = e3.flag
  /\ e2.flag # -1 => m2 = e2
  /\ e2.flag = -1 /\ m2.flag = Unvoiced => e1.flag # Unvoiced /\ m1.flag = Voiced /\ ByRule2(m2, m3)

\* Rule 2 decides for the second mora, and voices its neighbours if it is unvoiced.
LEMMA Rule2Does ==
  ASSUME NEW e1 \in Entry, NEW e2 \in Entry, NEW e3 \in Entry, NEW win, win = <<e1, e2, e3>>,
         vowelWords[e2.nlink].moras = <<"shi">> => e2.mora \in {"none", "shi"}
  PROVE  \E m1, m2, m3 \in Entry : Rule2(win) = <<m1, m2, m3>> /\ Rule2Done(e1, e2, e3, m1, m2, m3)
<1> DEFINE asked == /\ e1.flag # Unvoiced /\ e2.flag = -1 /\ e3.flag # Unvoiced
                    /\ e2.mora # "none"
                    /\ vowelWords[e2.nlink].moras = <<"shi">>
                    /\ PosOf(e2) \in {"verb", "auxiliary", "particle"}
           flag == IF OnAccent(e2) THEN Voiced ELSE Applied("shi", e3.mora)
           Hushed(m) == IF flag = Unvoiced /\ m.flag = -1 THEN [m EXCEPT !.flag = Voiced] ELSE m
<1>1. win[1] = e1 /\ win[2] = e2 /\ win[3] = e3
  OBVIOUS
<1>2. Rule2(win) = IF asked THEN <<Hushed(e1), [e2 EXCEPT !.flag = flag], Hushed(e3)>> ELSE win
  BY <1>1, Zenon DEF Rule2
<1>3. flag \in {0, 1} /\ (flag = 1 => ~OnAccent(e2) /\ e3.mora # "none")
  BY DEF Applied, Behind, Voiced, Unvoiced
<1>4. PICK f \in {0, 1} : f = flag
  BY <1>3
<1> HIDE DEF flag
<1>5. ASSUME NEW m \in Entry
      PROVE  /\ Hushed(m) \in Entry /\ SameMora(Hushed(m), m)
             /\ IF f = 1 /\ m.flag = -1 THEN Hushed(m).flag = 0 ELSE Hushed(m).flag = m.flag
  <2>1. CASE f = 1 /\ m.flag = -1
    <3>1. Hushed(m) = [m EXCEPT !.flag = 0]
      BY <1>4, <2>1 DEF Voiced, Unvoiced
    <3> QED BY <2>1, <3>1, FlagSet
  <2>2. CASE ~(f = 1 /\ m.flag = -1)
    <3>1. Hushed(m) = m
      BY <1>4, <2>2 DEF Unvoiced
    <3> QED BY <2>2, <3>1 DEF SameMora
  <2> QED BY <2>1, <2>2
<1>6. \A m \in Entry : m.flag \in {-1, 0, 1}
  BY DEF Entry
<1> HIDE DEF Hushed
<1>7. CASE ~asked
  <2>1. Rule2(win) = <<e1, e2, e3>>
    BY <1>2, <1>7
  <2>2. Rule2Done(e1, e2, e3, e1, e2, e3)
    BY <1>6 DEF Rule2Done, SameMora, Unvoiced
  <2> QED BY <2>1, <2>2
<1>8. CASE asked
  <2>1. PICK m1 \in Entry : m1 = Hushed(e1)
    BY <1>5
  <2>2. PICK m3 \in Entry : m3 = Hushed(e3)
    BY <1>5
  <2>3. PICK m2 \in Entry : m2 = [e2 EXCEPT !.flag = f]
    BY FlagSet
  <2>4. SameMora(m2, e2) /\ m2.flag = f
    BY <2>3, FlagSet
  <2>5. SameMora(m1, e1) /\ IF f = 1 /\ e1.flag = -1 THEN m1.flag = 0 ELSE m1.flag = e1.flag
    BY <1>5, <2>1
  <2>6. SameMora(m3, e3) /\ IF f = 1 /\ e3.flag = -1 THEN m3.flag = 0 ELSE m3.flag = e3.flag
    BY <1>5, <2>2
  <2>7. Rule2(win) = <<m1, m2, m3>>
    BY <1>2, <1>4, <1>8, <2>1, <2>2, <2>3
  <2>8. e1.flag \in {-1, 0} /\ e3.flag \in {-1, 0} /\ e2.flag = -1 /\ e2.mora = "shi"
    BY <1>6, <1>8 DEF Unvoiced
  <2>9. ASSUME f = 1 PROVE ByRule2(m2, m3) /\ m1.flag = 0
    <3>1. m3.flag = 0 /\ m1.flag = 0
      BY <2>5, <2>6, <2>8, <2>9
    <3>2. m2.mora = "shi" /\ m3.mora # "none" /\ ~OnAccent(m2)
      BY <1>3, <1>4, <2>4, <2>6, <2>8, <2>9 DEF SameMora, OnAccent
    <3> QED BY <3>1, <3>2 DEF ByRule2, Voiced
  <2>10. Rule2Done(e1, e2, e3, m1, m2, m3)
    BY <2>4, <2>5, <2>6, <2>8, <2>9 DEF Rule2Done, Unvoiced, Voiced
  <2> QED BY <2>7, <2>10
<1> QED BY <1>7, <1>8

\* What the other rules do to the first entry, and rule 3 to the second.
LEMMA Rule0345Does ==
  ASSUME NEW e1 \in Entry, NEW e2 \in Entry, NEW e3 \in Entry, NEW win, win = <<e1, e2, e3>>
  PROVE  \E m \in Entry :
           /\ Rule0345(win) = <<m, e2, e3>> /\ SameMora(m, e1)
           /\ e1.flag # -1 => m = e1
           /\ e1.flag = -1 /\ m.flag = Unvoiced => e2.flag # Unvoiced /\ ~OnAccent(e1)
<1>1. win[1] = e1 /\ win[2] = e2
  OBVIOUS
<1>2. CASE e1.flag # -1
  BY <1>1, <1>2 DEF Rule0345, SameMora
<1>3. CASE e1.flag = -1
  <2> DEFINE flag == IF PosOf(e1) = "filler" \/ e2.flag = Unvoiced \/ OnAccent(e1) THEN Voiced
                     ELSE Applied(e1.mora, e2.mora)
  <2>1. flag \in {-1, 0, 1} /\ (flag = 1 => e2.flag # Unvoiced /\ ~OnAccent(e1))
    BY DEF Applied, Voiced, Unvoiced
  <2>2. Rule0345(win) = [win EXCEPT ![1].flag = flag]
    BY <1>1, <1>3, Zenon DEF Rule0345
  <2>3. PICK f \in {-1, 0, 1} : f = flag
    BY <2>1
  <2> HIDE DEF flag
  <2>4. Rule0345(win) = <<[e1 EXCEPT !.flag = f], e2, e3>>
    BY <2>2, <2>3, SetInWindow
  <2>5. PICK m \in Entry : m = [e1 EXCEPT !.flag = f] /\ SameMora(m, e1) /\ m.flag = f
    BY FlagSet
  <2>6. m.flag = Unvoiced => e2.flag # Unvoiced /\ ~OnAccent(e1)
    BY <2>1, <2>3, <2>5 DEF Unvoiced
  <2> QED BY <1>3, <2>4, <2>5, <2>6
<1> QED BY <1>2, <1>3

\* The mora behind an unvoiced one is voiced, unless its flag is set.
LEMMA Behind1Does ==
  ASSUME NEW e1 \in Entry, NEW e2 \in Entry, NEW e3 \in Entry, NEW win, win = <<e1, e2, e3>>
  PROVE  \E m \in Entry :
           /\ Behind1(win) = <<e1, m, e3>> /\ SameMora(m, e2)
           /\ IF e1.flag = Unvoiced /\ e2.flag = -1 THEN m.flag = Voiced ELSE m = e2
<1>1. win[1] = e1 /\ win[2] = e2
  OBVIOUS
<1>2. CASE e1.flag = Unvoiced /\ e2.flag = -1
  <2>1. Behind1(win) = [win EXCEPT ![2].flag = 0]
    BY <1>1, <1>2 DEF Behind1, Voiced
  <2>2. Behind1(win) = <<e1, [e2 EXCEPT !.flag = 0], e3>>
    BY <2>1, SetInWindow
  <2> QED BY <1>2, <2>2, FlagSet DEF Voiced
<1>3. CASE ~(e1.flag = Unvoiced /\ e2.flag = -1)
  BY <1>1, <1>3 DEF Behind1, SameMora
<1> QED BY <1>2, <1>3

\* What the four rules together make of the window.
RuledTo(line, quiet, win, v1, v2, v3, g) ==
  /\ SameMora(v1, win[1]) /\ SameMora(v2, win[2]) /\ SameMora(v3, win[3])
  /\ v1.flag = Unvoiced => g \in line.marked \/ g \in line.polite \/ ~OnAccent(win[1])
  /\ v1.flag = Unvoiced =>
       v2.flag # -1 /\ (v2.mora # "none" /\ v2.flag = Unvoiced => Twice(line, g))
  /\ win[1].flag # -1 => v1.flag = win[1].flag
  /\ v2.mora # "none" /\ v2.flag = Unvoiced =>
       g + 1 \in line.marked \/ g + 1 \in line.polite \/ ByRule2(v2, v3)
  /\ v3.mora # "none" /\ v3.flag = Unvoiced => g + 2 \in line.marked
  /\ Keeps(line, v1, g)
  /\ v2.mora # "none" => Keeps(line, v2, g + 1)
  /\ v3.mora # "none" => Keeps(line, v3, g + 2)

\* Whatever the rules do to the window is one of the things they may.
LEMMA RuledGives ==
  ASSUME SameWords, LaidOut, NEW e1 \in Entry, NEW e2 \in Entry, NEW e3 \in Entry, window = <<e1, e2, e3>>,
         NEW g \in Nat \ {0}, e1.mora # "none", Seen(Line, window, g, 3),
         FlagsGiven(Line, Whispered, window, g)
  PROVE  \E v1, v2, v3 \in Entry :
           Ruled = <<v1, v2, v3>> /\ RuledTo(Line, Whispered, window, v1, v2, v3, g)
<1>1. PICK line : line = Line
  OBVIOUS
<1>2. window[1] = e1 /\ window[2] = e2 /\ window[3] = e3
  OBVIOUS
<1>3. g + 1 - 1 = g /\ g + 2 - 1 = g + 1 /\ g + 3 - 1 = g + 2
  OBVIOUS
<1>4. /\ Keeps(line, e1, g) /\ FirstGiven(line, window, g)
      /\ e2.mora # "none" => Keeps(line, e2, g + 1) /\ (e2.flag = Unvoiced => g + 1 \in line.marked)
      /\ e3.mora # "none" => Keeps(line, e3, g + 2) /\ (e3.flag = Unvoiced => g + 2 \in line.marked)
  BY <1>1, <1>2, <1>3 DEF FlagsGiven
<1>5. e1.flag = Unvoiced => g \in line.marked \/ g \in line.polite \/ ByRule2(e1, e2)
  BY <1>2, <1>4 DEF FirstGiven
<1>6. PoliteEnding(window) => g + 1 \in line.polite /\ g \notin line.polite /\ e1.mora \in {"ma", "de"}
  BY <1>1, PoliteIs
<1>7. PICK a2 \in Entry :
        /\ Rule1(window) = <<e1, a2, e3>> /\ SameMora(a2, e2)
        /\ IF PoliteEnding(window) THEN a2.flag # -1 ELSE a2 = e2
  BY Rule1Does
<1>8. vowelWords[a2.nlink].moras = <<"shi">> => a2.mora \in {"none", "shi"}
  <2>1. CASE e2.mora = "none"
    BY <1>7, <2>1 DEF SameMora
  <2>2. CASE e2.mora # "none"
    <3>1. Shows(Line, e2, g + 1)
      BY <1>2, <1>3, <2>2 DEF Seen
    <3> QED BY <1>7, <3>1, ShiIs DEF SameMora
  <2> QED BY <2>1, <2>2
<1>9. PICK win1 : win1 = Rule1(window)
  OBVIOUS
<1>10. \E m1, m2, m3 \in Entry : Rule2(win1) = <<m1, m2, m3>> /\ Rule2Done(e1, a2, e3, m1, m2, m3)
  BY <1>7, <1>8, <1>9, Rule2Does
<1>11. PICK b1 \in Entry, b2 \in Entry, b3 \in Entry :
         Rule2(win1) = <<b1, b2, b3>> /\ Rule2Done(e1, a2, e3, b1, b2, b3)
  BY <1>10
<1>12. PICK win2 : win2 = Rule2(win1)
  OBVIOUS
<1>13. PICK c1 \in Entry :
         /\ Rule0345(win2) = <<c1, b2, b3>> /\ SameMora(c1, b1)
         /\ b1.flag # -1 => c1 = b1
         /\ b1.flag = -1 /\ c1.flag = Unvoiced => b2.flag # Unvoiced /\ ~OnAccent(b1)
  BY <1>11, <1>12, Rule0345Does
<1>14. PICK win3 : win3 = Rule0345(win2)
  OBVIOUS
<1>15. PICK d2 \in Entry :
         /\ Behind1(win3) = <<c1, d2, b3>> /\ SameMora(d2, b2)
         /\ IF c1.flag = Unvoiced /\ b2.flag = -1 THEN d2.flag = Voiced ELSE d2 = b2
  BY <1>13, <1>14, Behind1Does
<1>16. Ruled = <<c1, d2, b3>>
  BY <1>9, <1>12, <1>14, <1>15 DEF Ruled
<1>17. \A m \in Entry : m.flag \in {-1, 0, 1}
  BY DEF Entry
<1>18. /\ SameMora(b1, e1) /\ SameMora(b2, a2) /\ SameMora(b3, e3)
       /\ IF e1.flag = -1 THEN b1.flag \in {-1, 0} ELSE b1.flag = e1.flag
       /\ IF e3.flag = -1 THEN b3.flag \in {-1, 0} ELSE b3.flag = e3.flag
       /\ a2.flag # -1 => b2 = a2
       /\ a2.flag = -1 /\ b2.flag = Unvoiced => e1.flag # Unvoiced /\ b1.flag = Voiced /\ ByRule2(b2, b3)
  BY <1>11 DEF Rule2Done
<1>19. SameMora(c1, e1) /\ SameMora(d2, e2) /\ SameMora(b3, e3)
  BY <1>7, <1>13, <1>15, <1>18 DEF SameMora
<1>20. OnAccent(b1) <=> OnAccent(e1)
  BY <1>18 DEF SameMora, OnAccent
\* Why the first entry is unvoiced.
<1>21. c1.flag = Unvoiced =>
         \/ e1.flag = Unvoiced /\ c1 = b1
         \/ b1.flag = -1 /\ b2.flag # Unvoiced /\ ~OnAccent(e1)
  BY <1>13, <1>17, <1>18, <1>20 DEF Unvoiced
<1>22. c1.flag = Unvoiced => g \in line.marked \/ g \in line.polite \/ ~OnAccent(e1)
  BY <1>5, <1>21 DEF ByRule2
<1>23. e1.flag # -1 => c1.flag = e1.flag
  BY <1>13, <1>18
<1>24. ASSUME c1.flag = Unvoiced PROVE d2.flag # -1
  BY <1>15, <1>24 DEF Voiced
<1>25. ASSUME c1.flag = Unvoiced, d2.mora # "none", d2.flag = Unvoiced PROVE Twice(line, g)
  <2>1. d2 = b2 /\ b2.flag = Unvoiced
    BY <1>15, <1>25 DEF Voiced, Unvoiced
  <2>2. e1.flag = Unvoiced
    BY <1>21, <1>25, <2>1
  <2>3. a2.flag = Unvoiced
    BY <1>17, <1>18, <2>1, <2>2 DEF Unvoiced
  <2>4. e2.mora # "none"
    BY <1>19, <1>25 DEF SameMora
  <2>5. CASE PoliteEnding(window)
    <3>1. ~ByRule2(e1, e2)
      BY <1>6, <2>5 DEF ByRule2
    <3>2. g \in line.marked /\ g + 1 \in line.polite
      BY <1>5, <1>6, <2>2, <2>5, <3>1
    <3> QED BY <3>2 DEF Twice
  <2>6. CASE ~PoliteEnding(window)
    <3>1. e2.flag = Unvoiced
      BY <1>7, <2>3, <2>6
    <3>2. ~ByRule2(e1, e2)
      BY <3>1 DEF ByRule2, Voiced, Unvoiced
    <3>3. g + 1 \in line.marked /\ (g \in line.marked \/ g \in line.polite)
      BY <1>4, <1>5, <2>2, <2>4, <3>1, <3>2
    <3> QED BY <3>3 DEF Twice
  <2> QED BY <2>5, <2>6
<1>26. ASSUME d2.mora # "none", d2.flag = Unvoiced
       PROVE  g + 1 \in line.marked \/ g + 1 \in line.polite \/ ByRule2(d2, b3)
  <2>1. d2 = b2 /\ b2.flag = Unvoiced
    BY <1>15, <1>26 DEF Voiced, Unvoiced
  <2>2. CASE a2.flag = -1
    BY <1>18, <2>1, <2>2
  <2>3. CASE a2.flag # -1
    <3>1. a2.flag = Unvoiced /\ e2.mora # "none"
      BY <1>18, <1>19, <1>26, <2>1, <2>3 DEF SameMora
    <3> QED BY <1>4, <1>6, <1>7, <3>1
  <2> QED BY <2>2, <2>3
<1>27. b3.mora # "none" /\ b3.flag = Unvoiced => g + 2 \in line.marked
  BY <1>4, <1>18 DEF SameMora, Unvoiced
<1>28. Keeps(line, c1, g)
  BY <1>4, <1>23 DEF Keeps, Unvoiced
<1>29. d2.mora # "none" => Keeps(line, d2, g + 1)
  <2> SUFFICES ASSUME d2.mora # "none", g + 1 \in line.marked, g + 1 \notin line.polite, g + 1 \notin line.signs
               PROVE  d2.flag = Unvoiced
    BY DEF Keeps
  <2>1. e2.mora # "none"
    BY <1>19 DEF SameMora
  <2>2. e2.flag = Unvoiced /\ a2 = e2
    BY <1>4, <1>6, <1>7, <2>1 DEF Keeps
  <2>3. b2 = a2
    BY <1>18, <2>2 DEF Unvoiced
  <2> QED BY <1>15, <2>2, <2>3 DEF Unvoiced
<1>30. b3.mora # "none" => Keeps(line, b3, g + 2)
  <2> SUFFICES ASSUME b3.mora # "none", g + 2 \in line.marked, g + 2 \notin line.polite, g + 2 \notin line.signs
               PROVE  b3.flag = Unvoiced
    BY DEF Keeps
  <2>1. e3.flag = Unvoiced
    BY <1>4, <1>19 DEF Keeps, SameMora
  <2> QED BY <1>18, <2>1 DEF Unvoiced
<1>31. RuledTo(line, Whispered, window, c1, d2, b3, g)
  BY <1>2, <1>19, <1>22, <1>23, <1>24, <1>25, <1>26, <1>27, <1>28, <1>29, <1>30 DEF RuledTo
<1> QED BY <1>1, <1>16, <1>31

-----------------------------------------------------------------------------
(* Vowels: the steps.                                                       *)

\* Where the walk is when it moves on neither in the text nor in its marks.
LEMMA StandsStill ==
  ASSUME SameWords, UNCHANGED <<vowelWords, vowelNode, index, buff, text>>
  PROVE  SameWords' /\ Line' = Line /\ Here' = Here /\ Whispered' = Whispered /\ Entry' = Entry
<1>1. Places' = Places /\ Line' = Line /\ Entry' = Entry /\ \A w : Begin(w)' = Begin(w)
  BY LineStays
<1>2. Here' = Here
  BY <1>1 DEF Here
<1>3. Whispered' = Whispered
  BY <1>1 DEF Whispered, Flagged
<1>4. SameWords'
  BY DEF SameWords, SameWord
<1> QED BY <1>1, <1>2, <1>3, <1>4

\* The window is filled up.
LEMMA LookAheadKeeps ==
  ASSUME VowelsInv, LookAhead
  PROVE  VowelsInv'
<1>1. SameWords /\ LaidOut /\ Walking
  BY TextLaidOut DEF VowelsInv
<1>2. SameWords' /\ Line' = Line /\ Here' = Here /\ Whispered' = Whispered /\ Entry' = Entry
  BY <1>1, StandsStill DEF LookAhead
<1>3. /\ vowelPc = "mora" /\ vowelNode <= Len(vowelWords) /\ index <= Len(vowelWords[vowelNode].moras)
      /\ window' = Filled /\ vowelPc' = IF window'[1].mora = "none" THEN "wrong" ELSE "rules"
      /\ UNCHANGED <<vowelWords, vowelNode, index, buff, text>>
  BY DEF LookAhead
<1>4. /\ \E m1, m2, m3 \in Entry : window' = <<m1, m2, m3>>
      /\ window'[1].mora # "none" =>
           Seen(Line, window', Here, 3) /\ FlagsGiven(Line, Whispered, window', Here)
  BY <1>1, <1>3, FilledShows
<1>5. Walking'
  BY <1>1, <1>3 DEF Walking
<1>6. WellVoiced(Line, Whispered, Here)
  BY DEF VowelsInv
<1>7. vowelPc' = "rules" => window'[1].mora # "none"
  BY <1>3
<1>8. vowelPc' \in {"wrong", "rules"}
  BY <1>3
<1> QED BY <1>2, <1>4, <1>5, <1>6, <1>7, <1>8 DEF VowelsInv

\* The walk ends.
LEMMA AllDoneKeeps ==
  ASSUME VowelsInv, AllDone
  PROVE  VowelsInv'
<1>1. SameWords /\ Walking
  BY DEF VowelsInv
<1>2. SameWords' /\ Line' = Line /\ Here' = Here /\ Whispered' = Whispered /\ Entry' = Entry
  BY <1>1, StandsStill DEF AllDone
<1>3. vowelPc' = "done" /\ vowelNode > Len(vowelWords)
      /\ UNCHANGED <<vowelWords, vowelNode, index, window, buff, text>>
  BY DEF AllDone
<1>4. Walking'
  <2>1. Len(vowelWords) \in Nat
    BY <1>1 DEF SameWords
  <2> QED BY <1>1, <1>3, <2>1 DEF Walking
<1>5. WellVoiced(Line, Whispered, Here) /\ \E e1, e2, e3 \in Entry : window = <<e1, e2, e3>>
  BY DEF VowelsInv
<1> QED BY <1>2, <1>3, <1>4, <1>5 DEF VowelsInv

\* At the end of a word its marks are written down.
LEMMA WordDoneKeeps ==
  ASSUME VowelsInv, WordDone
  PROVE  VowelsInv'
<1>1. SameWords /\ LaidOut /\ Walking
  BY TextLaidOut DEF VowelsInv
<1>2. PICK N \in Nat : N = Len(vowelWords)
  BY <1>1 DEF SameWords
<1>3. PICK n \in 1..N : n = vowelNode
  BY <1>1, <1>2 DEF WordDone, Walking
<1>4. /\ vowelPc = "mora" /\ index > Len(vowelWords[n].moras)
      /\ vowelWords' = [vowelWords EXCEPT ![n].unvoiced = buff]
      /\ vowelNode' = n + 1 /\ index' = 1 /\ buff' = {}
      /\ UNCHANGED <<window, vowelPc, text>>
  BY <1>3 DEF WordDone
<1>5. Len(vowelWords[n].moras) \in Nat \ {0} /\ index = Len(vowelWords[n].moras) + 1
      /\ buff \subseteq 1..Len(vowelWords[n].moras)
  <2>1. Len(vowelWords[n].moras) \in Nat \ {0}
    BY <1>1, <1>2 DEF LaidOut
  <2>2. index \in Nat /\ index <= Len(vowelWords[n].moras) + 1 /\ buff \subseteq 1..(index - 1)
    BY <1>1, <1>2, <1>3 DEF Walking
  <2> QED BY <1>4, <2>1, <2>2
<1>6. vowelWords \in Seq(VowelWord)
  BY <1>1 DEF SameWords
<1>7. /\ vowelWords' \in Seq(VowelWord) /\ Len(vowelWords') = N
      /\ \A w \in 1..N : /\ SameWord(vowelWords'[w], vowelWords[w])
                         /\ vowelWords'[w].unvoiced = IF w = n THEN buff ELSE vowelWords[w].unvoiced
  <2>1. PICK v : v = [vowelWords[n] EXCEPT !.unvoiced = buff]
    OBVIOUS
  <2>2. vowelWords[n] \in VowelWord
    BY <1>2, <1>6, ElementOfSeq
  <2>3. v \in VowelWord /\ SameWord(v, vowelWords[n]) /\ v.unvoiced = buff
    <3>1. buff \in SUBSET Nat
      BY <1>5
    <3> QED BY <2>1, <2>2, <3>1 DEF VowelWord, SameWord
  <2>4. vowelWords' = [vowelWords EXCEPT ![n] = v]
    BY <1>4, <2>1
  <2> HIDE DEF VowelWord
  <2>5. vowelWords' \in Seq(VowelWord) /\ Len(vowelWords') = N
    BY <1>2, <1>6, <2>3, <2>4
  <2>6. \A w \in 1..N : vowelWords'[w] = IF w = n THEN v ELSE vowelWords[w]
    BY <1>2, <1>6, <2>4
  <2> QED BY <2>3, <2>5, <2>6 DEF SameWord
<1>8. /\ Places' = Places /\ Line' = Line /\ Entry' = Entry /\ \A w : Begin(w)' = Begin(w)
  BY <1>2, <1>4, <1>7, LineStays DEF SameWord
<1>9. Here' = Here
  <2>1. Begin(n + 1) = Begin(n) + Len(vowelWords[n].moras)
    BY <1>1, <1>2 DEF LaidOut
  <2>2. Begin(n) \in Nat
    <3>1. n \in 1..(N + 1)
      OBVIOUS
    <3> QED BY <1>1, <1>2, <3>1 DEF LaidOut
  <2> QED BY <1>3, <1>4, <1>5, <1>8, <2>1, <2>2 DEF Here
<1>10. Whispered' = Whispered
  <2>1. ASSUME NEW p \in 1..Len(Places)
        PROVE  (IF Places[p][1] < n + 1 THEN Places[p][2] \in vowelWords'[Places[p][1]].unvoiced
                ELSE Places[p][1] = n + 1 /\ Places[p][2] \in {})
               <=> (IF Places[p][1] < n THEN Places[p][2] \in vowelWords[Places[p][1]].unvoiced
                    ELSE Places[p][1] = n /\ Places[p][2] \in buff)
    <3>1. PICK w \in 1..N : \E k \in 1..Len(vowelWords[w].moras) : p = Begin(w) + k
      BY <1>1, <1>2 DEF LaidOut
    <3>2. PICK k \in 1..Len(vowelWords[w].moras) : Places[p] = <<w, k>>
      BY <1>1, <1>2, <3>1 DEF LaidOut
    <3>3. Places[p][1] = w /\ Places[p][2] = k
      BY <3>2
    <3>4. w < n + 1 <=> w < n \/ w = n
      OBVIOUS
    <3> QED BY <1>7, <3>3, <3>4
  <2>2. Whispered = {p \in 1..Len(Places) : IF Places[p][1] < n THEN Places[p][2] \in vowelWords[Places[p][1]].unvoiced
                                            ELSE Places[p][1] = n /\ Places[p][2] \in buff}
    BY <1>3 DEF Whispered, Flagged
  <2>3. Whispered' = {p \in 1..Len(Places) :
                        IF Places[p][1] < n + 1 THEN Places[p][2] \in vowelWords'[Places[p][1]].unvoiced
                        ELSE Places[p][1] = n + 1 /\ Places[p][2] \in {}}
    BY <1>4, <1>8 DEF Whispered, Flagged
  <2> QED BY <2>1, <2>2, <2>3
<1>11. SameWords'
  <2>1. ASSUME NEW w \in 1..N
        PROVE  /\ SameWord(vowelWords'[w], text[w]) /\ vowelWords'[w].moras # <<>>
               /\ vowelWords'[w].unvoiced \subseteq 1..Len(vowelWords'[w].moras)
               /\ w >= n + 1 => vowelWords'[w].unvoiced = text[w].unvoiced
    <3>1. /\ SameWord(vowelWords[w], text[w]) /\ vowelWords[w].moras # <<>>
          /\ vowelWords[w].unvoiced \subseteq 1..Len(vowelWords[w].moras)
          /\ w >= n => vowelWords[w].unvoiced = text[w].unvoiced
      BY <1>1, <1>2, <1>3 DEF SameWords
    <3>2. SameWord(vowelWords'[w], text[w]) /\ vowelWords'[w].moras = vowelWords[w].moras
      BY <1>7, <3>1 DEF SameWord
    <3>3. w >= n + 1 => w # n /\ w >= n
      OBVIOUS
    <3> QED BY <1>5, <1>7, <3>1, <3>2, <3>3
  <2>2. text \in Seq(VowelWord) /\ Len(text) = N
    BY <1>1, <1>2 DEF SameWords
  <2> QED BY <1>4, <1>7, <2>1, <2>2 DEF SameWords
<1>12. Walking'
  <2>1. \A w \in 1..N : vowelWords'[w].moras = vowelWords[w].moras /\ Len(vowelWords[w].moras) \in Nat \ {0}
    BY <1>1, <1>2, <1>7 DEF SameWord, LaidOut
  <2>2. n + 1 \in 1..(N + 1) /\ {} \subseteq 1..(1 - 1) /\ 1 \in Nat \ {0}
    OBVIOUS
  <2>3. n + 1 <= N => 1 <= Len(vowelWords'[n + 1].moras) + 1
    <3>1. n + 1 <= N => n + 1 \in 1..N
      OBVIOUS
    <3> QED BY <2>1, <3>1
  <2> QED BY <1>4, <1>7, <2>2, <2>3 DEF Walking
<1>13. /\ \E e1, e2, e3 \in Entry : window = <<e1, e2, e3>>
       /\ window[3] = Nothing(0)
       /\ IF Here = 1 THEN window = NoneYet ELSE Seen(Line, window, Here, 2)
       /\ FlagsGiven(Line, Whispered, window, Here)
       /\ WellVoiced(Line, Whispered, Here)
  BY <1>4 DEF VowelsInv
<1> QED BY <1>4, <1>8, <1>9, <1>10, <1>11, <1>12, <1>13 DEF VowelsInv

\* The first mora of the window gets its mark.
LEMMA MoraWhispers ==
  ASSUME SameWords, LaidOut, Walking, Mora
  PROVE  /\ SameWords' /\ Line' = Line /\ Entry' = Entry
         /\ Here' = Here + 1 /\ Here \in 1..Line.size /\ Here \notin Whispered
         /\ Whispered' = IF Ruled[1].flag = Unvoiced THEN Whispered \cup {Here} ELSE Whispered
<1>1. PICK N \in Nat : N = Len(vowelWords)
  BY DEF SameWords
<1>2. /\ vowelPc = "rules" /\ buff' = IF Ruled[1].flag = Unvoiced THEN buff \cup {index} ELSE buff
      /\ index' = index + 1 /\ UNCHANGED <<vowelWords, vowelNode, text>>
  BY DEF Mora
<1>3. PICK n \in 1..N : n = vowelNode /\ index \in 1..Len(vowelWords[n].moras) /\ index \notin buff
  <2>1. vowelNode \in 1..N /\ index \in Nat \ {0} /\ index <= Len(vowelWords[vowelNode].moras)
        /\ buff \subseteq 1..(index - 1)
    BY <1>1, <1>2 DEF Walking
  <2>2. index \notin buff /\ Len(vowelWords[vowelNode].moras) \in Nat
    BY <1>1, <2>1 DEF LaidOut
  <2> QED BY <2>1, <2>2
<1>4. /\ Places' = Places /\ Line' = Line /\ Entry' = Entry /\ \A w : Begin(w)' = Begin(w)
  BY <1>2, LineStays
<1>5. Begin(n) \in Nat
  <2>1. n \in 1..(N + 1)
    OBVIOUS
  <2> QED BY <1>1, <2>1 DEF LaidOut
<1>6. PICK g : g = Here
  OBVIOUS
<1>7. g = Begin(n) + index /\ g \in 1..Len(Places) /\ Places[g] = <<n, index>> /\ Here' = g + 1
  <2>1. g = Begin(n) + index
    BY <1>3, <1>6 DEF Here
  <2>2. Here' = Begin(n) + (index + 1)
    BY <1>2, <1>3, <1>4 DEF Here
  <2>3. g \in 1..Len(Places) /\ Places[g] = <<n, index>>
    BY <1>1, <1>3, <2>1 DEF LaidOut
  <2> QED BY <1>3, <1>5, <2>1, <2>2, <2>3
<1>8. \A p \in 1..Len(Places) : Places[p][1] = n /\ Places[p][2] = index <=> p = g
  <2>1. ASSUME NEW p \in 1..Len(Places), Places[p][1] = n, Places[p][2] = index PROVE p = g
    <3>1. PICK w \in 1..N : \E k \in 1..Len(vowelWords[w].moras) : p = Begin(w) + k
      BY <1>1 DEF LaidOut
    <3>2. PICK k \in 1..Len(vowelWords[w].moras) : p = Begin(w) + k /\ Places[p] = <<w, k>>
      BY <1>1, <3>1 DEF LaidOut
    <3>3. w = n /\ k = index
      BY <2>1, <3>2
    <3> QED BY <1>7, <3>2, <3>3
  <2>2. Places[g][1] = n /\ Places[g][2] = index
    BY <1>7
  <2> QED BY <2>1, <2>2
<1>9. Whispered = {p \in 1..Len(Places) : IF Places[p][1] < n THEN Flagged(Places[p])
                                          ELSE Places[p][1] = n /\ Places[p][2] \in buff}
  BY <1>3 DEF Whispered
<1>10. Whispered' = {p \in 1..Len(Places) : IF Places[p][1] < n THEN Flagged(Places[p])
                                            ELSE Places[p][1] = n /\ Places[p][2] \in buff'}
  BY <1>2, <1>3, <1>4 DEF Whispered, Flagged
<1>11. g \notin Whispered
  BY <1>3, <1>7, <1>9
<1>12. CASE Ruled[1].flag = Unvoiced
  <2>1. buff' = buff \cup {index}
    BY <1>2, <1>12
  <2>2. ASSUME NEW p \in 1..Len(Places) PROVE p \in Whispered' <=> p \in Whispered \/ p = g
    <3>1. CASE p = g
      <4>1. Places[p][1] = n /\ ~(n < n) /\ Places[p][2] \in buff'
        BY <1>8, <2>1, <3>1
      <4> QED BY <1>10, <3>1, <4>1
    <3>2. CASE p # g
      <4>1. Places[p][1] = n => (Places[p][2] \in buff' <=> Places[p][2] \in buff)
        BY <1>8, <2>1, <3>2
      <4> QED BY <1>9, <1>10, <3>2, <4>1
    <3> QED BY <3>1, <3>2
  <2>3. Whispered' \subseteq 1..Len(Places) /\ Whispered \subseteq 1..Len(Places)
    BY <1>9, <1>10
  <2>4. Whispered' = Whispered \cup {g}
    BY <1>7, <2>2, <2>3, Zenon
  <2> QED BY <1>12, <2>4, <1>4, <1>6, <1>7, <1>11, <1>2 DEF Line, SameWords, SameWord
<1>13. CASE Ruled[1].flag # Unvoiced
  <2>1. Whispered' = Whispered
    BY <1>2, <1>9, <1>10, <1>13
  <2> QED BY <1>13, <2>1, <1>4, <1>6, <1>7, <1>11, <1>2 DEF Line, SameWords, SameWord
<1> QED BY <1>12, <1>13

\* The rules are applied and the window moves on.
LEMMA MoraKeeps ==
  ASSUME VowelsInv, Mora
  PROVE  VowelsInv'
<1>1. SameWords /\ LaidOut /\ Walking
  BY TextLaidOut DEF VowelsInv
<1>2. PICK line : line = Line
  OBVIOUS
<1>3. PICK quiet : quiet = Whispered
  OBVIOUS
<1>4. PICK g \in Nat \ {0} : g = Here
  <2>1. Here \in 1..Line.size
    BY <1>1, MoraWhispers
  <2> QED BY <2>1
<1>5. /\ SameWords' /\ Line' = line /\ Entry' = Entry /\ Here' = g + 1 /\ g \in 1..line.size /\ g \notin quiet
      /\ Whispered' = IF Ruled[1].flag = Unvoiced THEN quiet \cup {g} ELSE quiet
  BY <1>1, <1>2, <1>3, <1>4, MoraWhispers
<1>6. PICK e1 \in Entry, e2 \in Entry, e3 \in Entry : window = <<e1, e2, e3>>
  BY DEF VowelsInv
<1>7. window[1] = e1 /\ window[2] = e2 /\ window[3] = e3
  BY <1>6
<1>8. vowelPc = "rules" /\ window' = <<Ruled[2], Ruled[3], Nothing(0)>> /\ vowelPc' = "mora"
      /\ buff' = (IF Ruled[1].flag = Unvoiced THEN buff \cup {index} ELSE buff)
      /\ index' = index + 1 /\ UNCHANGED <<vowelWords, vowelNode, text>>
  BY DEF Mora
<1>9. /\ e1.mora # "none" /\ Seen(line, window, g, 3) /\ FlagsGiven(line, quiet, window, g)
      /\ WellVoiced(line, quiet, g)
  BY <1>2, <1>3, <1>4, <1>7, <1>8 DEF VowelsInv
<1>10. PICK v1 \in Entry, v2 \in Entry, v3 \in Entry :
         Ruled = <<v1, v2, v3>> /\ RuledTo(line, quiet, window, v1, v2, v3, g)
  <2>1. \E v1, v2, v3 \in Entry : Ruled = <<v1, v2, v3>> /\ RuledTo(Line, Whispered, window, v1, v2, v3, g)
    BY <1>1, <1>2, <1>3, <1>6, <1>9, RuledGives
  <2> QED BY <1>2, <1>3, <2>1
<1>11. Ruled[1] = v1 /\ window' = <<v2, v3, Nothing(0)>>
  BY <1>8, <1>10
<1>12. PICK hushed : hushed = IF v1.flag = Unvoiced THEN quiet \cup {g} ELSE quiet
  OBVIOUS
<1>13. Whispered' = hushed
  BY <1>5, <1>11, <1>12
<1>14. /\ SameMora(v1, e1) /\ SameMora(v2, e2) /\ SameMora(v3, e3)
       /\ v1.flag = Unvoiced => g \in line.marked \/ g \in line.polite \/ ~OnAccent(e1)
       /\ v1.flag = Unvoiced =>
            v2.flag # -1 /\ (v2.mora # "none" /\ v2.flag = Unvoiced => Twice(line, g))
       /\ e1.flag # -1 => v1.flag = e1.flag
       /\ v2.mora # "none" /\ v2.flag = Unvoiced =>
            g + 1 \in line.marked \/ g + 1 \in line.polite \/ ByRule2(v2, v3)
       /\ v3.mora # "none" /\ v3.flag = Unvoiced => g + 2 \in line.marked
       /\ Keeps(line, v1, g)
       /\ v2.mora # "none" => Keeps(line, v2, g + 1)
       /\ v3.mora # "none" => Keeps(line, v3, g + 2)
  BY <1>7, <1>10 DEF RuledTo
<1>15. Nothing(0).mora = "none" /\ Nothing(0) \in Entry
  <2>1. Len(vowelWords) \in Nat
    BY <1>1 DEF SameWords
  <2> QED BY <2>1 DEF Nothing, Entry
<1>16. PICK win : win = <<v2, v3, Nothing(0)>>
  OBVIOUS
<1>17. win[1] = v2 /\ win[2] = v3 /\ win[3].mora = "none" /\ window' = win
  BY <1>11, <1>15, <1>16
<1>18. g + 1 - 1 = g /\ g + 2 - 1 = g + 1 /\ g + 3 - 1 = g + 2
       /\ (g + 1) + 1 - 1 = g + 1 /\ (g + 1) + 2 - 1 = g + 2
  OBVIOUS
<1>19. Shows(line, e1, g)
       /\ (IF e2.mora = "none" THEN ~Known(line, g + 1) ELSE Shows(line, e2, g + 1))
       /\ (IF e3.mora = "none" THEN ~Known(line, g + 1) \/ ~Known(line, g + 2) ELSE Shows(line, e3, g + 2))
  <2>1. Shows(line, e1, g)
    BY <1>7, <1>9, <1>18 DEF Seen
  <2>2. Known(line, g + 0)
    BY <2>1 DEF Shows
  <2>3. \A j \in 0..(2 - 1) : j = 0 \/ j = 1
    OBVIOUS
  <2>4. \A j \in 0..(3 - 1) : j = 0 \/ j = 1 \/ j = 2
    OBVIOUS
  <2>5. IF e2.mora = "none" THEN ~Known(line, g + 1) ELSE Shows(line, e2, g + 1)
    BY <1>7, <1>9, <1>18, <2>2, <2>3 DEF Seen
  <2>6. IF e3.mora = "none" THEN ~Known(line, g + 1) \/ ~Known(line, g + 2) ELSE Shows(line, e3, g + 2)
    BY <1>7, <1>9, <1>18, <2>2, <2>4 DEF Seen
  <2> QED BY <2>1, <2>5, <2>6
<1>20. Seen(line, win, g + 1, 2)
  <2>1. ASSUME NEW i \in 1..2
        PROVE IF win[i].mora = "none" THEN \E j \in 0..(i - 1) : ~Known(line, (g + 1) + j)
                                      ELSE Shows(line, win[i], (g + 1) + i - 1)
    <3>1. CASE i = 1
      <4>1. 0 \in 0..(i - 1) /\ (g + 1) + 0 = g + 1
        BY <3>1
      <4>2. IF v2.mora = "none" THEN ~Known(line, g + 1) ELSE Shows(line, v2, g + 1)
        BY <1>14, <1>19 DEF SameMora, Shows
      <4> QED BY <1>17, <1>18, <3>1, <4>1, <4>2
    <3>2. CASE i = 2
      <4>1. 0 \in 0..(i - 1) /\ (g + 1) + 0 = g + 1 /\ 1 \in 0..(i - 1) /\ (g + 1) + 1 = g + 2
        BY <3>2
      <4>2. IF v3.mora = "none" THEN ~Known(line, g + 1) \/ ~Known(line, g + 2) ELSE Shows(line, v3, g + 2)
        BY <1>14, <1>19 DEF SameMora, Shows
      <4> QED BY <1>17, <1>18, <3>2, <4>1, <4>2
    <3> QED BY <3>1, <3>2
  <2> QED BY <2>1 DEF Seen
<1>21. FlagsGiven(line, hushed, win, g + 1)
  <2>1. \A i \in 1..3 : win[i].mora # "none" => Keeps(line, win[i], (g + 1) + i - 1)
    <3>1. ASSUME NEW i \in 1..3, win[i].mora # "none" PROVE Keeps(line, win[i], (g + 1) + i - 1)
      BY <1>14, <1>17, <1>18, <3>1
    <3> QED BY <3>1
  <2>2. \A i \in 2..3 : win[i].mora # "none" /\ win[i].flag = Unvoiced => (g + 1) + i - 1 \in line.marked
    <3>1. ASSUME NEW i \in 2..3, win[i].mora # "none", win[i].flag = Unvoiced
          PROVE  (g + 1) + i - 1 \in line.marked
      <4>1. i = 2
        BY <1>17, <3>1
      <4> QED BY <1>14, <1>17, <1>18, <3>1, <4>1
    <3> QED BY <3>1
  <2>3. ASSUME win[1].mora # "none"
        PROVE  FirstGiven(line, win, g + 1) /\ Succeeds(line, hushed, win[1], g + 1)
    <3>1. FirstGiven(line, win, g + 1)
      BY <1>14, <1>17, <2>3 DEF FirstGiven
    <3>2. (g + 1) - 1 = g /\ (g \in hushed <=> v1.flag = Unvoiced)
      BY <1>5, <1>12
    <3>3. Succeeds(line, hushed, win[1], g + 1)
      BY <1>14, <1>17, <2>3, <3>2 DEF Succeeds
    <3> QED BY <3>1, <3>3
  <2> QED BY <2>1, <2>2, <2>3 DEF FlagsGiven
<1>22. WellVoiced(line, hushed, g + 1)
  <2> DEFINE Fine(q) ==
        /\ q \in hushed /\ line.accents[q] = line.counts[q] /\ q \in line.led =>
             q \in line.marked \/ q \in line.polite
        /\ q \in line.marked => q \in hushed \/ q \in line.polite \/ q \in line.signs
        /\ q + 1 < g + 1 /\ q \in hushed /\ q + 1 \in hushed => Twice(line, q)
  <2>1. Fine(g)
    <3>1. g \in hushed <=> v1.flag = Unvoiced
      BY <1>5, <1>12
    <3>2. ASSUME line.accents[g] = line.counts[g], g \in line.led PROVE OnAccent(e1)
      BY <1>19, <3>2 DEF Shows, OnAccent
    <3> QED BY <1>14, <3>1, <3>2 DEF Keeps
  <2>2. ASSUME NEW q \in 1..(g - 1) PROVE Fine(q)
    <3>1. q # g /\ q \in 1..(g - 1)
      OBVIOUS
    <3>2. q \in hushed <=> q \in quiet
      BY <1>12, <3>1
    <3>3. /\ q \in quiet /\ line.accents[q] = line.counts[q] /\ q \in line.led =>
               q \in line.marked \/ q \in line.polite
          /\ q \in line.marked => q \in quiet \/ q \in line.polite \/ q \in line.signs
          /\ q + 1 < g /\ q \in quiet /\ q + 1 \in quiet => Twice(line, q)
      BY <1>9, <3>1 DEF WellVoiced
    <3>4. CASE q + 1 < g
      <4>1. q + 1 # g
        BY <3>4
      <4>2. q + 1 \in hushed <=> q + 1 \in quiet
        BY <1>12, <4>1
      <4> QED BY <3>2, <3>3, <3>4, <4>2
    <3>5. CASE q + 1 = g
      <4>1. Succeeds(line, quiet, e1, g) /\ g - 1 = q
        BY <1>7, <1>9, <3>5 DEF FlagsGiven
      <4>2. q \in quiet => e1.flag # -1 /\ (e1.flag = Unvoiced => Twice(line, q))
        BY <4>1 DEF Succeeds
      <4>3. g \in hushed <=> v1.flag = Unvoiced
        BY <1>5, <1>12
      <4>4. q \in hushed /\ q + 1 \in hushed => Twice(line, q)
        BY <1>14, <3>2, <3>5, <4>2, <4>3
      <4> QED BY <3>2, <3>3, <4>4
    <3> QED BY <3>4, <3>5
  <2>3. \A q \in 1..((g + 1) - 1) : q = g \/ q \in 1..(g - 1)
    OBVIOUS
  <2>4. \A q \in 1..((g + 1) - 1) : Fine(q)
    <3> HIDE DEF Fine
    <3> QED BY <2>1, <2>2, <2>3
  <2> QED BY <2>4, Zenon DEF WellVoiced
<1>23. Walking'
  <2>1. vowelNode \in 1..Len(vowelWords) /\ index \in 1..Len(vowelWords[vowelNode].moras)
        /\ buff \subseteq 1..(index - 1) /\ Len(vowelWords) \in Nat
    BY <1>1, <1>8 DEF Walking, SameWords
  <2>2. Len(vowelWords[vowelNode].moras) \in Nat
    BY <1>1, <2>1 DEF LaidOut
  <2>3. buff' \subseteq 1..(index' - 1) /\ index' \in Nat \ {0}
        /\ index' <= Len(vowelWords[vowelNode].moras) + 1
    BY <1>8, <2>1, <2>2
  <2> QED BY <1>8, <2>1, <2>3 DEF Walking
<1>24. \E a1, a2, a3 \in Entry : window' = <<a1, a2, a3>>
  BY <1>11, <1>15
<1>25. window'[3] = Nothing(0) /\ g + 1 # 1
  BY <1>11
<1> QED BY <1>5, <1>8, <1>13, <1>17, <1>20, <1>21, <1>22, <1>23, <1>24, <1>25 DEF VowelsInv

\* The walk begins at the first mora with an empty window.
LEMMA VowelsStart ==
  ASSUME VowelsInit
  PROVE  VowelsInv
<1>1. /\ vowelWords \in VowelTexts /\ vowelNode = 1 /\ index = 1 /\ window = NoneYet
      /\ buff = {} /\ vowelPc = "mora" /\ text = vowelWords
  BY DEF VowelsInit, NoneYet
<1>2. PICK N : N = Len(vowelWords)
  OBVIOUS
<1>3. vowelWords \in Seq(VowelWord) /\ \A w \in 1..N :
        vowelWords[w].moras # <<>> /\ vowelWords[w].unvoiced \subseteq 1..Len(vowelWords[w].moras)
  BY <1>1, <1>2, VowelAssumption DEF VowelText
<1>4. SameWords
  BY <1>1, <1>2, <1>3 DEF SameWords, SameWord
<1>5. LaidOut /\ N \in Nat
  BY <1>2, <1>3, <1>4, TextLaidOut
<1>6. Here = 1
  BY <1>1, <1>5 DEF Here, LaidOut
<1>7. Walking
  <2>1. 1 <= N => 1 <= Len(vowelWords[1].moras) + 1
    <3>1. 1 <= N => Len(vowelWords[1].moras) \in Nat
      <4>1. 1 <= N => 1 \in 1..Len(vowelWords)
        BY <1>2, <1>5
      <4> QED BY <1>5, <4>1 DEF LaidOut
    <3> QED BY <3>1
  <2> QED BY <1>1, <1>2, <1>5, <2>1 DEF Walking
<1>8. Nothing(0) \in Entry /\ Nothing(0).mora = "none"
  BY <1>2, <1>5 DEF Nothing, Entry
<1>9. \E e1, e2, e3 \in Entry : window = <<e1, e2, e3>>
  BY <1>1, <1>8 DEF NoneYet
<1>10. \A i \in 1..3 : window[i].mora = "none"
  BY <1>1, <1>8 DEF NoneYet
<1>11. window[3] = Nothing(0)
  BY <1>1 DEF NoneYet
<1>12. FlagsGiven(Line, Whispered, window, Here)
  BY <1>10 DEF FlagsGiven
<1>13. WellVoiced(Line, Whispered, Here)
  <2>1. \A q \in 1..(Here - 1) : FALSE
    BY <1>6
  <2> QED BY <2>1 DEF WellVoiced
<1> QED BY <1>1, <1>4, <1>6, <1>7, <1>9, <1>11, <1>12, <1>13 DEF VowelsInv

\* The invariant of the walk.
LEMMA VowelsInvHolds == VowelsSpec => []VowelsInv
<1>1. VowelsInit => VowelsInv
  BY VowelsStart
<1>2. VowelsInv /\ [VowelsNext]_vowelVars => VowelsInv'
  <2> SUFFICES ASSUME VowelsInv, [VowelsNext]_vowelVars PROVE VowelsInv'
    OBVIOUS
  <2>1. CASE LookAhead
    BY <2>1, LookAheadKeeps
  <2>2. CASE Mora
    BY <2>2, MoraKeeps
  <2>3. CASE WordDone
    BY <2>3, WordDoneKeeps
  <2>4. CASE AllDone
    BY <2>4, AllDoneKeeps
  <2>5. CASE UNCHANGED vowelVars
    <3>1. SameWords /\ UNCHANGED <<vowelWords, vowelNode, index, buff, text>> /\ vowelPc' = vowelPc
          /\ window' = window
      BY <2>5 DEF vowelVars, VowelsInv
    <3>2. SameWords' /\ Line' = Line /\ Here' = Here /\ Whispered' = Whispered /\ Entry' = Entry
      BY <3>1, StandsStill
    <3>3. Walking'
      BY <3>1 DEF Walking, VowelsInv
    <3> QED BY <3>1, <3>2, <3>3 DEF VowelsInv
  <2> QED BY <2>1, <2>2, <2>3, <2>4, <2>5 DEF VowelsNext
<1> QED BY <1>1, <1>2, PTL DEF VowelsSpec

\* What the line says of a place is what the text says of its mora.
LEMMA LineHolds ==
  ASSUME NEW p \in 1..Len(Places)
  PROVE  /\ Line.size = Len(Places) /\ Line.words[p] = Places[p][1] /\ Line.moras[p] = MoraAt(Places[p])
         /\ Line.counts[p] = PlaceInPhrase(Places[p])
         /\ Line.accents[p] = text[HeadOf(Places[p][1])].acc
         /\ p \in Line.led <=> text[HeadOf(Places[p][1])].chain # 1
         /\ p \in Line.marked <=> Marked(Places[p])
         /\ p \in Line.polite <=> Polite(Places[p])
         /\ p \in Line.signs <=> MoraAt(Places[p]) \in {Pause, Ask}
<1>1. Line.size = Len(Places) /\ Line.words[p] = Places[p][1] /\ Line.moras[p] = MoraAt(Places[p])
  BY Zenon DEF Line
<1>2. Line.counts[p] = PlaceInPhrase(Places[p]) /\ Line.accents[p] = text[HeadOf(Places[p][1])].acc
  BY Zenon DEF Line
<1>3. (p \in Line.led <=> text[HeadOf(Places[p][1])].chain # 1) /\ (p \in Line.marked <=> Marked(Places[p]))
  BY DEF Line
<1>4. p \in Line.polite <=> Polite(Places[p])
  BY DEF Line
<1>5. p \in Line.signs <=> MoraAt(Places[p]) \in {Pause, Ask}
  BY DEF Line
<1> QED BY <1>1, <1>2, <1>3, <1>4, <1>5

\* At the end all moras are behind the window and all marks written down.
LEMMA AtTheEnd ==
  ASSUME VowelsInv, vowelPc = "done"
  PROVE  /\ WellVoiced(Line, Whispered, Len(Places) + 1) /\ Len(Places) \in Nat
         /\ \A p \in 1..Len(Places) : p \in Whispered <=> Flagged(Places[p])
<1>1. SameWords /\ LaidOut /\ Walking /\ WellVoiced(Line, Whispered, Here)
  BY TextLaidOut DEF VowelsInv
<1>2. PICK N \in Nat : N = Len(vowelWords)
  BY <1>1 DEF SameWords
<1>3. vowelNode = N + 1 /\ index = 1
  BY <1>1, <1>2 DEF Walking
<1>4. Here = Len(Places) + 1 /\ Len(Places) \in Nat
  BY <1>1, <1>2, <1>3 DEF Here, LaidOut
<1>5. ASSUME NEW p \in 1..Len(Places) PROVE Places[p][1] < N + 1
  <2>1. PICK w \in 1..N : \E k \in 1..Len(vowelWords[w].moras) : p = Begin(w) + k
    BY <1>1, <1>2 DEF LaidOut
  <2>2. PICK k \in 1..Len(vowelWords[w].moras) : Places[p] = <<w, k>>
    BY <1>1, <1>2, <2>1 DEF LaidOut
  <2> QED BY <2>2
<1>6. \A p \in 1..Len(Places) : p \in Whispered <=> Flagged(Places[p])
  BY <1>3, <1>5 DEF Whispered
<1> QED BY <1>1, <1>4, <1>6

\* The invariant says what the variables range over.
LEMMA VowelsAreTyped ==
  ASSUME VowelsInv
  PROVE  VowelsTypeOK
<1>1. SameWords /\ Walking
  BY DEF VowelsInv
<1>2. \A w \in 1..Len(vowelWords) : vowelWords[w].unvoiced \subseteq 1..Len(vowelWords[w].moras)
  BY <1>1 DEF SameWords
<1>3. /\ vowelNode \in 1..(Len(vowelWords) + 1) /\ index \in Nat \ {0} /\ buff \subseteq Nat
      /\ vowelPc \in {"mora", "rules", "done", "wrong"}
  BY <1>1 DEF Walking
<1>4. PICK e1 \in Entry, e2 \in Entry, e3 \in Entry : window = <<e1, e2, e3>>
  BY DEF VowelsInv
<1>5. \A m \in Entry : /\ m.mora \in Moras \cup {Pause, Ask, "none"}
                       /\ m.flag \in {-1, 0, 1} /\ m.nlink \in 0..Len(vowelWords)
  BY DEF Entry
<1>6. \A i \in 1..3 : window[i] = e1 \/ window[i] = e2 \/ window[i] = e3
  BY <1>4
<1>7. \A i \in 1..3 : /\ window[i].mora \in Moras \cup {Pause, Ask, "none"}
                      /\ window[i].flag \in {-1, 0, 1} /\ window[i].nlink \in 0..Len(vowelWords)
  BY <1>5, <1>6, Zenon
<1> QED BY <1>2, <1>3, <1>7, Zenon DEF VowelsTypeOK

\* The words that the rules leave are voiced as rules 3 and 4 ask.
LEMMA VowelsEndRight ==
  ASSUME VowelsInv
  PROVE  NeverTwice /\ AccentVoiced /\ MarksKept
<1> SUFFICES ASSUME vowelPc = "done" PROVE NeverTwice /\ AccentVoiced /\ MarksKept
  BY DEF NeverTwice, AccentVoiced, MarksKept
<1>1. PICK N \in Nat : N = Len(Places)
  BY AtTheEnd
<1>2. \A p \in 1..N : p \in Whispered <=> Flagged(Places[p])
  BY <1>1, AtTheEnd
<1>3. ASSUME NEW p \in 1..N
      PROVE  /\ p \in Whispered /\ Line.accents[p] = Line.counts[p] /\ p \in Line.led =>
                  p \in Line.marked \/ p \in Line.polite
             /\ p \in Line.marked => p \in Whispered \/ p \in Line.polite \/ p \in Line.signs
             /\ p + 1 < N + 1 /\ p \in Whispered /\ p + 1 \in Whispered => Twice(Line, p)
  <2>1. WellVoiced(Line, Whispered, N + 1) /\ p \in 1..((N + 1) - 1)
    BY <1>1, AtTheEnd
  <2> QED BY <2>1, Zenon DEF WellVoiced
<1>4. NeverTwice
  <2> SUFFICES ASSUME NEW p \in 1..(Len(Places) - 1), Flagged(Places[p]), Flagged(Places[p + 1])
               PROVE  \/ Marked(Places[p + 1]) /\ (Marked(Places[p]) \/ Polite(Places[p]))
                      \/ Marked(Places[p]) /\ Polite(Places[p + 1])
    BY Zenon DEF NeverTwice
  <2>1. p \in 1..N /\ p + 1 \in 1..N /\ p + 1 < N + 1
    BY <1>1
  <2>2. Twice(Line, p)
    BY <1>2, <1>3, <2>1
  <2>3. /\ p \in Line.marked <=> Marked(Places[p])
        /\ p \in Line.polite <=> Polite(Places[p])
    BY <1>1, <2>1, LineHolds
  <2>4. /\ p + 1 \in Line.marked <=> Marked(Places[p + 1])
        /\ p + 1 \in Line.polite <=> Polite(Places[p + 1])
    BY <1>1, <2>1, LineHolds
  <2> QED BY <2>2, <2>3, <2>4 DEF Twice
<1>5. AccentVoiced
  <2> SUFFICES ASSUME NEW p \in 1..Len(Places), Flagged(Places[p]), AccentMora(Places[p]),
                      text[HeadOf(Places[p][1])].chain # 1
               PROVE  Marked(Places[p]) \/ Polite(Places[p])
    BY Zenon DEF AccentVoiced
  <2>1. p \in 1..N
    BY <1>1
  <2>2. /\ Line.counts[p] = PlaceInPhrase(Places[p]) /\ Line.accents[p] = text[HeadOf(Places[p][1])].acc
        /\ p \in Line.led <=> text[HeadOf(Places[p][1])].chain # 1
        /\ p \in Line.marked <=> Marked(Places[p])
        /\ p \in Line.polite <=> Polite(Places[p])
    BY LineHolds
  <2>3. Line.accents[p] = Line.counts[p]
    BY <2>2 DEF AccentMora
  <2> QED BY <1>2, <1>3, <2>1, <2>2, <2>3
<1>6. MarksKept
  <2> SUFFICES ASSUME NEW p \in 1..Len(Places), Marked(Places[p])
               PROVE  Flagged(Places[p]) \/ Polite(Places[p]) \/ MoraAt(Places[p]) \in {Pause, Ask}
    BY Zenon DEF MarksKept
  <2>1. p \in 1..N
    BY <1>1
  <2>2. /\ p \in Line.marked <=> Marked(Places[p])
        /\ p \in Line.polite <=> Polite(Places[p])
        /\ p \in Line.signs <=> MoraAt(Places[p]) \in {Pause, Ask}
    BY LineHolds
  <2> QED BY <1>2, <1>3, <2>1, <2>2
<1> QED BY <1>4, <1>5, <1>6

\* The window is where the running mora is.
LEMMA WindowStandsRight ==
  ASSUME VowelsInv
  PROVE  WindowInStep
<1> SUFFICES ASSUME vowelPc = "rules", NEW i \in 1..3, NEW here, here = Position(<<vowelNode, index>>),
                    NEW spot, spot = Places[here + i - 1], ~Missing(i)
             PROVE  /\ here + i - 1 <= Len(Places)
                    /\ window[i].nlink = spot[1] /\ window[i].mora = MoraAt(spot)
                    /\ text[HeadOf(spot[1])].chain # 1 =>
                         window[i].midx + 1 = PlaceInPhrase(spot) /\ window[i].atype = text[HeadOf(spot[1])].acc
  BY Zenon DEF WindowInStep
<1>1. SameWords /\ LaidOut /\ Walking /\ Seen(Line, window, Here, 3)
  BY TextLaidOut DEF VowelsInv
<1>2. vowelNode \in 1..Len(vowelWords) /\ index \in 1..Len(vowelWords[vowelNode].moras)
  <2>1. vowelNode \in 1..Len(vowelWords) /\ index \in Nat \ {0} /\ index <= Len(vowelWords[vowelNode].moras)
    <3>1. Len(vowelWords) \in Nat
      BY <1>1 DEF SameWords
    <3> QED BY <1>1, <3>1 DEF Walking
  <2>2. Len(vowelWords[vowelNode].moras) \in Nat
    BY <1>1, <2>1 DEF LaidOut
  <2> QED BY <2>1, <2>2
<1>3. here = Here
  BY <1>1, <1>2, PositionIs DEF Here
<1>4. Shows(Line, window[i], here + i - 1)
  BY <1>1, <1>3 DEF Seen, Missing
<1>5. PICK p : p = here + i - 1
  OBVIOUS
<1>6. /\ p \in 1..Line.size /\ window[i].mora = Line.moras[p] /\ window[i].nlink = Line.words[p]
      /\ window[i].midx + 1 = Line.counts[p]
      /\ p \in Line.led => window[i].atype = Line.accents[p]
  BY <1>4, <1>5 DEF Shows, Known
<1>7. p \in 1..Len(Places) /\ Len(Places) \in Nat
  BY <1>1, <1>6 DEF Line, LaidOut
<1>8. /\ Line.words[p] = spot[1] /\ Line.moras[p] = MoraAt(spot) /\ Line.counts[p] = PlaceInPhrase(spot)
      /\ Line.accents[p] = text[HeadOf(spot[1])].acc
      /\ p \in Line.led <=> text[HeadOf(spot[1])].chain # 1
  BY <1>5, <1>7, LineHolds
<1>9. here + i - 1 <= Len(Places)
  BY <1>5, <1>7
<1> QED BY <1>6, <1>8, <1>9

\* The vowels of njd_set_unvoiced_vowel: whatever words the dictionary finds, no
\* two moras in a row are unvoiced and no accent is, but for its marks and for
\* polite endings; and its marks stay.
THEOREM VowelsAreRight == VowelsSpec => []VowelsRight
<1>1. VowelsInv => VowelsRight
  BY VowelsAreTyped, VowelsEndRight DEF VowelsRight
<1> QED BY <1>1, VowelsInvHolds, PTL

\* The window of njd_set_unvoiced_vowel stays in step with the text: what its
\* entries say of a mora, of its place and of the accent of its phrase is true
\* whenever the rules run, over the ends of words and of phrases.
THEOREM WindowStaysInStep == VowelsSpec => []WindowInStep
<1>1. VowelsInv => WindowInStep
  BY WindowStandsRight
<1> QED BY <1>1, VowelsInvHolds, PTL
====
