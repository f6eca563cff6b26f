----------------------------- MODULE LeastElements -----------------------------
(***************************************************************************)
(* Lemmas that the proofs about the components share: finite sets have a   *)
(* first element, sets of numbers a least one, and what follows from that:  *)
(* induction over the numbers, functions defined by recursion, and what     *)
(* FlattenSeq makes of a sequence of sequences.                            *)
(***************************************************************************)
EXTENDS Integers, SequencesExt, FiniteSetTheorems, SequenceTheorems, WellFoundedInduction, TLAPS

\* A set of natural numbers has a least one: the intervals that end in it are
\* finite sets, and among those is a smallest one.
LEMMA LeastElement ==
  ASSUME NEW P \in SUBSET Nat, P # {}
  PROVE  \E x \in P : \A y \in P : x <= y
<1> DEFINE below == {0..k : k \in P}
<1>1. PICK p \in P : TRUE
  OBVIOUS
<1>2. below # {}
  BY <1>1
<1>3. below \subseteq FiniteSubsetsOf(Nat)
  <2> SUFFICES ASSUME NEW k \in P PROVE 0..k \in FiniteSubsetsOf(Nat)
    OBVIOUS
  <2>1. IsFiniteSet(0..k)
    BY FS_Interval
  <2>2. 0..k \in SUBSET Nat
    OBVIOUS
  <2> QED
    BY <2>1, <2>2 DEF FiniteSubsetsOf
<1>4. PICK least \in below : \A other \in below : ~ (<<other, least>> \in StrictSubsetOrdering(Nat))
  <2>1. IsWellFoundedOn(StrictSubsetOrdering(Nat), FiniteSubsetsOf(Nat))
    BY FS_StrictSubsetOrderingWellFounded
  <2> HIDE DEF below
  <2> QED
    BY <2>1, <1>2, <1>3, WFMin, Zenon
<1>5. PICK x \in P : least = 0..x
  BY <1>4
<1>6. \A y \in P : x <= y
  <2> SUFFICES ASSUME NEW y \in P, y < x PROVE FALSE
    OBVIOUS
  <2>1. 0..y \in SUBSET Nat /\ 0..x \in SUBSET Nat /\ 0..y \subseteq 0..x
    OBVIOUS
  <2>2. 0..y # 0..x
    <3>1. x \in 0..x /\ x \notin 0..y
      OBVIOUS
    <3> QED
      BY <3>1
  <2>3. <<0..y, 0..x>> \in StrictSubsetOrdering(Nat)
    BY <2>1, <2>2 DEF StrictSubsetOrdering
  <2>4. 0..y \in below
    OBVIOUS
  <2> QED
    BY <2>3, <2>4, <1>4, <1>5, Zenon
<1> QED
  BY <1>6

\* A finite set that a total and transitive relation orders has a first.
LEMMA FirstExists ==
  ASSUME NEW S, IsFiniteSet(S), S # {}, NEW R,
         \A x, y \in S : <<x, y>> \in R \/ <<y, x>> \in R,
         \A x, y, z \in S : <<x, y>> \in R /\ <<y, z>> \in R => <<x, z>> \in R
  PROVE  \E m \in S : \A o \in S : <<m, o>> \in R
<1> DEFINE T == {X \in FiniteSubsetsOf(S) : X # {} /\ ~\E m \in X : \A o \in X : <<m, o>> \in R}
<1>1. SUFFICES ASSUME T # {} PROVE FALSE
  <2>1. S \in FiniteSubsetsOf(S)
    BY DEF FiniteSubsetsOf
  <2> QED BY <2>1
<1>2. PICK X \in T : \A Y \in T : <<Y, X>> \notin StrictSubsetOrdering(S)
  <2> HIDE DEF T
  <2>1. T \subseteq FiniteSubsetsOf(S)
    BY DEF T
  <2> QED BY <1>1, <2>1, FS_StrictSubsetOrderingWellFounded, WFMin
<1>3. X \subseteq S /\ IsFiniteSet(X) /\ X # {}
  BY DEF FiniteSubsetsOf
<1>4. PICK x \in X : TRUE
  BY <1>3
<1> DEFINE Y == X \ {x}
<1>5. Y \in FiniteSubsetsOf(S) /\ <<Y, X>> \in StrictSubsetOrdering(S)
  BY <1>3, <1>4, FS_Difference DEF FiniteSubsetsOf, StrictSubsetOrdering
<1>6. Y \notin T
  BY <1>2, <1>5
<1>7. CASE Y = {}
  <2>1. \A o \in X : <<x, o>> \in R
    BY <1>3, <1>4, <1>7
  <2> QED BY <1>2, <1>4, <2>1
<1>8. CASE Y # {}
  <2>1. PICK m \in Y : \A o \in Y : <<m, o>> \in R
    BY <1>5, <1>6, <1>8
  <2>2. CASE <<m, x>> \in R
    BY <1>2, <2>1, <2>2
  <2>3. CASE <<x, m>> \in R
    <3>1. \A o \in X : <<x, o>> \in R
      BY <1>3, <1>4, <2>1, <2>3
    <3> QED BY <1>2, <1>4, <3>1
  <2> QED BY <1>3, <1>4, <2>1, <2>2, <2>3
<1> QED BY <1>7, <1>8

\* A set of places that is not empty has a least one.
LEMMA LeastPlace ==
  ASSUME NEW begin \in Int, NEW end \in Int, NEW S \in SUBSET (begin..end), S # {}
  PROVE  \E m \in S : \A o \in S : m <= o
<1> DEFINE R == {r \in S \X S : r[1] <= r[2]}
<1>1. IsFiniteSet(S)
  BY FS_Interval, FS_Subset
<1>2. S \subseteq Int
  OBVIOUS
<1>3. \A x, y \in S : <<x, y>> \in R <=> x <= y
  OBVIOUS
<1> HIDE DEF R
<1>4. ASSUME NEW x \in S, NEW y \in S
      PROVE  <<x, y>> \in R \/ <<y, x>> \in R
  <2>1. x <= y \/ y <= x
    BY <1>2
  <2> QED BY <1>3, <2>1
<1>5. ASSUME NEW x \in S, NEW y \in S, NEW z \in S, <<x, y>> \in R, <<y, z>> \in R
      PROVE  <<x, z>> \in R
  <2>1. x <= y /\ y <= z
    BY <1>3, <1>5
  <2>2. x <= z
    BY <1>2, <2>1
  <2> QED BY <1>3, <2>2
<1>6. \E m \in S : \A o \in S : <<m, o>> \in R
  BY <1>1, <1>4, <1>5, FirstExists
<1> QED BY <1>3, <1>6

-----------------------------------------------------------------------------
\* A set that zero is in, and each successor with its number, has them all.
LEMMA Induction ==
  ASSUME NEW P \in SUBSET Nat, 0 \in P, \A n \in P : n + 1 \in P
  PROVE  \A n \in Nat : n \in P
<1> DEFINE rest == Nat \ P
<1>1. SUFFICES ASSUME rest # {} PROVE FALSE
  OBVIOUS
<1>2. PICK x \in rest : \A y \in rest : x <= y
  <2>1. rest \in SUBSET Nat
    OBVIOUS
  <2> HIDE DEF rest
  <2> QED
    BY <1>1, <2>1, LeastElement
<1>3. x # 0 /\ x - 1 \in Nat
  OBVIOUS
<1>4. x - 1 \in P
  BY <1>2, <1>3
<1>5. (x - 1) + 1 \in P
  BY <1>4
<1> QED
  BY <1>3, <1>5

\* A function may be defined by its first value and each from the one before.
Recurs(f, S, base, next, N) ==
  /\ f \in [0..N -> S] /\ f[0] = base
  /\ \A n \in 1..N : f[n] = next[<<n, f[n - 1]>>]

LEMMA RecursionUpTo ==
  ASSUME NEW S, NEW base \in S, NEW next \in [Nat \X S -> S], NEW N \in Nat
  PROVE  \E f : Recurs(f, S, base, next, N)
<1> DEFINE Defined(f, m) == f[0] = base /\ \A n \in 1..m : f[n] = next[<<n, f[n - 1]>>]
           P == {m \in Nat : \E f \in [0..m -> S] : Defined(f, m)}
<1>1. 0 \in P
  <2> DEFINE f == [n \in 0..0 |-> base]
  <2>1. f \in [0..0 -> S]
    OBVIOUS
  <2>2. Defined(f, 0)
    OBVIOUS
  <2> HIDE DEF f
  <2> QED
    BY <2>1, <2>2
<1>2. ASSUME NEW m \in P PROVE m + 1 \in P
  <2>1. PICK f \in [0..m -> S] : Defined(f, m)
    OBVIOUS
  <2>2. m \in Nat
    OBVIOUS
  <2> DEFINE g == [n \in 0..(m + 1) |-> IF n = m + 1 THEN next[<<m + 1, f[m]>>] ELSE f[n]]
  <2>3. f[m] \in S /\ <<m + 1, f[m]>> \in Nat \X S
    BY <2>2
  <2>4. g \in [0..(m + 1) -> S]
    <3> SUFFICES ASSUME NEW n \in 0..(m + 1)
                 PROVE  (IF n = m + 1 THEN next[<<m + 1, f[m]>>] ELSE f[n]) \in S
      OBVIOUS
    <3>1. CASE n = m + 1
      BY <2>3, <3>1
    <3>2. CASE n # m + 1
      BY <2>2, <3>2
    <3> QED
      BY <3>1, <3>2
  <2>5. ASSUME NEW n \in 1..(m + 1)
        PROVE  g[n] = next[<<n, g[n - 1]>>]
    <3>1. CASE n = m + 1
      <4>1. n - 1 = m /\ m \in 0..(m + 1) /\ m # m + 1
        BY <2>2, <3>1
      <4>2. g[n - 1] = f[m] /\ g[n] = next[<<n, f[m]>>]
        BY <3>1, <4>1
      <4> QED
        BY <4>1, <4>2
    <3>2. CASE n # m + 1
      <4>1. n \in 1..m /\ n - 1 \in 0..(m + 1) /\ n - 1 # m + 1
        BY <2>2, <3>2
      <4>2. g[n] = f[n] /\ g[n - 1] = f[n - 1]
        BY <3>2, <4>1
      <4> QED
        BY <2>1, <4>1, <4>2
    <3> QED
      BY <3>1, <3>2
  <2>6. g[0] = base
    <3>1. 0 \in 0..(m + 1) /\ 0 # m + 1
      BY <2>2
    <3> QED
      BY <2>1, <3>1
  <2>7. Defined(g, m + 1)
    BY <2>5, <2>6
  <2> HIDE DEF g, Defined
  <2> QED
    BY <2>2, <2>4, <2>7
<1>3. P \in SUBSET Nat
  OBVIOUS
<1>4. N \in P
  <2> HIDE DEF P
  <2> QED
    BY <1>1, <1>2, <1>3, Induction
<1> QED
  BY <1>4 DEF Recurs

\* A function may be defined by values of its own, if each depends only on those
\* of lower rank: what G makes of a function agrees with it more and more.
ByRank(G, D, S, rank) ==
  \A f, g \in [D -> S] : \A n \in D :
    (\A m \in D : rank[m] < rank[n] => f[m] = g[m]) => G[f][n] = G[g][n]

Fixed(f, G, D, S) == f \in [D -> S] /\ G[f] = f

LEMMA RecursionByRank ==
  ASSUME NEW D, NEW S, NEW start \in [D -> S], NEW G \in [[D -> S] -> [D -> S]],
         NEW N \in Nat, NEW rank \in [D -> 0..N], ByRank(G, D, S, rank)
  PROVE  \E f : Fixed(f, G, D, S)
<1> DEFINE next == [x \in Nat \X [D -> S] |-> G[x[2]]]
<1>1. next \in [Nat \X [D -> S] -> [D -> S]]
  OBVIOUS
<1>2. N + 2 \in Nat
  OBVIOUS
<1>3. PICK F : Recurs(F, [D -> S], start, next, N + 2)
  <2> HIDE DEF next
  <2> QED BY <1>1, <1>2, RecursionUpTo, Zenon
<1>4. /\ \A k \in 0..(N + 2) : F[k] \in [D -> S]
      /\ \A k \in 1..(N + 2) : F[k] = G[F[k - 1]]
  <2>1. /\ F \in [0..(N + 2) -> [D -> S]]
        /\ \A k \in 1..(N + 2) : F[k] = next[<<k, F[k - 1]>>]
    <3> HIDE DEF next
    <3> QED BY <1>3 DEF Recurs
  <2>2. ASSUME NEW k \in 1..(N + 2) PROVE F[k] = G[F[k - 1]]
    <3>1. k - 1 \in 0..(N + 2) /\ k \in Nat
      OBVIOUS
    <3>2. <<k, F[k - 1]>> \in Nat \X [D -> S]
      BY <2>1, <3>1
    <3> QED BY <2>1, <3>2
  <2> QED BY <2>1, <2>2
<1> DEFINE P == {k \in Nat : k <= N + 1 => \A n \in D : rank[n] < k => F[k][n] = F[k + 1][n]}
<1>5. P \in SUBSET Nat /\ 0 \in P
  OBVIOUS
<1>6. ASSUME NEW k \in P PROVE k + 1 \in P
  <2>1. k \in Nat
    OBVIOUS
  <2> SUFFICES ASSUME k + 1 <= N + 1, NEW n \in D, rank[n] < k + 1
               PROVE  F[k + 1][n] = F[(k + 1) + 1][n]
    BY <2>1
  <2>2. /\ k \in 0..(N + 2) /\ k + 1 \in 0..(N + 2) /\ k + 1 \in 1..(N + 2)
        /\ (k + 1) + 1 \in 1..(N + 2) /\ (k + 1) - 1 = k /\ ((k + 1) + 1) - 1 = k + 1
        /\ k <= N + 1
    BY <2>1
  <2>3. ASSUME NEW m \in D, rank[m] < rank[n] PROVE F[k][m] = F[k + 1][m]
    <3>1. rank[m] < k
      BY <2>1, <2>3
    <3> QED BY <2>2, <3>1
  <2>4. F[k + 1] = G[F[k]] /\ F[(k + 1) + 1] = G[F[k + 1]]
    BY <1>4, <2>2
  <2>5. F[k] \in [D -> S] /\ F[k + 1] \in [D -> S]
    BY <1>4, <2>2
  <2>6. G[F[k]][n] = G[F[k + 1]][n]
    BY <2>3, <2>5 DEF ByRank
  <2> QED BY <2>4, <2>6
<1>7. N + 1 \in P
  <2> HIDE DEF P
  <2>1. \A k \in Nat : k \in P
    BY <1>5, <1>6, Induction
  <2> QED BY <2>1
<1>8. /\ F[N + 1] \in [D -> S] /\ G[F[N + 1]] \in [D -> S]
      /\ \A n \in D : F[N + 1][n] = G[F[N + 1]][n]
  <2>1. N + 1 \in 0..(N + 2) /\ (N + 1) + 1 \in 1..(N + 2) /\ ((N + 1) + 1) - 1 = N + 1
    OBVIOUS
  <2>2. F[N + 1] \in [D -> S] /\ F[(N + 1) + 1] = G[F[N + 1]]
    BY <1>4, <2>1
  <2>3. \A n \in D : rank[n] < N + 1
    OBVIOUS
  <2> QED BY <1>7, <2>2, <2>3
<1>9. G[F[N + 1]] = F[N + 1]
  BY <1>8
<1> QED BY <1>8, <1>9 DEF Fixed

-----------------------------------------------------------------------------
(* Sequences laid end to end.                                              *)

\* Growing joins of sequences, from nothing to all of them.
RunningJoins(S, seqs, f) ==
  /\ f \in [0..Len(seqs) -> Seq(S)] /\ f[0] = <<>>
  /\ \A n \in 1..Len(seqs) : f[n] = f[n - 1] \o seqs[n]

LEMMA JoinExists ==
  ASSUME NEW S, NEW seqs \in Seq(Seq(S))
  PROVE  \E f : RunningJoins(S, seqs, f) /\ FlattenSeq(seqs) = f[Len(seqs)]
<1> DEFINE N == Len(seqs)
           next == [x \in Nat \X Seq(S) |-> IF x[1] \in 1..N THEN x[2] \o seqs[x[1]] ELSE <<>>]
           Is(f) == f = [m \in 1..N |-> IF m = 1 THEN seqs[m] ELSE f[m - 1] \o seqs[m]]
<1>1. N \in Nat /\ \A n \in 1..N : seqs[n] \in Seq(S)
  OBVIOUS
<1>2. next \in [Nat \X Seq(S) -> Seq(S)]
  BY <1>1
<1>3. PICK g : Recurs(g, Seq(S), <<>>, next, N)
  <2>1. <<>> \in Seq(S) /\ N \in Nat
    BY <1>1
  <2> HIDE DEF next, N
  <2> QED BY <1>2, <2>1, RecursionUpTo, Zenon
<1>4. RunningJoins(S, seqs, g)
  <2>1. g \in [0..N -> Seq(S)] /\ g[0] = <<>> /\ \A n \in 1..N : g[n] = next[<<n, g[n - 1]>>]
    <3> HIDE DEF next
    <3> QED BY <1>3 DEF Recurs
  <2>2. ASSUME NEW n \in 1..N PROVE g[n] = g[n - 1] \o seqs[n]
    <3>1. n - 1 \in 0..N /\ n \in Nat
      BY <1>1
    <3>2. <<n, g[n - 1]>> \in Nat \X Seq(S)
      BY <2>1, <3>1
    <3>3. next[<<n, g[n - 1]>>] = g[n - 1] \o seqs[n]
      BY <3>2
    <3> QED BY <2>1, <3>3
  <2> QED BY <2>1, <2>2 DEF RunningJoins
<1>5. CASE N = 0
  <2>1. FlattenSeq(seqs) = seqs /\ seqs = <<>>
    BY <1>5 DEF FlattenSeq
  <2> QED BY <1>4, <1>5, <2>1 DEF RunningJoins
<1>6. CASE N # 0
  <2> DEFINE h == [m \in 1..N |-> g[m]]
  <2>1. Is(h)
    <3>1. ASSUME NEW m \in 1..N
          PROVE  g[m] = IF m = 1 THEN seqs[m] ELSE h[m - 1] \o seqs[m]
      <4>1. CASE m = 1
        <5>1. g[1] = <<>> \o seqs[1]
          <6>1. 1 \in 1..Len(seqs) /\ 1 - 1 = 0
            BY <4>1
          <6> QED BY <1>4, <6>1 DEF RunningJoins
        <5>2. seqs[1] \in Seq(S)
          BY <1>1, <4>1
        <5>3. \A t \in Seq(S) : <<>> \o t = t
          OBVIOUS
        <5> QED BY <4>1, <5>1, <5>2, <5>3
      <4>2. CASE m # 1
        <5>1. m - 1 \in 1..N
          BY <1>1, <4>2
        <5> QED BY <1>4, <4>2, <5>1, ZenonT(60) DEF RunningJoins
      <4> QED BY <4>1, <4>2
    <3> HIDE DEF h
    <3>2. h = [m \in 1..N |-> g[m]]
      BY DEF h
    <3> QED BY <3>1, <3>2
  <2> DEFINE flatten == CHOOSE f : Is(f)
  <2>2. Is(flatten)
    <3> HIDE DEF h
    <3> QED BY <2>1, ZenonT(60)
  <2>3. FlattenSeq(seqs) = flatten[N]
    BY <1>6 DEF FlattenSeq
  <2> HIDE DEF flatten
  <2>4. \A m \in 1..N : flatten[m] = IF m = 1 THEN seqs[m] ELSE flatten[m - 1] \o seqs[m]
    BY <2>2
  <2>5. \A m \in 1..N : h[m] = IF m = 1 THEN seqs[m] ELSE h[m - 1] \o seqs[m]
    <3> HIDE DEF h
    <3> QED BY <2>1
  <2> HIDE DEF h, Is
  <2> DEFINE P == {n \in Nat : n + 1 <= N => flatten[n + 1] = h[n + 1]}
  <2>6. P \in SUBSET Nat /\ 0 \in P
    <3>1. 1 \in 1..N
      BY <1>1, <1>6
    <3> QED BY <2>4, <2>5, <3>1
  <2>7. ASSUME NEW n \in P PROVE n + 1 \in P
    <3> SUFFICES ASSUME n + 2 <= N PROVE flatten[n + 2] = h[n + 2]
      BY <1>1
    <3>1. n + 2 \in 1..N /\ n + 2 # 1 /\ (n + 2) - 1 = n + 1 /\ n + 1 <= N
      BY <1>1
    <3>2. flatten[n + 1] = h[n + 1]
      BY <3>1
    <3> QED BY <2>4, <2>5, <3>1, <3>2
  <2>8. N - 1 \in P
    <3>1. N - 1 \in Nat
      BY <1>1, <1>6
    <3> HIDE DEF P
    <3> QED BY <2>6, <2>7, <3>1, Induction
  <2>9. flatten[N] = h[N]
    <3>1. (N - 1) + 1 = N
      BY <1>1
    <3> QED BY <1>1, <2>8, <3>1
  <2>10. h[N] = g[N]
    BY <1>1, <1>6 DEF h
  <2> QED BY <1>4, <2>3, <2>9, <2>10
<1> QED BY <1>5, <1>6

\* The joins of what two lists of sequences have in common agree.
LEMMA JoinsAgree ==
  ASSUME NEW S, NEW s \in Seq(Seq(S)), NEW t \in Seq(Seq(S)),
         NEW f, NEW g, RunningJoins(S, s, f), RunningJoins(S, t, g),
         Len(s) <= Len(t), \A n \in 1..Len(s) : s[n] = t[n]
  PROVE  f[Len(s)] = g[Len(s)]
<1> DEFINE P == {n \in Nat : n <= Len(s) => f[n] = g[n]}
<1>1. P \in SUBSET Nat /\ 0 \in P
  BY DEF RunningJoins
<1>2. ASSUME NEW n \in P PROVE n + 1 \in P
  <2> SUFFICES ASSUME n + 1 <= Len(s) PROVE f[n + 1] = g[n + 1]
    OBVIOUS
  <2>1. n + 1 \in 1..Len(s) /\ n + 1 \in 1..Len(t) /\ (n + 1) - 1 = n /\ n <= Len(s)
    OBVIOUS
  <2>2. f[n + 1] = f[n] \o s[n + 1] /\ g[n + 1] = g[n] \o t[n + 1]
    BY <2>1 DEF RunningJoins
  <2> QED BY <2>1, <2>2
<1>3. Len(s) \in P
  <2> HIDE DEF P
  <2>1. Len(s) \in Nat
    OBVIOUS
  <2> QED BY <1>1, <1>2, <2>1, Induction
<1> QED BY <1>3

\* What the first n sequences make.
Joint(seqs, n) == FlattenSeq(SubSeq(seqs, 1, n))

LEMMA JointStep ==
  ASSUME NEW S, NEW seqs \in Seq(Seq(S))
  PROVE  /\ \A n \in 0..Len(seqs) : Joint(seqs, n) \in Seq(S)
         /\ Joint(seqs, 0) = <<>>
         /\ Joint(seqs, Len(seqs)) = FlattenSeq(seqs)
         /\ \A n \in 1..Len(seqs) : Joint(seqs, n) = Joint(seqs, n - 1) \o seqs[n]
<1>1. PICK f : RunningJoins(S, seqs, f) /\ FlattenSeq(seqs) = f[Len(seqs)]
  BY JoinExists
<1>2. ASSUME NEW n \in 0..Len(seqs) PROVE Joint(seqs, n) = f[n]
  <2>1. PICK s : s = SubSeq(seqs, 1, n)
    OBVIOUS
  <2>2. s \in Seq(Seq(S)) /\ Len(s) = n /\ \A k \in 1..n : s[k] = seqs[k]
    <3>1. n \in Nat /\ n <= Len(seqs) /\ Len(seqs) \in Nat /\ \A k \in 1..n : seqs[k] \in Seq(S)
      OBVIOUS
    <3> QED BY <2>1, <3>1, SubSeqProperties
  <2>3. PICK g : RunningJoins(S, s, g) /\ FlattenSeq(s) = g[Len(s)]
    BY <2>2, JoinExists
  <2>4. g[Len(s)] = f[Len(s)]
    <3>1. Len(s) <= Len(seqs) /\ \A k \in 1..Len(s) : s[k] = seqs[k]
      BY <2>2
    <3> QED BY <1>1, <2>2, <2>3, <3>1, JoinsAgree, SMTT(30)
  <2> QED BY <2>1, <2>2, <2>3, <2>4 DEF Joint
<1>3. Len(seqs) \in Nat
  OBVIOUS
<1>4. /\ \A n \in 0..Len(seqs) : f[n] \in Seq(S)
      /\ f[0] = <<>> /\ \A n \in 1..Len(seqs) : f[n] = f[n - 1] \o seqs[n]
  BY <1>1 DEF RunningJoins
<1>5. ASSUME NEW n \in 1..Len(seqs) PROVE Joint(seqs, n) = Joint(seqs, n - 1) \o seqs[n]
  <2>1. n \in 0..Len(seqs) /\ n - 1 \in 0..Len(seqs)
    BY <1>3
  <2> QED BY <1>2, <1>4, <2>1
<1>6. \A n \in 0..Len(seqs) : Joint(seqs, n) = f[n]
  BY <1>2
<1>7. \A n \in 1..Len(seqs) : Joint(seqs, n) = Joint(seqs, n - 1) \o seqs[n]
  BY <1>5
<1>8. 0 \in 0..Len(seqs) /\ Len(seqs) \in 0..Len(seqs)
  BY <1>3
<1> QED BY <1>1, <1>4, <1>6, <1>7, <1>8

\* The elements of the p-th sequence follow those of the sequences before it,
\* and nothing else is in the join.
LEMMA JointPlaces ==
  ASSUME NEW S, NEW seqs \in Seq(Seq(S))
  PROVE  /\ FlattenSeq(seqs) \in Seq(S)
         /\ \A p \in 1..Len(seqs) : \A k \in 1..Len(seqs[p]) :
              /\ Len(Joint(seqs, p - 1)) + k \in 1..Len(FlattenSeq(seqs))
              /\ FlattenSeq(seqs)[Len(Joint(seqs, p - 1)) + k] = seqs[p][k]
         /\ \A x \in 1..Len(FlattenSeq(seqs)) :
              \E p \in 1..Len(seqs) : \E k \in 1..Len(seqs[p]) : x = Len(Joint(seqs, p - 1)) + k
<1> DEFINE J(n) == Joint(seqs, n)
           At(n) == /\ \A p \in 1..n : \A k \in 1..Len(seqs[p]) :
                         /\ Len(J(p - 1)) + k \in 1..Len(J(n))
                         /\ J(n)[Len(J(p - 1)) + k] = seqs[p][k]
                    /\ \A x \in 1..Len(J(n)) :
                         \E p \in 1..n : \E k \in 1..Len(seqs[p]) : x = Len(J(p - 1)) + k
           P == {n \in Nat : n <= Len(seqs) => At(n)}
<1>1. /\ \A n \in 0..Len(seqs) : J(n) \in Seq(S)
      /\ J(0) = <<>> /\ J(Len(seqs)) = FlattenSeq(seqs)
      /\ \A n \in 1..Len(seqs) : J(n) = J(n - 1) \o seqs[n]
  BY JointStep
<1>2. Len(seqs) \in Nat /\ \A n \in 1..Len(seqs) : seqs[n] \in Seq(S)
  OBVIOUS
<1> HIDE DEF J
<1>3. 0 \in P
  BY <1>1
<1>4. ASSUME NEW n \in P PROVE n + 1 \in P
  <2> SUFFICES ASSUME n + 1 <= Len(seqs) PROVE At(n + 1)
    OBVIOUS
  <2>1. /\ n \in 0..Len(seqs) /\ n + 1 \in 1..Len(seqs) /\ (n + 1) - 1 = n /\ n <= Len(seqs)
        /\ n \in Nat
    BY <1>2
  <2>2. PICK a \in Seq(S) : a = J(n)
    BY <1>1, <2>1
  <2>3. PICK b \in Seq(S) : b = seqs[n + 1]
    BY <1>2, <2>1
  <2>4. J(n + 1) = a \o b
    BY <1>1, <2>1, <2>2, <2>3
  <2>5. /\ Len(a) \in Nat /\ Len(b) \in Nat /\ Len(a \o b) = Len(a) + Len(b)
        /\ \A m \in 1..Len(a) : (a \o b)[m] = a[m]
        /\ \A m \in 1..Len(b) : (a \o b)[Len(a) + m] = b[m]
    OBVIOUS
  <2>6. /\ \A p \in 1..n : \A k \in 1..Len(seqs[p]) :
             /\ Len(J(p - 1)) + k \in 1..Len(a)
             /\ a[Len(J(p - 1)) + k] = seqs[p][k]
        /\ \A x \in 1..Len(a) :
             \E p \in 1..n : \E k \in 1..Len(seqs[p]) : x = Len(J(p - 1)) + k
    BY <2>1, <2>2
  <2>7. ASSUME NEW p \in 1..(n + 1), NEW k \in 1..Len(seqs[p])
        PROVE  /\ Len(J(p - 1)) + k \in 1..Len(J(n + 1))
               /\ J(n + 1)[Len(J(p - 1)) + k] = seqs[p][k]
    <3>1. CASE p = n + 1
      <4>1. J(p - 1) = a /\ seqs[p] = b
        BY <2>1, <2>2, <2>3, <3>1
      <4>2. k \in 1..Len(b)
        BY <4>1
      <4>3. Len(a) + k \in 1..(Len(a) + Len(b))
        BY <2>5, <4>2
      <4> QED BY <2>4, <2>5, <4>1, <4>2, <4>3
    <3>2. CASE p # n + 1
      <4>1. p \in 1..n
        BY <2>1, <3>2
      <4>2. /\ Len(J(p - 1)) + k \in 1..Len(a)
            /\ a[Len(J(p - 1)) + k] = seqs[p][k]
        BY <2>6, <4>1
      <4>3. 1..Len(a) \subseteq 1..(Len(a) + Len(b))
        BY <2>5
      <4> QED BY <2>4, <2>5, <4>2, <4>3
    <3> QED BY <3>1, <3>2
  <2>8. ASSUME NEW x \in 1..Len(J(n + 1))
        PROVE  \E p \in 1..(n + 1) : \E k \in 1..Len(seqs[p]) : x = Len(J(p - 1)) + k
    <3>1. x \in 1..(Len(a) + Len(b))
      BY <2>4, <2>5
    <3>2. CASE x <= Len(a)
      <4>1. x \in 1..Len(a)
        BY <2>5, <3>1, <3>2
      <4>2. 1..n \subseteq 1..(n + 1)
        BY <2>1
      <4> QED BY <2>6, <4>1, <4>2
    <3>3. CASE x > Len(a)
      <4>1. x - Len(a) \in 1..Len(b) /\ x = Len(a) + (x - Len(a))
        BY <2>5, <3>1, <3>3
      <4>2. J((n + 1) - 1) = a /\ seqs[n + 1] = b /\ n + 1 \in 1..(n + 1)
        BY <2>1, <2>2, <2>3
      <4> QED BY <4>1, <4>2
    <3>4. x <= Len(a) \/ x > Len(a)
      BY <2>5, <3>1
    <3> QED BY <3>2, <3>3, <3>4
  <2> QED BY <2>7, <2>8
<1>5. Len(seqs) \in P
  <2>1. P \in SUBSET Nat
    OBVIOUS
  <2> HIDE DEF P
  <2> QED BY <1>2, <1>3, <1>4, <2>1, Induction
<1>6. At(Len(seqs)) /\ J(Len(seqs)) \in Seq(S)
  BY <1>1, <1>2, <1>5
<1> QED BY <1>1, <1>6 DEF J

LEMMA Associated ==
  ASSUME NEW S, NEW a \in Seq(S), NEW b \in Seq(S), NEW c \in Seq(S)
  PROVE  a \o (b \o c) = (a \o b) \o c
BY ConcatAssociative

LEMMA PrefixGrows ==
  ASSUME NEW S, NEW x \in Seq(S), NEW n \in Nat, n + 1 <= Len(x)
  PROVE  /\ SubSeq(x, 1, n) \in Seq(S) /\ <<x[n + 1]>> \in Seq(S)
         /\ SubSeq(x, 1, n + 1) = SubSeq(x, 1, n) \o <<x[n + 1]>>
<1>1. /\ 1 \in 1..Len(x) /\ n + 1 \in 1..Len(x) /\ (n + 1) - 1 = n
      /\ x[n + 1] \in S /\ \A k \in 1..n : x[k] \in S
  OBVIOUS
<1>2. SubSeq(x, 1, n + 1) = SubSeq(x, 1, n) \o <<x[n + 1]>>
  <2>1. SubSeq(x, 1, n + 1) = SubSeq(x, 1, (n + 1) - 1) \o <<x[n + 1]>>
    BY <1>1, SubSeqRecursiveSecond
  <2> QED BY <1>1, <2>1
<1>3. SubSeq(x, 1, n) \in Seq(S)
  BY <1>1, SubSeqProperties
<1>4. \A e : e \in S => <<e>> \in Seq(S)
  OBVIOUS
<1> QED BY <1>1, <1>2, <1>3, <1>4

GrewBy(S, base, x, n, so_far) == n <= Len(x) /\ so_far = base \o SubSeq(x, 1, n)

LEMMA OneMore ==
  ASSUME NEW S, NEW base \in Seq(S), NEW x \in Seq(S), NEW n \in Nat, n + 1 <= Len(x),
         NEW before, GrewBy(S, base, x, n, before), NEW after, after = before \o <<x[n + 1]>>
  PROVE  GrewBy(S, base, x, n + 1, after)
<1>1. PICK t \in Seq(S), one \in Seq(S) : t = SubSeq(x, 1, n) /\ one = <<x[n + 1]>>
  BY PrefixGrows
<1>2. SubSeq(x, 1, n + 1) = t \o one
  BY <1>1, PrefixGrows
<1>3. base \o (t \o one) = (base \o t) \o one
  BY Associated, SMTT(30)
<1> QED BY <1>1, <1>2, <1>3 DEF GrewBy

\* The sequences of u are those of s and then one of one element for each of x,
\* where the first may have something before it.
Itemized(s, pre, x, u) ==
  /\ Len(u) = Len(s) + Len(x)
  /\ \A k \in 1..Len(s) : u[k] = s[k]
  /\ u[Len(s) + 1] = pre \o <<x[1]>>
  /\ \A k \in 2..Len(x) : u[Len(s) + k] = <<x[k]>>

LEMMA ItemsJoined ==
  ASSUME NEW S, NEW s \in Seq(Seq(S)), NEW x \in Seq(S), x # <<>>, NEW pre \in Seq(S),
         NEW u \in Seq(Seq(S)), Itemized(s, pre, x, u)
  PROVE  /\ FlattenSeq(u) = (FlattenSeq(s) \o pre) \o x
         /\ FlattenSeq(s) \in Seq(S) /\ FlattenSeq(u) \in Seq(S)
<1>1. PICK l \in Nat, c \in Nat \ {0} : l = Len(s) /\ c = Len(x)
  BY EmptySeq, LenProperties
<1>2. /\ Len(u) = l + c /\ \A k \in 1..l : u[k] = s[k]
      /\ u[l + 1] = pre \o <<x[1]>> /\ \A k \in 2..c : u[l + k] = <<x[k]>>
  BY <1>1 DEF Itemized
<1>3. /\ \A n \in 0..l + c : Joint(u, n) \in Seq(S)
      /\ Joint(u, l + c) = FlattenSeq(u)
      /\ \A n \in 1..l + c : Joint(u, n) = Joint(u, n - 1) \o u[n]
  BY <1>2, JointStep
<1>4. Joint(u, l) = FlattenSeq(s)
  <2>1. PICK r : r = SubSeq(u, 1, l)
    OBVIOUS
  <2>2. \A k \in 1..l : u[k] \in Seq(S)
    BY <1>1, <1>2
  <2>3. r \in Seq(Seq(S)) /\ Len(r) = l /\ \A k \in 1..l : r[k] = u[k]
    BY <2>1, <2>2, SubSeqProperties
  <2>4. r = s
    BY <1>1, <1>2, <2>3, SeqEqual
  <2> QED BY <2>1, <2>4 DEF Joint
<1>5. PICK before \in Seq(S) : before = FlattenSeq(s)
  <2>1. l \in 0..l + c
    OBVIOUS
  <2> QED BY <1>3, <1>4, <2>1
<1>6. PICK base \in Seq(S) : base = before \o pre
  BY ConcatProperties
<1> DEFINE P == {n \in Nat : n + 1 <= c => GrewBy(S, base, x, n + 1, Joint(u, l + (n + 1)))}
<1>7. 0 \in P
  <2> HIDE DEF P
  <2>1. /\ l + (0 + 1) \in 1..l + c /\ (l + (0 + 1)) - 1 = l /\ l + (0 + 1) = l + 1
        /\ 0 + 1 <= Len(x) /\ 0 + 1 = 1
    BY <1>1
  <2>2. Joint(u, l + (0 + 1)) = before \o (pre \o <<x[1]>>)
    BY <1>2, <1>3, <1>4, <1>5, <2>1
  <2>3. PICK one \in Seq(S) : one = <<x[1]>>
    BY <2>1, PrefixGrows
  <2>4. SubSeq(x, 1, 0 + 1) = one
    <3>1. SubSeq(x, 1, 0 + 1) = SubSeq(x, 1, 0) \o one
      BY <2>1, <2>3, PrefixGrows
    <3>2. SubSeq(x, 1, 0) = <<>>
      BY SubSeqEmpty
    <3> QED BY <2>3, <3>1, <3>2, ConcatEmptySeq
  <2>5. before \o (pre \o one) = (before \o pre) \o one
    BY Associated, SMTT(30)
  <2> QED BY <1>6, <2>1, <2>2, <2>3, <2>4, <2>5 DEF P, GrewBy
<1>8. ASSUME NEW n \in Nat, n \in P PROVE n + 1 \in P
  <2> HIDE DEF P
  <2>1. PICK m \in Nat : m = n + 1
    OBVIOUS
  <2>0. SUFFICES ASSUME m + 1 <= c
                 PROVE  GrewBy(S, base, x, m + 1, Joint(u, l + (m + 1)))
    BY <2>1 DEF P
  <2>2. /\ m <= c /\ m + 1 <= Len(x) /\ l + (m + 1) \in 1..l + c
        /\ (l + (m + 1)) - 1 = l + m /\ m + 1 \in 2..c
    BY <1>1, <2>1, <2>0
  <2>3. PICK now, next : now = Joint(u, l + m) /\ next = Joint(u, l + (m + 1))
    OBVIOUS
  <2>4. next = now \o <<x[m + 1]>>
    BY <1>2, <1>3, <2>2, <2>3
  <2>5. GrewBy(S, base, x, m, now)
    BY <1>8, <2>1, <2>2, <2>3 DEF P
  <2>6. GrewBy(S, base, x, m + 1, next)
    BY <2>2, <2>4, <2>5, OneMore
  <2> QED BY <2>3, <2>6
<1>9. c - 1 \in P
  <2>1. P \in SUBSET Nat /\ c - 1 \in Nat
    OBVIOUS
  <2> HIDE DEF P
  <2> QED BY <1>7, <1>8, <2>1, Induction
<1>10. (c - 1) + 1 = c /\ c <= c
  OBVIOUS
<1>11. SubSeq(x, 1, c) = x
  BY <1>1, SubSeqFull
<1>12. FlattenSeq(u) = base \o x
  BY <1>3, <1>9, <1>10, <1>11 DEF GrewBy
<1>13. FlattenSeq(u) \in Seq(S)
  <2>1. l + c \in 0..l + c
    OBVIOUS
  <2> QED BY <1>3, <2>1
<1> QED BY <1>5, <1>6, <1>12, <1>13
================================================================================
