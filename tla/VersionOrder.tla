----------------------------- MODULE VersionOrder -----------------------------
(***************************************************************************)
(* utility/core_version_utility.cc: which of the registered versions        *)
(* get_latest_version returns.  A version string is the sequence of its     *)
(* character codes.                                                         *)
(***************************************************************************)
EXTENDS Integers, Sequences, FiniteSets

LOCAL INSTANCE SequencesExt

Dot == 46
Digits == 48..57

IsAllNumber(s) == \A i \in 1..Len(s) : s[i] \in Digits

\* std::stoll of a short string of digits.
Value(s) == FoldLeft(LAMBDA n, ch : 10 * n + (ch - 48), 0, s)

\* operator< of std::string.
LexLess(a, b) ==
  \E k \in 0..Len(a) :
    /\ k < Len(b)
    /\ \A i \in 1..k : a[i] = b[i]
    /\ k = Len(a) \/ a[k + 1] < b[k + 1]

\* Only the number of fields of the split is used, never the fields: each dot
\* ends one, and so does the end of the string unless nothing follows the dot.
Fields(s) ==
  Cardinality({i \in 1..Len(s) : s[i] = Dot})
    + (IF s = <<>> \/ s[Len(s)] = Dot THEN 0 ELSE 1)

LessByFields(a, b) == Fields(a) < Fields(b)

\* The comparator handed to std::sort.  Its loop returns in the first round,
\* or compares two equal strings to the end.
Less(a, b) ==
  IF Fields(a) = 0 \/ Fields(b) = 0 \/ a = b THEN Fields(a) < Fields(b)
  ELSE IF IsAllNumber(a) /\ IsAllNumber(b) THEN Value(a) < Value(b)
  ELSE LexLess(a, b)

\* What std::sort demands of its comparator on the strings it sorts.
StrictWeakOrder(V) ==
  LET Tied(a, b) == ~Less(a, b) /\ ~Less(b, a) IN
  \A a, b, c \in V : /\ Less(a, b) /\ Less(b, c) => Less(a, c)
                     /\ Tied(a, b) /\ Tied(b, c) => Tied(a, c)

\* The front of the sorted vector.  Where the comparator is no strict weak
\* order ("9" < "10" < "5.0" < "9") std::sort may leave any of the strings there.
LatestOf(V) ==
  IF StrictWeakOrder(V) THEN {v \in V : \A u \in V : ~Less(u, v)} ELSE V
===============================================================================
