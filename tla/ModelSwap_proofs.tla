---------------------------- MODULE ModelSwap_proofs ----------------------------
(***************************************************************************)
(* Proofs about ReadWriteMutex and ModelSwap, for any finite sets of threads. *)
(* The lock first: l_ and write_pending_ count the threads, so that a writer *)
(* is alone and the lock implements ReadersWriters.  Then the taggers and the *)
(* callers of swap that use it: whatever else they do leaves the lock alone,  *)
(* and what they delete is neither in use nor yet to be brought in.           *)
(***************************************************************************)
EXTENDS ModelSwap, FiniteSetTheorems, TLAPS

AtDefined == at = [p \in Readers \cup Writers |-> at[p]]

OneWriter == Cardinality(Writing) <= 1

IInv == TypeOK /\ AtDefined /\ WordsCount /\ OneWriter /\ (Writing # {} => Reading = {})

-----------------------------------------------------------------------------
LEMMA Finite ==
  /\ IsFiniteSet(Counted) /\ IsFiniteSet(Announced)
  /\ IsFiniteSet(Writing) /\ IsFiniteSet(Reading)
  /\ Cardinality(Counted) \in Nat /\ Cardinality(Announced) \in Nat
  /\ Cardinality(Writing) \in Nat
<1>1. Counted \in SUBSET Readers /\ Reading \in SUBSET Readers
  BY DEF Counted, Reading
<1>2. Announced \in SUBSET Writers /\ Writing \in SUBSET Writers
  BY DEF Announced, Writing
<1>3. IsFiniteSet(Counted) /\ IsFiniteSet(Reading)
  BY <1>1, FS_Subset, ThreadsAssumption
<1>4. IsFiniteSet(Announced) /\ IsFiniteSet(Writing)
  BY <1>2, FS_Subset, ThreadsAssumption
<1> QED
  BY <1>3, <1>4, FS_CardinalityType

\* What a step of a thread does to the places of the others.
LEMMA Moved ==
  ASSUME AtDefined, NEW p \in Readers \cup Writers, NEW place, Goto(p, place)
  PROVE  /\ at' = [q \in Readers \cup Writers |-> IF q = p THEN place ELSE at[q]]
         /\ at'[p] = place
         /\ \A q \in (Readers \cup Writers) \ {p} : at'[q] = at[q]
         /\ AtDefined'
<1>1. at' = [q \in Readers \cup Writers |-> IF q = p THEN place ELSE at[q]]
  BY DEF Goto, AtDefined
<1> QED
  BY <1>1 DEF AtDefined

\* The word is zero when nobody is counted and nobody writes.
LEMMA ZeroWord ==
  ASSUME IInv, l_ = 0
  PROVE  Counted = {} /\ Writing = {} /\ Reading = {}
<1>1. Cardinality(Counted) = 0 /\ Cardinality(Writing) = 0
  BY Finite DEF IInv, WordsCount
<1>2. Counted = {} /\ Writing = {}
  BY <1>1, Finite, FS_EmptySet
<1> QED
  BY <1>2 DEF Counted, Reading

\* The flag is clear when nobody writes.
LEMMA ClearFlag ==
  ASSUME IInv, WriterFlag = 0
  PROVE  Writing = {}
<1>1. Cardinality(Writing) \in {0, 1}
  BY Finite DEF IInv, OneWriter
<1>2. (2 * Cardinality(Counted) + Cardinality(Writing)) % 2 = 0
  BY DEF IInv, WordsCount, WriterFlag
<1>3. Cardinality(Writing) = 0
  BY <1>1, <1>2, Finite
<1> QED
  BY <1>3, Finite, FS_EmptySet

-----------------------------------------------------------------------------
LEMMA InitIInv == Init => IInv
<1> SUFFICES ASSUME Init PROVE IInv
  OBVIOUS
<1>1. /\ \A p \in Readers \cup Writers : at[p] = "out"
      /\ AtDefined /\ l_ = 0 /\ write_pending_ = 0
  BY DEF Init, AtDefined
<1>2. Counted = {} /\ Announced = {} /\ Writing = {} /\ Reading = {}
  BY <1>1 DEF Counted, Announced, Writing, Reading
<1>3. WordsCount /\ OneWriter
  BY <1>1, <1>2, FS_EmptySet DEF WordsCount, OneWriter
<1> QED
  BY <1>1, <1>2, <1>3 DEF IInv, TypeOK

\* A step of a reader moves it among the counted and the reading, and leaves
\* the writers where they are.
LEMMA ReaderSets ==
  ASSUME IInv, NEW p \in Readers, NEW place \in {"out", "counting", "counted", "reading"},
         Goto(p, place)
  PROVE  /\ AtDefined'
         /\ Announced' = Announced /\ Writing' = Writing
         /\ \A q \in Readers : at'[q] = (IF q = p THEN place ELSE at[q])
         /\ \A q \in Writers : at'[q] = at[q]
         /\ Counted' = (IF place \in {"counted", "reading"} THEN Counted \cup {p}
                        ELSE Counted \ {p})
         /\ Reading' = (IF place = "reading" THEN Reading \cup {p} ELSE Reading \ {p})
<1>1. AtDefined
  BY DEF IInv
<1>2. /\ AtDefined'
      /\ \A q \in Readers : at'[q] = (IF q = p THEN place ELSE at[q])
      /\ \A q \in Writers : at'[q] = at[q]
  BY <1>1, Moved, ThreadsAssumption
<1>3. Announced' = Announced /\ Writing' = Writing
  BY <1>2 DEF Announced, Writing
<1>4. Counted' = {q \in Readers : (IF q = p THEN place ELSE at[q]) \in {"counted", "reading"}}
  BY <1>2 DEF Counted
<1>5. Reading' = {q \in Readers : (IF q = p THEN place ELSE at[q]) = "reading"}
  BY <1>2 DEF Reading
<1>6. Counted' = (IF place \in {"counted", "reading"} THEN Counted \cup {p} ELSE Counted \ {p})
  BY <1>4 DEF Counted
<1>7. Reading' = (IF place = "reading" THEN Reading \cup {p} ELSE Reading \ {p})
  BY <1>5 DEF Reading
<1> QED
  BY <1>2, <1>3, <1>6, <1>7

LEMMA WriterSets ==
  ASSUME IInv, NEW p \in Writers, NEW place \in {"out", "pending", "writing", "leaving"},
         Goto(p, place)
  PROVE  /\ AtDefined'
         /\ Counted' = Counted /\ Reading' = Reading
         /\ \A q \in Writers : at'[q] = (IF q = p THEN place ELSE at[q])
         /\ \A q \in Readers : at'[q] = at[q]
         /\ Announced' = (IF place # "out" THEN Announced \cup {p} ELSE Announced \ {p})
         /\ Writing' = (IF place = "writing" THEN Writing \cup {p} ELSE Writing \ {p})
<1>1. AtDefined
  BY DEF IInv
<1>2. /\ AtDefined'
      /\ \A q \in Writers : at'[q] = (IF q = p THEN place ELSE at[q])
      /\ \A q \in Readers : at'[q] = at[q]
  BY <1>1, Moved, ThreadsAssumption
<1>3. Counted' = Counted /\ Reading' = Reading
  BY <1>2 DEF Counted, Reading
<1>4. Announced' = {q \in Writers : (IF q = p THEN place ELSE at[q]) # "out"}
  BY <1>2 DEF Announced
<1>5. Writing' = {q \in Writers : (IF q = p THEN place ELSE at[q]) = "writing"}
  BY <1>2 DEF Writing
<1>6. Announced' = (IF place # "out" THEN Announced \cup {p} ELSE Announced \ {p})
  BY <1>4 DEF Announced
<1>7. Writing' = (IF place = "writing" THEN Writing \cup {p} ELSE Writing \ {p})
  BY <1>5 DEF Writing
<1> QED
  BY <1>2, <1>3, <1>6, <1>7

-----------------------------------------------------------------------------
(* What each step does to the sets, with IInv kept.                        *)
LEMMA StepReadPass ==
  ASSUME IInv, NEW p \in Readers, ReadPass(p)
  PROVE  IInv' /\ Reading' = Reading /\ Writing' = Writing
<1>1. at[p] = "out" /\ Goto(p, "counting") /\ l_' = l_ /\ write_pending_' = write_pending_
  BY DEF ReadPass
<1>2. /\ AtDefined' /\ Announced' = Announced /\ Writing' = Writing
      /\ \A q \in Readers : at'[q] = (IF q = p THEN "counting" ELSE at[q])
      /\ \A q \in Writers : at'[q] = at[q]
      /\ Counted' = Counted \ {p} /\ Reading' = Reading \ {p}
  BY <1>1, ReaderSets
<1>3. Counted' = Counted /\ Reading' = Reading
  BY <1>1, <1>2 DEF Counted, Reading
<1>4. WordsCount' /\ OneWriter' /\ (Writing # {} => Reading = {})'
  BY <1>1, <1>2, <1>3 DEF IInv, WordsCount, OneWriter
<1>5. TypeOK'
  BY <1>1, <1>2 DEF IInv, TypeOK
<1> QED
  BY <1>2, <1>3, <1>4, <1>5 DEF IInv

LEMMA StepReadCount ==
  ASSUME IInv, NEW p \in Readers, ReadCount(p)
  PROVE  IInv' /\ Reading' = Reading /\ Writing' = Writing
<1>1. at[p] = "counting" /\ Goto(p, "counted") /\ l_' = l_ + 2 /\ write_pending_' = write_pending_
  BY DEF ReadCount, kRcIncr
<1>2. /\ AtDefined' /\ Announced' = Announced /\ Writing' = Writing
      /\ \A q \in Readers : at'[q] = (IF q = p THEN "counted" ELSE at[q])
      /\ \A q \in Writers : at'[q] = at[q]
      /\ Counted' = Counted \cup {p} /\ Reading' = Reading \ {p}
  BY <1>1, ReaderSets
<1>3. p \notin Counted /\ Reading' = Reading
  BY <1>1, <1>2 DEF Counted, Reading
<1>4. Cardinality(Counted') = Cardinality(Counted) + 1
  BY <1>2, <1>3, Finite, FS_AddElement
<1>5. WordsCount'
  BY <1>1, <1>2, <1>4, Finite DEF IInv, WordsCount
<1>6. OneWriter' /\ (Writing # {} => Reading = {})'
  BY <1>2, <1>3 DEF IInv, OneWriter
<1>7. TypeOK'
  BY <1>1, <1>2 DEF IInv, TypeOK
<1> QED
  BY <1>2, <1>3, <1>5, <1>6, <1>7 DEF IInv

LEMMA StepReadEnter ==
  ASSUME IInv, NEW p \in Readers, ReadEnter(p)
  PROVE  /\ IInv' /\ Reading' = Reading \cup {p} /\ Writing' = Writing
         /\ p \notin Reading /\ Writing = {}
<1>1. at[p] = "counted" /\ Goto(p, "reading") /\ l_' = l_ /\ write_pending_' = write_pending_
  BY DEF ReadEnter
<1>2. /\ AtDefined' /\ Announced' = Announced /\ Writing' = Writing
      /\ \A q \in Readers : at'[q] = (IF q = p THEN "reading" ELSE at[q])
      /\ \A q \in Writers : at'[q] = at[q]
      /\ Counted' = Counted \cup {p} /\ Reading' = Reading \cup {p}
  BY <1>1, ReaderSets
<1>3. Counted' = Counted /\ p \notin Reading
  BY <1>1, <1>2 DEF Counted, Reading
<1>4. Writing = {}
  BY ClearFlag DEF ReadEnter
<1>5. WordsCount' /\ OneWriter' /\ (Writing # {} => Reading = {})'
  BY <1>1, <1>2, <1>3, <1>4 DEF IInv, WordsCount, OneWriter
<1>6. TypeOK'
  BY <1>1, <1>2 DEF IInv, TypeOK
<1> QED
  BY <1>2, <1>3, <1>4, <1>5, <1>6 DEF IInv

LEMMA StepReadUnlock ==
  ASSUME IInv, NEW p \in Readers, ReadUnlock(p)
  PROVE  /\ IInv' /\ Reading' = Reading \ {p} /\ Writing' = Writing
         /\ p \in Reading
<1>1. at[p] = "reading" /\ Goto(p, "out") /\ l_' = l_ - 2 /\ write_pending_' = write_pending_
  BY DEF ReadUnlock, kRcIncr
<1>2. /\ AtDefined' /\ Announced' = Announced /\ Writing' = Writing
      /\ \A q \in Readers : at'[q] = (IF q = p THEN "out" ELSE at[q])
      /\ \A q \in Writers : at'[q] = at[q]
      /\ Counted' = Counted \ {p} /\ Reading' = Reading \ {p}
  BY <1>1, ReaderSets
<1>3. p \in Counted /\ p \in Reading
  BY <1>1 DEF Counted, Reading
<1>4. Cardinality(Counted') = Cardinality(Counted) - 1 /\ IsFiniteSet(Counted')
  BY <1>2, <1>3, Finite, FS_RemoveElement
<1>5. Cardinality(Counted') \in Nat
  BY <1>4, FS_CardinalityType
<1>6. WordsCount' /\ l_' \in Nat
  BY <1>1, <1>2, <1>4, <1>5, Finite DEF IInv, WordsCount
<1>7. OneWriter' /\ (Writing # {} => Reading = {})'
  BY <1>2 DEF IInv, OneWriter
<1>8. TypeOK'
  BY <1>1, <1>2, <1>6 DEF IInv, TypeOK
<1> QED
  BY <1>2, <1>3, <1>6, <1>7, <1>8 DEF IInv

LEMMA StepWriteAnnounce ==
  ASSUME IInv, NEW p \in Writers, WriteAnnounce(p)
  PROVE  IInv' /\ Reading' = Reading /\ Writing' = Writing
<1>1. at[p] = "out" /\ Goto(p, "pending") /\ l_' = l_ /\ write_pending_' = write_pending_ + 1
  BY DEF WriteAnnounce
<1>2. /\ AtDefined' /\ Counted' = Counted /\ Reading' = Reading
      /\ \A q \in Writers : at'[q] = (IF q = p THEN "pending" ELSE at[q])
      /\ \A q \in Readers : at'[q] = at[q]
      /\ Announced' = Announced \cup {p} /\ Writing' = Writing \ {p}
  BY <1>1, WriterSets
<1>3. p \notin Announced /\ Writing' = Writing
  BY <1>1, <1>2 DEF Announced, Writing
<1>4. Cardinality(Announced') = Cardinality(Announced) + 1
  BY <1>2, <1>3, Finite, FS_AddElement
<1>5. WordsCount'
  BY <1>1, <1>2, <1>3, <1>4 DEF IInv, WordsCount
<1>6. OneWriter' /\ (Writing # {} => Reading = {})'
  BY <1>2, <1>3 DEF IInv, OneWriter
<1>7. TypeOK'
  BY <1>1, <1>2 DEF IInv, TypeOK
<1> QED
  BY <1>2, <1>3, <1>5, <1>6, <1>7 DEF IInv

LEMMA StepWriteAcquire ==
  ASSUME IInv, NEW p \in Writers, WriteAcquire(p)
  PROVE  /\ IInv' /\ Reading' = Reading /\ Writing' = {p}
         /\ Reading = {} /\ Writing = {}
<1>1. at[p] = "pending" /\ Goto(p, "writing") /\ l_' = 1 /\ write_pending_' = write_pending_
  BY DEF WriteAcquire, kWaFlag
<1>2. /\ AtDefined' /\ Counted' = Counted /\ Reading' = Reading
      /\ \A q \in Writers : at'[q] = (IF q = p THEN "writing" ELSE at[q])
      /\ \A q \in Readers : at'[q] = at[q]
      /\ Announced' = Announced \cup {p} /\ Writing' = Writing \cup {p}
  BY <1>1, WriterSets
<1>3. Counted = {} /\ Writing = {} /\ Reading = {}
  BY ZeroWord DEF WriteAcquire
<1>4. Announced' = Announced /\ Writing' = {p}
  BY <1>1, <1>2, <1>3 DEF Announced
<1>5. Cardinality(Writing') = 1 /\ Cardinality(Counted') = 0
  BY <1>2, <1>3, <1>4, FS_Singleton, FS_EmptySet
<1>6. WordsCount' /\ OneWriter' /\ (Writing # {} => Reading = {})'
  BY <1>1, <1>2, <1>3, <1>4, <1>5 DEF IInv, WordsCount, OneWriter
<1>7. TypeOK'
  BY <1>1, <1>2 DEF IInv, TypeOK
<1> QED
  BY <1>2, <1>3, <1>4, <1>6, <1>7 DEF IInv

LEMMA StepWriteRelease ==
  ASSUME IInv, NEW p \in Writers, WriteRelease(p)
  PROVE  /\ IInv' /\ Reading' = Reading /\ Writing = {p} /\ Writing' = {}
<1>1. at[p] = "writing" /\ Goto(p, "leaving") /\ l_' = l_ - 1 /\ write_pending_' = write_pending_
  BY DEF WriteRelease, kWaFlag
<1>2. /\ AtDefined' /\ Counted' = Counted /\ Reading' = Reading
      /\ \A q \in Writers : at'[q] = (IF q = p THEN "leaving" ELSE at[q])
      /\ \A q \in Readers : at'[q] = at[q]
      /\ Announced' = Announced \cup {p} /\ Writing' = Writing \ {p}
  BY <1>1, WriterSets
<1>3. p \in Writing /\ Announced' = Announced
  BY <1>1, <1>2 DEF Announced, Writing
<1>4. Cardinality(Writing) = 1
  <2>1. Cardinality(Writing) # 0
    BY <1>3, Finite, FS_EmptySet
  <2> QED
    BY <2>1, Finite DEF IInv, OneWriter
<1>5. Writing = {p} /\ Writing' = {}
  BY <1>2, <1>3, <1>4, Finite, FS_Singleton
<1>6. WordsCount' /\ l_' \in Nat
  <2>1. Cardinality(Writing') = 0 /\ Cardinality(Counted') = Cardinality(Counted)
    BY <1>2, <1>5, FS_EmptySet
  <2>2. l_' = 2 * Cardinality(Counted)
    BY <1>1, <1>4, Finite DEF IInv, WordsCount
  <2>3. write_pending_' = Cardinality(Announced')
    BY <1>1, <1>3 DEF IInv, WordsCount
  <2> QED
    BY <2>1, <2>2, <2>3, Finite DEF WordsCount
<1>7. OneWriter' /\ (Writing # {} => Reading = {})'
  BY <1>5, FS_EmptySet DEF OneWriter
<1>8. TypeOK'
  BY <1>1, <1>2, <1>6 DEF IInv, TypeOK
<1> QED
  BY <1>2, <1>5, <1>6, <1>7, <1>8 DEF IInv

LEMMA StepWriteLeave ==
  ASSUME IInv, NEW p \in Writers, WriteLeave(p)
  PROVE  IInv' /\ Reading' = Reading /\ Writing' = Writing
<1>1. at[p] = "leaving" /\ Goto(p, "out") /\ l_' = l_ /\ write_pending_' = write_pending_ - 1
  BY DEF WriteLeave
<1>2. /\ AtDefined' /\ Counted' = Counted /\ Reading' = Reading
      /\ \A q \in Writers : at'[q] = (IF q = p THEN "out" ELSE at[q])
      /\ \A q \in Readers : at'[q] = at[q]
      /\ Announced' = Announced \ {p} /\ Writing' = Writing \ {p}
  BY <1>1, WriterSets
<1>3. p \in Announced /\ Writing' = Writing
  BY <1>1, <1>2 DEF Announced, Writing
<1>4. Cardinality(Announced') = Cardinality(Announced) - 1 /\ IsFiniteSet(Announced')
  BY <1>2, <1>3, Finite, FS_RemoveElement
<1>5. Cardinality(Announced') \in Nat
  BY <1>4, FS_CardinalityType
<1>6. WordsCount' /\ write_pending_' \in Nat
  BY <1>1, <1>2, <1>3, <1>4, <1>5 DEF IInv, WordsCount
<1>7. OneWriter' /\ (Writing # {} => Reading = {})'
  BY <1>2, <1>3 DEF IInv, OneWriter
<1>8. TypeOK'
  BY <1>1, <1>2, <1>6 DEF IInv, TypeOK
<1> QED
  BY <1>2, <1>3, <1>6, <1>7, <1>8 DEF IInv

LEMMA StutterIInv ==
  ASSUME IInv, UNCHANGED lockVars
  PROVE  IInv' /\ Reading' = Reading /\ Writing' = Writing
<1>1. l_' = l_ /\ write_pending_' = write_pending_ /\ at' = at
  BY DEF lockVars
<1> QED
  BY <1>1 DEF IInv, TypeOK, AtDefined, WordsCount, OneWriter, Counted, Announced,
              Writing, Reading

-----------------------------------------------------------------------------
(* One step keeps the invariant and is a step of the promise.              *)
LEMMA Step ==
  ASSUME IInv, [Next]_lockVars
  PROVE  IInv' /\ [Promise!Next]_(Promise!vars)
<1>1. ASSUME NEW p \in Readers, Reader(p)
      PROVE  IInv' /\ [Promise!Next]_(Promise!vars)
  <2>1. CASE ReadPass(p)
    BY <2>1, StepReadPass DEF Promise!vars
  <2>2. CASE ReadCount(p)
    BY <2>2, StepReadCount DEF Promise!vars
  <2>3. CASE ReadEnter(p)
    <3>1. IInv' /\ Promise!Read(p)
      BY <2>3, StepReadEnter DEF Promise!Read
    <3> QED
      BY <3>1 DEF Promise!Next
  <2>4. CASE ReadUnlock(p)
    <3>1. IInv' /\ Promise!ReadEnd(p)
      BY <2>4, StepReadUnlock DEF Promise!ReadEnd
    <3> QED
      BY <3>1 DEF Promise!Next
  <2> QED
    BY <1>1, <2>1, <2>2, <2>3, <2>4 DEF Reader
<1>2. ASSUME NEW p \in Writers, Writer(p)
      PROVE  IInv' /\ [Promise!Next]_(Promise!vars)
  <2>1. CASE WriteAnnounce(p)
    BY <2>1, StepWriteAnnounce DEF Promise!vars
  <2>2. CASE WriteAcquire(p)
    <3>1. IInv' /\ Promise!Write(p)
      BY <2>2, StepWriteAcquire DEF Promise!Write
    <3> QED
      BY <3>1 DEF Promise!Next
  <2>3. CASE WriteRelease(p)
    <3>1. IInv' /\ Promise!WriteEnd(p)
      BY <2>3, StepWriteRelease DEF Promise!WriteEnd
    <3> QED
      BY <3>1 DEF Promise!Next
  <2>4. CASE WriteLeave(p)
    BY <2>4, StepWriteLeave DEF Promise!vars
  <2> QED
    BY <1>2, <2>1, <2>2, <2>3, <2>4 DEF Writer
<1>3. CASE UNCHANGED lockVars
  BY <1>3, StutterIInv DEF Promise!vars
<1> QED
  BY <1>1, <1>2, <1>3 DEF Next

LEMMA InvariantIInv == Spec => []IInv
<1>1. IInv /\ [Next]_lockVars => IInv'
  BY Step
<1> QED
  BY <1>1, InitIInv, PTL DEF Spec

-----------------------------------------------------------------------------
\* The two words never fall below zero, and each thread is where its code is.
THEOREM LockTypeCorrect == Spec => []TypeOK
<1>1. IInv => TypeOK
  BY DEF IInv
<1> QED
  BY <1>1, InvariantIInv, PTL

LEMMA WriterAlone ==
  ASSUME IInv
  PROVE  MutualExclusion
<1>1. SUFFICES ASSUME Writing # {} PROVE \E p \in Writers : Writing = {p}
  BY DEF IInv, MutualExclusion
<1>2. Cardinality(Writing) # 0
  BY <1>1, Finite, FS_EmptySet
<1>3. Cardinality(Writing) = 1
  BY <1>2, Finite DEF IInv, OneWriter
<1>4. PICK p : Writing = {p}
  BY <1>3, Finite, FS_Singleton
<1>5. p \in Writers
  BY <1>4 DEF Writing
<1> QED
  BY <1>4, <1>5

\* A writer inside of the lock is alone there (read_write_mutex).
THEOREM LockExcludes == Spec => []MutualExclusion
<1>1. IInv => MutualExclusion
  BY WriterAlone
<1> QED
  BY <1>1, InvariantIInv, PTL

\* Whatever the threads do at the lock, one who sees only who is inside sees
\* ReadersWriters.
THEOREM LockImplements == Spec => ImplementsReadersWriters
<1>1. Init => Promise!Init
  BY DEF Init, Promise!Init, Reading, Writing
<1>2. IInv /\ [Next]_lockVars => [Promise!Next]_(Promise!vars)
  BY Step
<1> QED
  BY <1>1, <1>2, InvariantIInv, PTL DEF Spec, ImplementsReadersWriters, Promise!Spec

\* The two words of the lock count the threads at it, at every step, and a writer
\* is let in alone (read_write_mutex), for any number of threads.
THEOREM LockIsSound == Spec => []LockSound
<1>1. IInv => LockSound
  BY WriterAlone DEF IInv, LockSound
<1> QED
  BY <1>1, InvariantIInv, PTL

-----------------------------------------------------------------------------
(* The taggers and the callers of swap.                                    *)

DataTyped ==
  /\ viterbi_ \in Viterbis
  /\ current \in [Writers -> Viterbis]
  /\ features \in [Readers -> Viterbis \cup {"none"}]
  /\ step \in [Readers \cup Writers ->
                 {"parse", "analyze", "answer", "swap", "exchange", "unlock", "done"}]
  /\ deleted \in [Viterbis -> Nat]

\* A tagger analyses inside of the lock, with the Viterbi in use.
AnalysesInUse ==
  \A p \in Readers : step[p] = "analyze" => at[p] = "reading" /\ features[p] = viterbi_

\* What a caller brings is unknown to the others until it is exchanged.
Unborn(p) ==
  viterbi_ # p /\ deleted[p] = 0 /\ \A q \in Writers : current[q] # p

BringsNew == \A p \in Writers : step[p] \in {"swap", "exchange"} => Unborn(p)

\* What a caller is going to delete is out of use.
DeletesOld == \A p \in Writers : step[p] = "unlock" => current[p] # viterbi_

SwapInv == IInv /\ DataTyped /\ AnalysesInUse /\ BringsNew /\ DeletesOld /\ ModelAlive

LEMMA SwapInitInv == SwapInit => SwapInv
<1> SUFFICES ASSUME SwapInit PROVE SwapInv
  OBVIOUS
<1>1. IInv
  BY InitIInv DEF SwapInit
<1>2. DataTyped
  BY DEF SwapInit, DataTyped, Viterbis
<1>3. \A p \in Readers : step[p] = "parse"
  BY DEF SwapInit
<1>4. \A p \in Writers : step[p] = "swap" /\ p # "first"
  <2>1. \A p \in Writers : step[p] = "swap"
    BY ThreadsAssumption DEF SwapInit
  <2> QED
    BY <2>1, FirstIsNew
<1> QED
  BY <1>1, <1>2, <1>3, <1>4
  DEF SwapInit, SwapInv, AnalysesInUse, BringsNew, DeletesOld, ModelAlive, Unborn, Viterbis

\* The lock does not see the rest of a thread.
LEMMA LockSteps ==
  SwapNext => [Next]_lockVars
<1>1. ASSUME NEW p \in Readers, Tagger(p) PROVE [Next]_lockVars
  BY <1>1 DEF Tagger, Lock, Analyze, Unlock, Answer, Next, Reader
<1>2. ASSUME NEW p \in Writers, Swapper(p) PROVE [Next]_lockVars
  BY <1>2 DEF Swapper, Fetch, WriteLock, Exchange, WriteUnlock, Delete, Next, Writer
<1> QED
  BY <1>1, <1>2 DEF SwapNext

\* A step of one reader leaves the places of the others.
LEMMA OthersStay ==
  ASSUME IInv, NEW p \in Readers \cup Writers, NEW place, Goto(p, place)
  PROVE  \A q \in (Readers \cup Writers) \ {p} : at'[q] = at[q]
BY Moved DEF IInv

LEMMA TaggerStep ==
  ASSUME SwapInv, NEW p \in Readers, Tagger(p)
  PROVE  DataTyped' /\ AnalysesInUse' /\ BringsNew' /\ DeletesOld' /\ ModelAlive'
<1> USE DEF SwapInv
<1>0. p \notin Writers
  BY ThreadsAssumption
<1>1. CASE Lock(p)
  <2>1. UNCHANGED dataVars /\ step[p] = "parse"
    BY <1>1 DEF Lock
  <2>2. \A q \in Readers \ {p} : at'[q] = at[q]
    BY <1>1, OthersStay DEF Lock, ReadPass, ReadCount, ReadEnter
  <2> QED
    BY <2>1, <2>2 DEF dataVars, DataTyped, AnalysesInUse, BringsNew, DeletesOld, ModelAlive, Unborn
<1>2. CASE Analyze(p)
  <2>1. /\ features' = [features EXCEPT ![p] = viterbi_]
        /\ step' = [step EXCEPT ![p] = "analyze"] /\ at[p] = "reading"
        /\ at' = at /\ viterbi_' = viterbi_ /\ current' = current /\ deleted' = deleted
    BY <1>2 DEF Analyze, Then, lockVars
  <2>2. DataTyped'
    BY <2>1 DEF DataTyped
  <2>3. AnalysesInUse'
    BY <2>1 DEF DataTyped, AnalysesInUse
  <2> QED
    BY <1>0, <2>1, <2>2, <2>3 DEF DataTyped, BringsNew, DeletesOld, ModelAlive, Unborn
<1>3. CASE Unlock(p)
  <2>1. /\ step' = [step EXCEPT ![p] = "answer"] /\ features' = features
        /\ viterbi_' = viterbi_ /\ current' = current /\ deleted' = deleted
    BY <1>3 DEF Unlock, Then
  <2>2. \A q \in Readers \ {p} : at'[q] = at[q]
    BY <1>3, OthersStay DEF Unlock, ReadUnlock
  <2>3. DataTyped'
    BY <2>1 DEF DataTyped
  <2>4. AnalysesInUse'
    BY <2>1, <2>2 DEF DataTyped, AnalysesInUse
  <2> QED
    BY <1>0, <2>1, <2>3, <2>4 DEF DataTyped, BringsNew, DeletesOld, ModelAlive, Unborn
<1>4. CASE Answer(p)
  <2>1. /\ features' = [features EXCEPT ![p] = "none"]
        /\ step' = [step EXCEPT ![p] = "parse"]
        /\ at' = at /\ viterbi_' = viterbi_ /\ current' = current /\ deleted' = deleted
    BY <1>4 DEF Answer, Then, lockVars
  <2>2. DataTyped'
    BY <2>1 DEF DataTyped
  <2>3. AnalysesInUse'
    BY <2>1 DEF DataTyped, AnalysesInUse
  <2> QED
    BY <1>0, <2>1, <2>2, <2>3 DEF DataTyped, BringsNew, DeletesOld, ModelAlive, Unborn
<1> QED
  BY <1>1, <1>2, <1>3, <1>4 DEF Tagger

LEMMA SwapperStep ==
  ASSUME SwapInv, NEW p \in Writers, Swapper(p)
  PROVE  DataTyped' /\ AnalysesInUse' /\ BringsNew' /\ DeletesOld' /\ ModelAlive'
<1> USE DEF SwapInv
<1>0. p \notin Readers /\ p \in Viterbis
  BY ThreadsAssumption DEF Viterbis
<1>1. CASE Fetch(p)
  <2>1. /\ current' = [current EXCEPT ![p] = viterbi_]
        /\ step' = [step EXCEPT ![p] = "exchange"] /\ step[p] = "swap"
        /\ at' = at /\ viterbi_' = viterbi_ /\ features' = features /\ deleted' = deleted
    BY <1>1 DEF Fetch, Then, lockVars
  <2>2. DataTyped'
    BY <2>1 DEF DataTyped
  <2>3. AnalysesInUse'
    BY <1>0, <2>1 DEF DataTyped, AnalysesInUse
  <2>4. BringsNew'
    <3> SUFFICES ASSUME NEW q \in Writers, step'[q] \in {"swap", "exchange"}
                 PROVE  Unborn(q)'
      BY DEF BringsNew
    <3>1. Unborn(q)
      BY <2>1 DEF DataTyped, BringsNew
    <3> QED
      BY <2>1, <3>1 DEF DataTyped, Unborn
  <2>5. DeletesOld'
    BY <2>1 DEF DataTyped, DeletesOld
  <2> QED
    BY <2>1, <2>2, <2>3, <2>4, <2>5 DEF ModelAlive
<1>2. CASE WriteLock(p)
  <2>1. UNCHANGED dataVars
    BY <1>2 DEF WriteLock
  <2>2. \A q \in Readers : at'[q] = at[q]
    BY <1>0, <1>2, OthersStay DEF WriteLock, WriteAnnounce, WriteAcquire
  <2> QED
    BY <2>1, <2>2 DEF dataVars, DataTyped, AnalysesInUse, BringsNew, DeletesOld, ModelAlive, Unborn
<1>3. CASE Exchange(p)
  <2>1. /\ viterbi_' = p /\ step' = [step EXCEPT ![p] = "unlock"] /\ step[p] = "exchange"
        /\ at' = at /\ at[p] = "writing"
        /\ current' = current /\ features' = features /\ deleted' = deleted
    BY <1>3 DEF Exchange, Then, lockVars
  <2>2. Unborn(p)
    BY <2>1 DEF BringsNew
  <2>3. DataTyped'
    BY <1>0, <2>1 DEF DataTyped
  <2>4. AnalysesInUse'
    <3>1. Reading = {}
      BY <2>1 DEF IInv, Writing
    <3>2. \A q \in Readers : step[q] # "analyze"
      BY <3>1 DEF AnalysesInUse, Reading
    <3> QED
      BY <1>0, <2>1, <3>2 DEF DataTyped, AnalysesInUse
  <2>5. BringsNew'
    <3> SUFFICES ASSUME NEW q \in Writers, step'[q] \in {"swap", "exchange"}
                 PROVE  Unborn(q)'
      BY DEF BringsNew
    <3>1. q # p /\ Unborn(q)
      BY <2>1 DEF DataTyped, BringsNew
    <3> QED
      BY <2>1, <3>1 DEF Unborn
  <2>6. DeletesOld'
    BY <2>1, <2>2 DEF DeletesOld, Unborn
  <2>7. ModelAlive'
    BY <2>1, <2>2 DEF ModelAlive, Unborn
  <2> QED
    BY <2>3, <2>4, <2>5, <2>6, <2>7
<1>4. CASE WriteUnlock(p)
  <2>1. UNCHANGED dataVars
    BY <1>4 DEF WriteUnlock
  <2>2. \A q \in Readers : at'[q] = at[q]
    BY <1>0, <1>4, OthersStay DEF WriteUnlock, WriteRelease, WriteLeave
  <2> QED
    BY <2>1, <2>2 DEF dataVars, DataTyped, AnalysesInUse, BringsNew, DeletesOld, ModelAlive, Unborn
<1>5. CASE Delete(p)
  <2>1. /\ deleted' = [deleted EXCEPT ![current[p]] = @ + 1]
        /\ step' = [step EXCEPT ![p] = "done"] /\ step[p] = "unlock"
        /\ at' = at /\ viterbi_' = viterbi_ /\ features' = features /\ current' = current
    BY <1>5 DEF Delete, Then, lockVars
  <2>2. /\ current[p] # viterbi_ /\ current[p] \in Viterbis
        /\ \A v \in Viterbis : v # current[p] => deleted'[v] = deleted[v]
    BY <2>1 DEF DeletesOld, DataTyped
  <2>3. DataTyped'
    BY <2>1, <2>2 DEF DataTyped
  <2>4. AnalysesInUse'
    BY <1>0, <2>1 DEF DataTyped, AnalysesInUse
  <2>5. BringsNew'
    <3> SUFFICES ASSUME NEW q \in Writers, step'[q] \in {"swap", "exchange"}
                 PROVE  Unborn(q)'
      BY DEF BringsNew
    <3>1. Unborn(q) /\ q \in Viterbis
      BY <2>1 DEF DataTyped, BringsNew, Viterbis
    <3> QED
      BY <2>1, <2>2, <3>1 DEF Unborn
  <2>6. DeletesOld'
    BY <2>1 DEF DataTyped, DeletesOld
  <2>7. ModelAlive'
    BY <2>1, <2>2 DEF ModelAlive, DataTyped
  <2> QED
    BY <2>3, <2>4, <2>5, <2>6, <2>7
<1> QED
  BY <1>1, <1>2, <1>3, <1>4, <1>5 DEF Swapper

LEMMA SwapStep ==
  ASSUME SwapInv, [SwapNext]_vars
  PROVE  SwapInv' /\ [Next]_lockVars
<1>1. [Next]_lockVars
  BY LockSteps DEF vars
<1>2. IInv'
  BY <1>1, Step DEF SwapInv
<1>3. ASSUME NEW p \in Readers, Tagger(p) PROVE SwapInv'
  BY <1>2, <1>3, TaggerStep DEF SwapInv
<1>4. ASSUME NEW p \in Writers, Swapper(p) PROVE SwapInv'
  BY <1>2, <1>4, SwapperStep DEF SwapInv
<1>5. CASE UNCHANGED vars
  BY <1>2, <1>5 DEF vars, lockVars, dataVars, SwapInv, DataTyped, AnalysesInUse, BringsNew,
                   DeletesOld, ModelAlive, Unborn
<1> QED
  BY <1>1, <1>3, <1>4, <1>5 DEF SwapNext

LEMMA InvariantSwapInv == SwapSpec => []SwapInv
<1>1. SwapInv /\ [SwapNext]_vars => SwapInv'
  BY SwapStep
<1> QED
  BY <1>1, SwapInitInv, PTL DEF SwapSpec

\* However many callers swap at a time and whenever each of them read the old
\* Viterbi, nothing is analysed with one that has been deleted, and the one in
\* use never is (TaggerImpl::parse, ModelImpl::swap).
THEOREM SwapKeepsModels == SwapSpec => []ModelsAlive
<1>1. ASSUME SwapInv PROVE ModelsAlive
  BY <1>1 DEF SwapInv, AnalysesInUse, ModelAlive, ModelsAlive, AnalysisAlive
<1> QED
  BY <1>1, InvariantSwapInv, PTL

\* Taggers and callers of swap use the lock as its own specification says.
THEOREM SwapUsesLock == SwapSpec => Init /\ [][Next]_lockVars
<1>1. SwapInv /\ [SwapNext]_vars => [Next]_lockVars
  BY SwapStep
<1>2. SwapInit => Init
  BY DEF SwapInit
<1> QED
  BY <1>1, <1>2, InvariantSwapInv, PTL DEF SwapSpec

\* So it counts them and lets a writer in alone, as it does any threads.
THEOREM SwapLockSound == SwapSpec => []LockSound
<1>1. ASSUME IInv PROVE LockSound
  BY <1>1, WriterAlone DEF IInv, LockSound
<1>2. SwapInv => LockSound
  BY <1>1 DEF SwapInv
<1> QED
  BY <1>2, InvariantSwapInv, PTL

\* And those who parse and swap see readers and writers.
THEOREM SwapImplements == SwapSpec => ImplementsReadersWriters
<1>1. SwapInit => Promise!Init
  BY DEF SwapInit, Init, Promise!Init, Reading, Writing
<1>2. ASSUME SwapInv, [SwapNext]_vars PROVE [Promise!Next]_(Promise!vars)
  BY <1>2, SwapStep, Step DEF SwapInv
<1> QED
  BY <1>1, <1>2, InvariantSwapInv, PTL DEF SwapSpec, ImplementsReadersWriters, Promise!Spec
================================================================================
