---------------------------- MODULE ReadWriteMutex ----------------------------
(***************************************************************************)
(* mecab/thread.h: read_write_mutex, "a simple non-scalable                 *)
(* writer-preference lock".  Threads spin on two words: l_ holds a flag for *)
(* the writer and, above it, the number of readers; write_pending_ counts   *)
(* the writers that wait or write.  Every access of a word is a step; a     *)
(* spin that does not succeed changes nothing.                              *)
(*                                                                         *)
(* MeCab has this lock where it has atomic operations (HAVE_ATOMIC_OPS), in *)
(* this build on Windows.                                                   *)
(***************************************************************************)
EXTENDS Integers, FiniteSets

CONSTANTS Readers, Writers  \* threads

ASSUME ThreadsAssumption ==
  IsFiniteSet(Readers) /\ IsFiniteSet(Writers) /\ Readers \cap Writers = {}

kWaFlag == 1
kRcIncr == 2

VARIABLES
  l_, write_pending_,
  at  \* where each thread is

lockVars == <<l_, write_pending_, at>>

Goto(p, place) == at' = [at EXCEPT ![p] = place]
WriterFlag == l_ % 2  \* l_ & kWaFlag

Init ==
  /\ l_ = 0 /\ write_pending_ = 0
  /\ at = [p \in Readers \cup Writers |-> "out"]

-----------------------------------------------------------------------------
(* read_lock and read_unlock                                               *)
\* Mutant: readers do not wait for writers.
ReadPassAnyway(p) ==
  /\ at[p] = "out"
  /\ Goto(p, "counting")
  /\ UNCHANGED <<l_, write_pending_>>

ReadPass(p) ==
  /\ at[p] = "out" /\ write_pending_ <= 0
  /\ Goto(p, "counting")
  /\ UNCHANGED <<l_, write_pending_>>

ReadCount(p) ==
  /\ at[p] = "counting"
  /\ l_' = l_ + kRcIncr
  /\ Goto(p, "counted")
  /\ UNCHANGED write_pending_

ReadEnter(p) ==
  /\ at[p] = "counted" /\ WriterFlag = 0
  /\ Goto(p, "reading")
  /\ UNCHANGED <<l_, write_pending_>>

ReadUnlock(p) ==
  /\ at[p] = "reading"
  /\ l_' = l_ - kRcIncr
  /\ Goto(p, "out")
  /\ UNCHANGED write_pending_

-----------------------------------------------------------------------------
(* write_lock and write_unlock                                             *)
WriteAnnounce(p) ==
  /\ at[p] = "out"
  /\ write_pending_' = write_pending_ + 1
  /\ Goto(p, "pending")
  /\ UNCHANGED l_

\* Mutant: the flag is compared and not the readers.
WriteAcquireFlag(p) ==
  /\ at[p] = "pending" /\ WriterFlag = 0
  /\ l_' = l_ + kWaFlag
  /\ Goto(p, "writing")
  /\ UNCHANGED write_pending_

\* compare_and_swap(&l_, 0, kWaFlag) gives the old value.
WriteAcquire(p) ==
  /\ at[p] = "pending" /\ l_ = 0
  /\ l_' = kWaFlag
  /\ Goto(p, "writing")
  /\ UNCHANGED write_pending_

\* Mutant: the word is cleared, with the readers that have counted themselves.
WriteReleaseClears(p) ==
  /\ at[p] = "writing"
  /\ l_' = 0
  /\ Goto(p, "leaving")
  /\ UNCHANGED write_pending_

WriteRelease(p) ==
  /\ at[p] = "writing"
  /\ l_' = l_ - kWaFlag
  /\ Goto(p, "leaving")
  /\ UNCHANGED write_pending_

WriteLeave(p) ==
  /\ at[p] = "leaving"
  /\ write_pending_' = write_pending_ - 1
  /\ Goto(p, "out")
  /\ UNCHANGED l_

Reader(p) == ReadPass(p) \/ ReadCount(p) \/ ReadEnter(p) \/ ReadUnlock(p)
Writer(p) == WriteAnnounce(p) \/ WriteAcquire(p) \/ WriteRelease(p) \/ WriteLeave(p)

Next == (\E p \in Readers : Reader(p)) \/ (\E p \in Writers : Writer(p))

\* A thread that is outside need not come back; one that has begun goes on.
Spec ==
  /\ Init /\ [][Next]_lockVars
  /\ \A p \in Readers : WF_lockVars(ReadCount(p) \/ ReadEnter(p) \/ ReadUnlock(p))
  /\ \A p \in Writers : WF_lockVars(WriteAcquire(p) \/ WriteRelease(p) \/ WriteLeave(p))
-----------------------------------------------------------------------------
Reading == {p \in Readers : at[p] = "reading"}
Writing == {p \in Writers : at[p] = "writing"}

TypeOK ==
  /\ l_ \in Nat /\ write_pending_ \in Nat
  /\ \A p \in Readers : at[p] \in {"out", "counting", "counted", "reading"}
  /\ \A p \in Writers : at[p] \in {"out", "pending", "writing", "leaving"}

\* A writer is alone.  (A reader that has counted itself waits for the flag, and
\* a writer takes the flag only from a word that is zero.)
MutualExclusion ==
  Writing # {} => Reading = {} /\ \E p \in Writers : Writing = {p}

\* The readers that have counted themselves, the writers that are announced.
Counted == {p \in Readers : at[p] \in {"counted", "reading"}}
Announced == {p \in Writers : at[p] # "out"}

\* The two words are changed one at a time and by many, yet always say who is at
\* the lock: a release takes away what its own thread has added, however many
\* have come and gone meanwhile.
WordsCount ==
  /\ l_ = 2 * Cardinality(Counted) + Cardinality(Writing)
  /\ write_pending_ = Cardinality(Announced)

\* The lock implements its promise, which knows neither l_ nor write_pending_.
Promise == INSTANCE ReadersWriters WITH reading <- Reading, writing <- Writing
ImplementsReadersWriters == Promise!Spec

\* Readers and writers never wait for one another for ever: a writer that has
\* announced itself keeps new readers out, so that some writer writes.  (The two
\* loops look at different words, and a reader counts itself before it looks at
\* the flag.)
SomeWriterWrites == (\E p \in Writers : at[p] = "pending") ~> Writing # {}

\* The two words count the threads at the lock, and a writer inside is alone.
LockSound == TypeOK /\ WordsCount /\ MutualExclusion
================================================================================
