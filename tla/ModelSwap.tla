------------------------------- MODULE ModelSwap -------------------------------
(***************************************************************************)
(* mecab/tagger.cc: taggers parse with the Viterbi of their model while     *)
(* other threads swap another model in.  Both hold the lock of              *)
(* ReadWriteMutex while they use the pointer viterbi_; what is deleted is   *)
(* read before it, and the answer is written after it.                      *)
(***************************************************************************)
EXTENDS ReadWriteMutex

\* The Viterbi the model starts with is none that a caller brings.
ASSUME FirstIsNew == "first" \notin Writers

\* Readers are taggers, writers the callers of ModelImpl::swap, one call each.
VARIABLES
  viterbi_,   \* the model's: "first", or the caller that has brought it
  current,    \* of each caller: current_viterbi
  features,   \* of each tagger: whose dictionary the nodes of its lattice point into
  step,       \* where each thread is outside of the lock
  deleted     \* how often each Viterbi has been deleted

dataVars == <<viterbi_, current, features, step, deleted>>
vars == <<lockVars, dataVars>>

Viterbis == {"first"} \cup Writers
Then(p, place) == step' = [step EXCEPT ![p] = place]

SwapInit ==
  /\ Init
  /\ viterbi_ = "first"
  /\ current = [p \in Writers |-> "first"]
  /\ features = [p \in Readers |-> "none"]
  /\ step = [p \in Readers \cup Writers |-> IF p \in Readers THEN "parse" ELSE "swap"]
  /\ deleted = [v \in Viterbis |-> 0]

-----------------------------------------------------------------------------
(* TaggerImpl::parse                                                       *)
Lock(p) ==
  /\ step[p] = "parse"
  /\ ReadPass(p) \/ ReadCount(p) \/ ReadEnter(p)
  /\ UNCHANGED dataVars

Analyze(p) ==
  /\ step[p] = "parse" /\ at[p] = "reading"
  /\ features' = [features EXCEPT ![p] = viterbi_]
  /\ Then(p, "analyze")
  /\ UNCHANGED <<lockVars, viterbi_, current, deleted>>

Unlock(p) ==
  /\ step[p] = "analyze"
  /\ ReadUnlock(p)
  /\ Then(p, "answer")
  /\ UNCHANGED <<viterbi_, current, features, deleted>>

\* lattice->toString() reads the features of the nodes, behind the lock.
Answer(p) ==
  /\ step[p] = "answer"
  /\ features' = [features EXCEPT ![p] = "none"]
  /\ Then(p, "parse")
  /\ UNCHANGED <<lockVars, viterbi_, current, deleted>>

-----------------------------------------------------------------------------
(* ModelImpl::swap                                                         *)
Fetch(p) ==
  /\ step[p] = "swap"
  /\ current' = [current EXCEPT ![p] = viterbi_]
  /\ Then(p, "exchange")
  /\ UNCHANGED <<lockVars, viterbi_, features, deleted>>

WriteLock(p) ==
  /\ step[p] = "exchange"
  /\ WriteAnnounce(p) \/ WriteAcquire(p)
  /\ UNCHANGED dataVars

\* Mutant: the lock need not be taken.
ExchangeUnlocked(p) ==
  /\ step[p] = "exchange" /\ at[p] \in {"out", "writing"}
  /\ viterbi_' = p
  /\ Then(p, "unlock")
  /\ UNCHANGED <<lockVars, current, features, deleted>>

Exchange(p) ==
  /\ step[p] = "exchange" /\ at[p] = "writing"
  /\ viterbi_' = p
  /\ Then(p, "unlock")
  /\ UNCHANGED <<lockVars, current, features, deleted>>

WriteUnlock(p) ==
  /\ step[p] = "unlock"
  /\ WriteRelease(p) \/ WriteLeave(p)
  /\ UNCHANGED dataVars

\* Mutant: what is deleted is read when the lock has been left.
DeleteModel(p) ==
  /\ step[p] = "unlock" /\ at[p] = "out"
  /\ deleted' = [deleted EXCEPT ![viterbi_] = @ + 1]
  /\ Then(p, "done")
  /\ UNCHANGED <<lockVars, viterbi_, current, features>>

\* Mutant: a swap that another has overtaken begins anew.
DeleteRetry(p) ==
  /\ step[p] = "unlock" /\ at[p] = "out"
  /\ Then(p, IF viterbi_ = p THEN "done" ELSE "swap")
  /\ UNCHANGED <<lockVars, viterbi_, current, features, deleted>>

Delete(p) ==
  /\ step[p] = "unlock" /\ at[p] = "out"
  /\ deleted' = [deleted EXCEPT ![current[p]] = @ + 1]
  /\ Then(p, "done")
  /\ UNCHANGED <<lockVars, viterbi_, current, features>>

Tagger(p) == Lock(p) \/ Analyze(p) \/ Unlock(p) \/ Answer(p)
Swapper(p) == Fetch(p) \/ WriteLock(p) \/ Exchange(p) \/ WriteUnlock(p) \/ Delete(p)

SwapNext == (\E p \in Readers : Tagger(p)) \/ (\E p \in Writers : Swapper(p))

\* Every thread goes on; a tagger parses one text after the other.
SwapSpec ==
  /\ SwapInit /\ [][SwapNext]_vars
  /\ \A p \in Readers : WF_vars(Tagger(p))
  /\ \A p \in Writers : WF_vars(Swapper(p))
-----------------------------------------------------------------------------
\* No text is analysed with a Viterbi that has been deleted, however many
\* callers swap at a time.  (swap deletes the old one after it has had the lock.)
\* This is about the lock: the answer is written behind it ("answer"), and
\* what it points into may be gone by then.
AnalysisAlive ==
  \A p \in Readers : step[p] = "analyze" => deleted[features[p]] = 0

\* The model in use is never deleted.  (current_viterbi may be read long before
\* the exchange.)
ModelAlive == deleted[viterbi_] = 0

\* A text that is waiting is parsed, and a swap ends, while others go on.
ParsesOn == \A p \in Readers : step[p] = "parse" ~> step[p] = "answer"
SwapEnds == \A p \in Writers : <>(step[p] = "done")

\* swap is thread safe: no Viterbi is deleted twice.
\* (mecab.h of Model::swap: "This method is thread safe.")
DeletedOnce == \A v \in Viterbis : deleted[v] <= 1

\* Under the lock, what is analysed with, now or next, has not been deleted.
ModelsAlive == AnalysisAlive /\ ModelAlive

\* Parsing, waiting writers and swaps all go on, whoever else is at the lock.
ThreadsGoOn == SomeWriterWrites /\ ParsesOn /\ SwapEnds
================================================================================
