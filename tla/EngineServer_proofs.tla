------------------------- MODULE EngineServer_proofs -------------------------
(***************************************************************************)
(* Theorems about EngineServer for every number of workers, requests and   *)
(* pages: type correctness, the isolation of /synthesis replies, models    *)
(* that are there when a core uses them, causes for every death, and what  *)
(* a client that is alone sees.                                            *)
(***************************************************************************)
EXTENDS EngineServer, FiniteSetTheorems, TLAPS

\* TypeOK is inductive only together with the fact that temp.wav exists for
\* whoever writes or sends it.
TempExists == \A w \in Workers : pc[w] \in {"write", "send"} => temp \in Seq(Page)

TypeInv == TypeOK /\ TempExists

LEMMA InputFacts ==
  ASSUME TypeOK, NEW r \in Requests
  PROVE  input[r] \in InputType /\ input[r].pages \in Nat \ {0}
BY ServerAssumption DEF TypeOK, InputType

LEMMA PageWrittenType ==
  ASSUME NEW file \in Seq(Page), NEW k \in Nat, NEW p \in Page
  PROVE  PageWritten(file, k, p) \in Seq(Page)
<1>1. DEFINE n == IF Len(file) > k THEN Len(file) ELSE k
<1>2. n \in Nat
  OBVIOUS
<1>3. PageWritten(file, k, p) \in [1..n -> Page]
  BY DEF PageWritten, Page
<1>4. QED
  BY <1>2, <1>3

LEMMA RespondType ==
  ASSUME TypeInv, NEW w \in Workers, NEW reply \in ReplyType, pc[w] # "idle",
         Respond(w, reply)
  PROVE  /\ response' \in [Requests -> ReplyType \cup {NoResponse}]
         /\ pc' \in [Workers -> PCs] /\ alive' \in BOOLEAN
         /\ req' \in [Workers -> Requests \cup {NoRequest}]
         /\ \A v \in Workers : pc'[v] # "idle" => req'[v] \in Requests
         /\ \A v \in Workers : pc'[v] \in {"write", "send"} => pc[v] \in {"write", "send"}
BY DEF TypeInv, TypeOK, Respond, PCs

LEMMA GotoType ==
  ASSUME TypeInv, NEW w \in Workers, NEW l \in PCs, pc[w] # "idle", Goto(w, l)
  PROVE  /\ response' \in [Requests -> ReplyType \cup {NoResponse}]
         /\ pc' \in [Workers -> PCs] /\ alive' \in BOOLEAN
         /\ req' \in [Workers -> Requests \cup {NoRequest}]
         /\ \A v \in Workers : pc'[v] # "idle" => req'[v] \in Requests
         /\ \A v \in Workers :
              pc'[v] \in {"write", "send"} => pc[v] \in {"write", "send"} \/ v = w
BY DEF TypeInv, TypeOK, Goto, PCs

LEMMA DieType ==
  ASSUME TypeInv, NEW w \in Workers, pc[w] # "idle", Die(w)
  PROVE  /\ response' \in [Requests -> ReplyType \cup {NoResponse}]
         /\ pc' \in [Workers -> PCs] /\ alive' \in BOOLEAN
         /\ req' \in [Workers -> Requests \cup {NoRequest}]
         /\ \A v \in Workers : pc'[v] # "idle" => req'[v] \in Requests
         /\ \A v \in Workers : pc'[v] \in {"write", "send"} => pc[v] \in {"write", "send"}
BY DEF TypeInv, TypeOK, Die, PCs

LEMMA PlainReplies ==
  /\ EmptyText \in ReplyType /\ Json \in ReplyType
  /\ InternalServerError \in ReplyType
BY DEF EmptyText, Json, InternalServerError, Reply, ReplyType

LEMMA TouchedType ==
  ASSUME TypeInv, NEW w \in Workers, NEW own \in SUBSET Requests, pc[w] # "idle"
  PROVE  Touched(w, own) \in [Workers -> SUBSET Requests]
BY DEF TypeInv, TypeOK, Touched

LEMMA CallType == ASSUME NEW i \in InputType PROVE FirstCall(i) \in Calls
BY DEF InputType, Routes, FirstCall, Calls

LEMMA TypeInit == Init => TypeInv
<1> SUFFICES ASSUME Init PROVE TypeInv
  OBVIOUS
<1>1. <<Leftover>> \in Seq(Page)
  BY DEF Page
<1>2. loaded \in [EngineVersions -> SUBSET Styles]
  BY DEF Init
<1>3. temp \in Seq(Page) \cup {NoFile}
  BY <1>1 DEF Init
<1>4. jobs \in Seq(Requests) /\ pages \in [Workers -> Seq(Page)]
  BY DEF Init
<1>5. TypeOK
  BY <1>2, <1>3, <1>4 DEF Init, TypeOK, PCs, Calls
<1>6. QED
  BY <1>5 DEF Init, TypeInv, TempExists

\* The steps that only compute, load models or answer without a file.
LEMMA TypeCompute ==
  ASSUME TypeInv, NEW w \in Workers,
         Handle(w) \/ CheckModel(w) \/ LoadModel(w) \/ ForwardStep(w)
  PROVE  TypeInv'
<1> USE DEF TypeInv, TypeOK, TempExists
<1>1. pc[w] # "idle" /\ req[w] \in Requests /\ input[req[w]] \in InputType
  BY InputFacts DEF Handle, CheckModel, LoadModel, ForwardStep, At, ForwardLengths,
     ForwardPitch, ForwardDecode, ForwardConsonantLength, ForwardSingF0,
     ForwardSingVolume
<1>2. CASE Handle(w)
  <2>1. CASE Respond(w, EmptyText) /\ UNCHANGED modelVars
    BY <1>1, <1>2, <2>1, RespondType, PlainReplies
    DEF Handle, modelVars, fileVars, queueVars
  <2>2. CASE Respond(w, InternalServerError) /\ UNCHANGED modelVars
    BY <1>1, <1>2, <2>2, RespondType, PlainReplies
    DEF Handle, modelVars, fileVars, queueVars
  <2>3. CASE Die(w) /\ UNCHANGED modelVars
    BY <1>1, <1>2, <2>3, DieType DEF Handle, modelVars, fileVars, queueVars
  <2>4. CASE /\ Goto(w, "check")
             /\ call' = [call EXCEPT ![w] = FirstCall(input[req[w]])]
             /\ UNCHANGED <<loaded, result, loads>>
    <3>1. \A v \in Workers : pc'[v] \in {"write", "send"} => pc[v] \in {"write", "send"}
      BY <2>4, <1>1 DEF Goto
    <3>2. FirstCall(input[req[w]]) \in Calls
      BY <1>1, CallType
    <3>3. "check" \in PCs
      BY DEF PCs
    <3>4. QED
      BY <1>1, <1>2, <2>4, <3>1, <3>2, <3>3, GotoType
      DEF Handle, modelVars, fileVars, queueVars
  <2>5. QED
    BY <1>2, <2>1, <2>2, <2>3, <2>4 DEF Handle
<1>3. CASE CheckModel(w) \/ LoadModel(w)
  <2>1. /\ input' = input /\ sent' = sent /\ jobs' = jobs /\ call' = call
        /\ result' = result /\ UNCHANGED fileVars
    BY <1>3 DEF CheckModel, LoadModel, queueVars, modelVars
  <2>2. \E l \in {"load", "forward"} : Goto(w, l)
    BY <1>3 DEF CheckModel, LoadModel
  <2>3. PICK l \in {"load", "forward"} : Goto(w, l)
    BY <2>2
  <2>4. l \in PCs
    BY DEF PCs
  <2>5. \A v \in Workers : pc'[v] \in {"write", "send"} => pc[v] \in {"write", "send"}
    BY <2>3, <1>1 DEF Goto
  <2>6. Loadable \in [EngineVersions -> SUBSET Styles]
    BY ServerAssumption
  <2>7. /\ loaded' \in [EngineVersions -> SUBSET Styles]
        /\ loads' \in [Workers -> {"none", "ok", "failed"}]
    <3>1. CASE CheckModel(w)
      BY <3>1 DEF CheckModel, modelVars
    <3>2. CASE LoadModel(w)
      <4>1. PICK ok \in BOOLEAN :
              /\ ok => Style(w) \in Loadable[Engine(req[w])]
              /\ loaded' = IF ok THEN [loaded EXCEPT ![Engine(req[w])] = @ \cup {Style(w)}]
                                 ELSE loaded
              /\ loads' = [loads EXCEPT ![w] = IF ok THEN "ok" ELSE "failed"]
        BY <3>2 DEF LoadModel
      <4>2. CASE Engine(req[w]) \in EngineVersions
        BY <4>1, <4>2, <2>6
      <4>3. CASE Engine(req[w]) \notin EngineVersions
        BY <4>1, <4>3
      <4>4. QED
        BY <4>2, <4>3
    <3>3. QED
      BY <1>3, <3>1, <3>2
  <2>8. QED
    BY <1>1, <2>1, <2>3, <2>4, <2>5, <2>7, GotoType DEF fileVars
<1>4. CASE ForwardStep(w)
  <2>1. UNCHANGED <<input, queueVars, loaded, loads, fileVars>>
    BY <1>4 DEF ForwardStep, ForwardLengths, ForwardPitch, ForwardDecode,
       ForwardConsonantLength, ForwardSingF0, ForwardSingVolume, modelVars
  <2>2. call' \in [Workers -> Calls]
    <3>1. NextCall(call[w]) \in Calls
      BY DEF NextCall, Calls
    <3>2. call' = call \/ call' = [call EXCEPT ![w] = NextCall(call[w])]
      BY <1>4 DEF ForwardStep, ForwardLengths, ForwardPitch, ForwardDecode,
         ForwardConsonantLength, ForwardSingF0, ForwardSingVolume, modelVars
    <3>3. QED
      BY <3>1, <3>2
  <2>7. result' \in [Workers -> BOOLEAN]
    <3>1. result' = result \/ \E b \in BOOLEAN : result' = [result EXCEPT ![w] = b]
      <4>1. Computes(w) \in BOOLEAN
        BY DEF Computes
      <4>2. CASE ForwardConsonantLength(w)
        BY <4>1, <4>2, Zenon DEF ForwardConsonantLength
      <4>3. CASE ~ForwardConsonantLength(w)
        BY <1>4, <4>3 DEF ForwardStep, ForwardLengths, ForwardPitch, ForwardDecode,
           ForwardSingF0, ForwardSingVolume, modelVars
      <4>4. QED
        BY <4>2, <4>3
    <3>2. QED
      BY <3>1
  <2>3. \/ Respond(w, Json) \/ Respond(w, InternalServerError) \/ Die(w)
        \/ Goto(w, "check") \/ Goto(w, "open")
        \/ UNCHANGED <<response, alive, pc, req>>
    BY <1>4 DEF ForwardStep, ForwardLengths, ForwardPitch, ForwardDecode,
       ForwardConsonantLength, ForwardSingF0, ForwardSingVolume
  <2>4. "check" \in PCs /\ "open" \in PCs
    BY DEF PCs
  <2>5. ASSUME NEW l \in {"check", "open"}, Goto(w, l)
        PROVE  \A v \in Workers : pc'[v] \in {"write", "send"} => pc[v] \in {"write", "send"}
    BY <2>5, <1>1 DEF Goto
  <2>6. QED
    BY <1>1, <2>1, <2>2, <2>3, <2>4, <2>5, <2>7, RespondType, PlainReplies, DieType, GotoType
    DEF queueVars, fileVars
<1>5. QED
  BY <1>2, <1>3, <1>4

\* The steps that save, map and send the temporary file.
LEMMA TypeFile ==
  ASSUME TypeInv, NEW w \in Workers, SaveStep(w) \/ SendStep(w)
  PROVE  TypeInv'
<1> USE DEF TypeInv, TypeOK, TempExists
<1>1. pc[w] # "idle" /\ req[w] \in Requests /\ req[w] \in Page
  BY DEF SaveStep, SendStep, OpenTemp, OpenTempFails, WritePage, WritePageFails,
     CloseTemp, MapTemp, MapEmptyTemp, MapNoTemp, SendPage, SendFault, SendDone,
     At, Page
<1>2. UNCHANGED <<input, queueVars, modelVars>>
  BY DEF SaveStep, SendStep, OpenTemp, OpenTempFails, WritePage, WritePageFails,
     CloseTemp, MapTemp, MapEmptyTemp, MapNoTemp, SendPage, SendFault, SendDone
<1>3. {"write", "map", "send"} \subseteq PCs
  BY DEF PCs
<1> USE DEF queueVars, modelVars, fileVars, At
<1>4. CASE OpenTemp(w)
  <2>1. temp' \in Seq(Page)
    BY <1>4 DEF OpenTemp, Opened
  <2>2. touched' \in [Workers -> SUBSET Requests]
    BY <1>1, <1>4, TouchedType DEF OpenTemp
  <2>3. QED
    BY <1>1, <1>2, <1>3, <1>4, <2>1, <2>2, GotoType DEF OpenTemp
<1>5. CASE OpenTempFails(w)
  BY <1>1, <1>2, <1>3, <1>5, GotoType DEF OpenTempFails, Goto
<1>6. CASE WritePage(w)
  <2>1. temp' \in Seq(Page)
    BY <1>1, <1>6, PageWrittenType DEF WritePage
  <2>2. touched' \in [Workers -> SUBSET Requests]
    BY <1>1, <1>6, TouchedType DEF WritePage
  <2>3. QED
    BY <1>1, <1>2, <1>6, <2>1, <2>2 DEF WritePage
<1>7. CASE WritePageFails(w) \/ CloseTemp(w)
  BY <1>1, <1>2, <1>3, <1>7, GotoType DEF WritePageFails, CloseTemp, Goto
<1>8. CASE MapTemp(w)
  <2>1. temp \in Seq(Page)
    BY <1>8 DEF MapTemp
  <2>2. size' \in [Workers -> Nat] /\ pages' \in [Workers -> Seq(Page)]
    BY <1>8, <2>1 DEF MapTemp, MappedSize
  <2>3. QED
    BY <1>1, <1>2, <1>3, <1>8, <2>1, <2>2, GotoType DEF MapTemp
<1>9. CASE SendPage(w)
  <2>1. temp \in Seq(Page) /\ pages[w] \in Seq(Page)
    BY <1>9 DEF SendPage
  <2>2. temp[Len(pages[w]) + 1] \in Page
    BY <1>9, <2>1 DEF SendPage
  <2>3. Append(pages[w], temp[Len(pages[w]) + 1]) \in Seq(Page)
    BY <2>1, <2>2
  <2>4. QED
    BY <1>2, <1>9, <2>3 DEF SendPage
<1>10. CASE MapEmptyTemp(w) \/ MapNoTemp(w) \/ SendFault(w) \/ SendDone(w)
  <2>1. \E reply \in ReplyType : Respond(w, reply)
    <3>2. <<>> \in Seq(Page) /\ pages[w] \in Seq(Page)
      OBVIOUS
    <3>3. /\ Reply(200, "wav", <<>>, TRUE, saved[w], touched[w]) \in ReplyType
          /\ Reply(404, "none", <<>>, TRUE, saved[w], touched[w]) \in ReplyType
          /\ WavReply(w, 200, TRUE) \in ReplyType
          /\ WavReply(w, 200, FALSE) \in ReplyType
      BY <3>2 DEF WavReply, Reply, ReplyType
    <3>4. \/ Respond(w, Reply(200, "wav", <<>>, TRUE, saved[w], touched[w]))
          \/ Respond(w, Reply(404, "none", <<>>, TRUE, saved[w], touched[w]))
          \/ Respond(w, WavReply(w, 200, TRUE))
          \/ Respond(w, WavReply(w, 200, FALSE))
      <4>1. CASE MapEmptyTemp(w)
        BY <4>1 DEF MapEmptyTemp
      <4>2. CASE MapNoTemp(w)
        BY <4>2 DEF MapNoTemp
      <4>3. CASE SendFault(w)
        BY <4>3 DEF SendFault
      <4>4. CASE SendDone(w)
        BY <4>4 DEF SendDone
      <4>5. QED
        BY <1>10, <4>1, <4>2, <4>3, <4>4
    <3>5. QED
      BY <3>3, <3>4, Zenon
  <2>2. UNCHANGED fileVars
    BY <1>10 DEF MapEmptyTemp, MapNoTemp, SendFault, SendDone
  <2>3. QED
    BY <1>1, <1>2, <2>1, <2>2, RespondType
<1>11. QED
  BY <1>4, <1>5, <1>6, <1>7, <1>8, <1>9, <1>10 DEF SaveStep, SendStep

LEMMA TypeNext == TypeInv /\ [Next]_vars => TypeInv'
<1> SUFFICES ASSUME TypeInv, [Next]_vars PROVE TypeInv'
  OBVIOUS
<1>1. ASSUME NEW r \in Requests, Accept(r) PROVE TypeInv'
  BY <1>1 DEF Accept, TypeInv, TypeOK, TempExists, modelVars, fileVars
<1>2. ASSUME NEW w \in Workers, Take(w) PROVE TypeInv'
  <2>1. Head(jobs) \in Requests /\ Tail(jobs) \in Seq(Requests)
    BY <1>2 DEF Take, TypeInv, TypeOK
  <2>2. QED
    BY <1>2, <2>1 DEF Take, TypeInv, TypeOK, TempExists, PCs, fileVars
<1>3. CASE UNCHANGED vars
  BY <1>3 DEF vars, queueVars, modelVars, fileVars, TypeInv, TypeOK, TempExists
<1>4. QED
  BY <1>1, <1>2, <1>3, TypeCompute, TypeFile DEF Next, WorkerStep, Quiet

(***************************************************************************)
(* Every variable keeps its type, whatever the size of the pool and the    *)
(* workload: in particular a worker that serves always has a request, and  *)
(* what it writes and sends are sequences of pages.                        *)
(***************************************************************************)
THEOREM TypeCorrect == Spec => []TypeOK
<1>1. TypeInv => TypeOK
  BY DEF TypeInv
<1>2. QED
  BY TypeInit, TypeNext, <1>1, PTL DEF Spec

-----------------------------------------------------------------------------
(* Isolation of the replies of /synthesis.                                 *)

RepliesIntact == WaveIsOwn /\ BodyProvenance /\ CutOnlyByOthers

IsolationInv == TypeInv /\ Isolation /\ RepliesIntact

\* A worker at whose place nothing happens keeps what it knows.
LEMMA Frame ==
  ASSUME NEW v \in Workers, Isolated(v), input' = input, temp' = temp,
         pc'[v] = pc[v], req'[v] = req[v], pos'[v] = pos[v], size'[v] = size[v],
         pages'[v] = pages[v], saved'[v] = saved[v], touched'[v] = touched[v]
  PROVE  Isolated(v)'
BY DEF Isolated, Intact, SentIntact

\* So does one that is not between opening temp.wav and its last page.
LEMMA Outside ==
  ASSUME NEW v \in Workers, pc'[v] \notin {"write", "map", "send"}
  PROVE  Isolated(v)'
BY DEF Isolated

\* Replies without a wave, or no reply at all, leave the replies intact.
LEMMA NoWave ==
  ASSUME TypeInv, RepliesIntact, input' = input, NEW w \in Workers,
         pc[w] # "idle",
         \/ response' = response
         \/ \E reply \in ReplyType : reply.kind # "wav" /\ Respond(w, reply)
  PROVE  RepliesIntact'
<1>1. \A r \in Requests :
        \/ response'[r] = response[r]
        \/ response'[r].kind # "wav"
  BY DEF Respond, TypeInv, TypeOK
<1>2. \A r \in WavReplies' : r \in WavReplies /\ response'[r] = response[r]
  BY <1>1 DEF WavReplies
<1>3. QED
  BY <1>2, ZenonT(50) DEF RepliesIntact, WaveIsOwn, BodyProvenance, CutOnlyByOthers, Wave

LEMMA PlainKinds ==
  EmptyText.kind # "wav" /\ Json.kind # "wav" /\ InternalServerError.kind # "wav"
BY DEF EmptyText, Json, InternalServerError, Reply

LEMMA IsolationCompute ==
  ASSUME IsolationInv, NEW w \in Workers,
         Handle(w) \/ CheckModel(w) \/ LoadModel(w) \/ ForwardStep(w)
  PROVE  Isolation' /\ RepliesIntact'
<1>1. UNCHANGED <<input, fileVars>> /\ pc[w] # "idle"
  BY DEF Handle, CheckModel, LoadModel, ForwardStep, ForwardLengths, ForwardPitch,
     ForwardDecode, ForwardConsonantLength, ForwardSingF0, ForwardSingVolume, At
<1>2. pc[w] \notin {"write", "map", "send"}
  BY DEF Handle, CheckModel, LoadModel, ForwardStep, ForwardLengths, ForwardPitch,
     ForwardDecode, ForwardConsonantLength, ForwardSingF0, ForwardSingVolume, At
<1>3. \/ Respond(w, EmptyText) \/ Respond(w, Json) \/ Respond(w, InternalServerError)
      \/ Die(w)
      \/ \E l \in {"check", "load", "forward", "open"} : Goto(w, l)
      \/ UNCHANGED <<response, alive, pc, req>>
  <2>1. CASE Handle(w)
    BY <2>1 DEF Handle
  <2>2. CASE CheckModel(w) \/ LoadModel(w)
    BY <2>2 DEF CheckModel, LoadModel
  <2>3. CASE ForwardStep(w)
    BY <2>3 DEF ForwardStep, ForwardLengths, ForwardPitch, ForwardDecode,
       ForwardConsonantLength, ForwardSingF0, ForwardSingVolume
  <2>4. QED
    BY <2>1, <2>2, <2>3
<1>4. /\ pc' \in [Workers -> PCs] /\ pc'[w] \notin {"write", "map", "send"}
      /\ \A v \in Workers \ {w} : pc'[v] = pc[v] /\ req'[v] = req[v]
  BY <1>2, <1>3 DEF IsolationInv, TypeInv, TypeOK, Respond, Die, Goto, PCs
<1>5. ASSUME NEW v \in Workers PROVE Isolated(v)'
  BY <1>1, <1>4, Frame, Outside DEF IsolationInv, Isolation, fileVars
<1>6. \/ response' = response
      \/ \E reply \in ReplyType : reply.kind # "wav" /\ Respond(w, reply)
  BY <1>3, PlainReplies, PlainKinds DEF Die, Goto
<1>7. QED
  BY <1>1, <1>5, <1>6, NoWave DEF IsolationInv, Isolation

\* What a write of worker w does to the file, page by page.
WrittenWell(file, k, p, new) ==
  /\ new \in Seq(Page)
  /\ \A i \in 1..Len(new) :
       new[i] \in {p, Hole} \/ (i \in 1..Len(file) /\ new[i] = file[i])
  /\ Len(file) = k => /\ Len(new) = k + 1
                      /\ new[k + 1] = p
                      /\ \A i \in 1..k : new[i] = file[i]

LEMMA PageWrittenPages ==
  ASSUME NEW file \in Seq(Page), NEW k \in Nat, NEW p \in Page
  PROVE  WrittenWell(file, k, p, PageWritten(file, k + 1, p))
<1> DEFINE new == PageWritten(file, k + 1, p)
<1> DEFINE n == IF Len(file) > k + 1 THEN Len(file) ELSE k + 1
<1>1. n \in Nat /\ new = [i \in 1..n |->
        IF i = k + 1 THEN p ELSE IF i <= Len(file) THEN file[i] ELSE Hole]
  BY DEF PageWritten
<1>2. new \in Seq(Page)
  BY PageWrittenType
<1>3. Len(file) = k => n = k + 1
  OBVIOUS
<1> HIDE DEF n, new
<1>4. Len(new) = n
  BY <1>1, <1>2
<1>5. WrittenWell(file, k, p, new)
  BY <1>1, <1>2, <1>3, <1>4 DEF WrittenWell
<1>6. QED
  BY <1>5 DEF new

\* A worker in the window of its own file step sees a step of another worker
\* that changes the file as one more member of touched.
LEMMA TouchedByOther ==
  ASSUME TypeInv, NEW w \in Workers, NEW v \in Workers \ {w}, NEW own,
         touched' = Touched(w, own), pc[v] \in {"write", "map", "send"}
  PROVE  touched'[v] = touched[v] \cup {req[w]}
BY DEF Touched

\* Opening the file cannot deceive another worker.
LEMMA OpenOther ==
  ASSUME IsolationInv, NEW w \in Workers, NEW v \in Workers \ {w}, OpenTemp(w)
  PROVE  Isolated(v)'
<1>1. /\ temp' = <<>> /\ UNCHANGED <<input, size, pages>>
      /\ pc'[v] = pc[v] /\ req'[v] = req[v] /\ pos'[v] = pos[v] /\ saved'[v] = saved[v]
  BY DEF OpenTemp, Opened, Goto, IsolationInv, TypeInv, TypeOK
<1>2. CASE pc[v] \in {"write", "map", "send"}
  <2>1. touched'[v] = touched[v] \cup {req[w]}
    BY <1>2, TouchedByOther DEF OpenTemp, IsolationInv
  <2>2. temp' \in Seq(Page) /\ Len(temp') = 0
    BY <1>1
  <2>3. Isolated(v)
    BY DEF IsolationInv, Isolation
  <2>4. QED
    BY <1>1, <2>1, <2>2, <2>3 DEF Isolated, Intact, SentIntact
<1>3. CASE pc[v] \notin {"write", "map", "send"}
  BY <1>1, <1>3, Outside
<1>4. QED
  BY <1>2, <1>3

\* Nor can writing a page.
LEMMA WriteOther ==
  ASSUME IsolationInv, NEW w \in Workers, NEW v \in Workers \ {w}, WritePage(w)
  PROVE  Isolated(v)'
<1>1. /\ UNCHANGED <<input, size, pages, pc, req, saved>> /\ pos'[v] = pos[v]
  BY DEF WritePage, IsolationInv, TypeInv, TypeOK
<1>2. CASE pc[v] \in {"write", "map", "send"}
  <2>1. touched'[v] = touched[v] \cup {req[w]}
    BY <1>2, TouchedByOther DEF WritePage, IsolationInv
  <2>2. Isolated(v) /\ temp \in Seq(Page) /\ req[w] \in Page
    BY DEF IsolationInv, Isolation, TypeInv, TypeOK, TempExists, WritePage, At, Page
  <2>3. temp' = PageWritten(temp, pos[w] + 1, req[w]) /\ pos[w] \in Nat
    BY DEF WritePage, IsolationInv, TypeInv, TypeOK
  <2>5. /\ temp' \in Seq(Page)
        /\ \A i \in 1..Len(temp') : temp'[i] \in {req[w], Hole}
              \/ (i \in 1..Len(temp) /\ temp'[i] = temp[i])
    <3>1. WrittenWell(temp, pos[w], req[w], PageWritten(temp, pos[w] + 1, req[w]))
      BY <2>2, <2>3, PageWrittenPages
    <3>2. WrittenWell(temp, pos[w], req[w], temp')
      BY <2>3, <3>1
    <3>3. QED
      BY <3>2 DEF WrittenWell
  <2>4. QED
    BY <1>1, <2>1, <2>2, <2>5 DEF Isolated, Intact, SentIntact
<1>3. CASE pc[v] \notin {"write", "map", "send"}
  BY <1>1, <1>3, Outside
<1>4. QED
  BY <1>2, <1>3

\* The writer itself.
LEMMA WriteOwn ==
  ASSUME IsolationInv, NEW w \in Workers, WritePage(w)
  PROVE  Isolated(w)'
<1>1. /\ UNCHANGED <<input, size, pages, pc, req, saved>>
      /\ pc[w] = "write" /\ pos'[w] = pos[w] + 1 /\ touched'[w] = touched[w]
      /\ pos[w] \in Nat /\ pos[w] < input[req[w]].pages /\ req[w] \in Page
      /\ req[w] \in Requests
  BY DEF WritePage, IsolationInv, TypeInv, TypeOK, At, Touched, Page
<1>2. input[req[w]].pages \in Nat
  BY <1>1, InputFacts DEF IsolationInv, TypeInv
<1>3. temp \in Seq(Page) /\ Intact(w, pos[w]) /\ ~saved[w]
  BY <1>1 DEF IsolationInv, Isolation, Isolated
<1>4. temp' = PageWritten(temp, pos[w] + 1, req[w])
  BY DEF WritePage
<1>5. /\ temp' \in Seq(Page)
      /\ \A i \in 1..Len(temp') : temp'[i] \in {req[w], Hole}
            \/ (i \in 1..Len(temp) /\ temp'[i] = temp[i])
      /\ Len(temp) = pos[w] => /\ Len(temp') = pos[w] + 1
                               /\ temp'[pos[w] + 1] = req[w]
                               /\ \A i \in 1..pos[w] : temp'[i] = temp[i]
  <2>1. WrittenWell(temp, pos[w], req[w], PageWritten(temp, pos[w] + 1, req[w]))
    BY <1>1, <1>3, PageWrittenPages
  <2>2. WrittenWell(temp, pos[w], req[w], temp')
    BY <1>4, <2>1
  <2>3. QED
    BY <2>2 DEF WrittenWell
<1>6. Intact(w, pos[w])'
  <2>1. \A i \in 1..Len(temp') : temp'[i] \in {req[w], Hole} \cup touched[w]
    BY <1>3, <1>5 DEF Intact
  <2>2. ASSUME touched[w] = {} PROVE temp' = [i \in 1..pos[w] + 1 |-> req[w]]
    <3>1. temp = [i \in 1..pos[w] |-> req[w]]
      BY <1>3, <2>2 DEF Intact
    <3>2. Len(temp) = pos[w]
      BY <1>1, <3>1
    <3>3. \A i \in 1..pos[w] + 1 : temp'[i] = req[w]
      BY <1>1, <1>5, <3>1, <3>2
    <3>4. QED
      BY <1>1, <1>5, <3>2, <3>3
  <2>3. QED
    BY <1>1, <2>1, <2>2 DEF Intact
<1>7. QED
  BY <1>1, <1>2, <1>3, <1>5, <1>6 DEF Isolated

\* Opening the file, and the end of writing it, for the writer itself.
LEMMA SaveOwn ==
  ASSUME IsolationInv, NEW w \in Workers,
         OpenTemp(w) \/ OpenTempFails(w) \/ WritePageFails(w) \/ CloseTemp(w)
  PROVE  Isolated(w)'
<1>1. CASE OpenTemp(w)
  <2>1. /\ temp' = <<>> /\ UNCHANGED input /\ pc'[w] = "write" /\ pos'[w] = 0
        /\ req'[w] = req[w] /\ touched'[w] = {} /\ saved'[w] = FALSE
        /\ req[w] \in Requests
    BY <1>1 DEF OpenTemp, Opened, Goto, At, Touched, IsolationInv, TypeInv, TypeOK
  <2>2. input[req[w]].pages \in Nat
    BY <2>1, InputFacts DEF IsolationInv, TypeInv
  <2>3. temp' \in Seq(Page) /\ Len(temp') = 0 /\ temp' = [i \in 1..0 |-> req[w]]
    BY <2>1
  <2>4. QED
    BY <2>1, <2>2, <2>3 DEF Isolated, Intact
<1>2. CASE OpenTempFails(w)
  <2>1. pc'[w] = "map" /\ saved'[w] = FALSE
    BY <1>2 DEF OpenTempFails, Goto, IsolationInv, TypeInv, TypeOK
  <2>2. QED
    BY <2>1 DEF Isolated
<1>3. CASE WritePageFails(w)
  <2>1. pc'[w] = "map" /\ saved'[w] = saved[w] /\ pc[w] = "write"
    BY <1>3 DEF WritePageFails, Goto, At, fileVars, IsolationInv, TypeInv, TypeOK
  <2>2. ~saved[w]
    BY <2>1 DEF IsolationInv, Isolation, Isolated
  <2>3. QED
    BY <2>1, <2>2 DEF Isolated
<1>4. CASE CloseTemp(w)
  <2>1. /\ pc'[w] = "map" /\ pc[w] = "write" /\ pos[w] = input[req[w]].pages
        /\ UNCHANGED <<input, temp, req, touched>>
    BY <1>4 DEF CloseTemp, Goto, At, IsolationInv, TypeInv, TypeOK
  <2>2. temp \in Seq(Page) /\ Intact(w, input[req[w]].pages)
    BY <2>1 DEF IsolationInv, Isolation, Isolated
  <2>3. QED
    BY <2>1, <2>2 DEF Isolated, Intact
<1>5. QED
  BY <1>1, <1>2, <1>3, <1>4

\* Mapping the file and sending a page of it, for the sender itself.
LEMMA SendOwn ==
  ASSUME IsolationInv, NEW w \in Workers, MapTemp(w) \/ SendPage(w)
  PROVE  Isolated(w)'
<1>1. /\ UNCHANGED <<input, temp, req, touched, saved>> /\ pc'[w] = "send"
      /\ temp \in Seq(Page) /\ req[w] \in Requests
      /\ saved[w] => Intact(w, input[req[w]].pages)
  BY DEF MapTemp, SendPage, Goto, At, IsolationInv, TypeInv, TypeOK, TempExists,
         Isolation, Isolated
<1>2. input[req[w]].pages \in Nat
  BY <1>1, InputFacts DEF IsolationInv, TypeInv
<1>3. saved[w] /\ touched[w] = {} =>
        /\ temp = [i \in 1..input[req[w]].pages |-> req[w]]
        /\ Len(temp) = input[req[w]].pages
  BY <1>1, <1>2 DEF Intact
<1>4. ASSUME saved[w] PROVE SentIntact(w)'
  <2>1. CASE MapTemp(w)
    <3>1. size'[w] = Len(temp) /\ pages'[w] = <<>>
      BY <2>1 DEF MapTemp, MappedSize, IsolationInv, TypeInv, TypeOK
    <3>2. QED
      BY <1>1, <1>2, <1>3, <1>4, <3>1 DEF SentIntact
  <2>2. CASE SendPage(w)
    <3>1. /\ pages[w] \in Seq(Page) /\ size'[w] = size[w] /\ size[w] \in Nat
          /\ Len(pages[w]) < size[w] /\ Len(pages[w]) < Len(temp)
          /\ pages'[w] = Append(pages[w], temp[Len(pages[w]) + 1])
          /\ pc[w] = "send"
      BY <2>2 DEF SendPage, At, IsolationInv, TypeInv, TypeOK
    <3>2. SentIntact(w) /\ Intact(w, input[req[w]].pages)
      BY <1>1, <1>4, <3>1 DEF IsolationInv, Isolation, Isolated
    <3>3. Len(pages[w]) + 1 \in 1..Len(temp)
      BY <1>1, <3>1
    <3>4. /\ Len(pages'[w]) = Len(pages[w]) + 1
          /\ pages'[w][Len(pages[w]) + 1] = temp[Len(pages[w]) + 1]
          /\ \A i \in 1..Len(pages[w]) : pages'[w][i] = pages[w][i]
      <4>1. temp[Len(pages[w]) + 1] \in Page
        BY <1>1, <3>3
      <4>2. QED
        BY <3>1, <4>1
    <3>5. \A i \in 1..Len(pages'[w]) :
             i \in 1..Len(pages[w]) \/ i = Len(pages[w]) + 1
      BY <3>1, <3>4
    <3>6. \A i \in 1..Len(pages'[w]) :
             pages'[w][i] \in {req[w], Hole} \cup touched[w]
      BY <3>2, <3>3, <3>4, <3>5 DEF SentIntact, Intact
    <3>7. ASSUME touched[w] = {}
          PROVE  /\ size[w] = input[req[w]].pages
                 /\ Len(pages'[w]) <= size[w]
                 /\ \A i \in 1..Len(pages'[w]) : pages'[w][i] = req[w]
      <4>1. temp[Len(pages[w]) + 1] = req[w]
        BY <1>2, <1>3, <1>4, <3>3, <3>7
      <4>2. QED
        BY <3>1, <3>2, <3>4, <3>5, <3>7, <4>1 DEF SentIntact
    <3>8. QED
      BY <1>1, <3>1, <3>6, <3>7 DEF SentIntact
  <2>3. QED
    BY <2>1, <2>2
<1>5. QED
  BY <1>1, <1>4 DEF Isolated, Intact

\* The steps that answer, and what an answer owes to the three properties.
Owed(r, reply) ==
  /\ reply.saved /\ reply.touched = {} => reply.body = Wave(r) /\ reply.whole
  /\ reply.saved => \A i \in 1..Len(reply.body) :
                      reply.body[i] \in {r, Hole} \cup reply.touched
  /\ ~reply.whole => reply.touched # {} \/ ~reply.saved

LEMMA WaveReply ==
  ASSUME TypeInv, RepliesIntact, input' = input, NEW w \in Workers,
         req[w] \in Requests, NEW reply, Respond(w, reply), Owed(req[w], reply)
  PROVE  RepliesIntact'
<1>1. response' = [response EXCEPT ![req[w]] = reply]
  BY DEF Respond
<1>2. response'[req[w]] = reply
  BY <1>1 DEF TypeInv, TypeOK
<1>3. \A r \in WavReplies' : r # req[w] => r \in WavReplies /\ response'[r] = response[r]
  BY <1>1 DEF WavReplies, TypeInv, TypeOK
<1>4. ASSUME NEW r \in WavReplies' PROVE Owed(r, response'[r]) /\ Wave(r)' = Wave(r)
  <2>1. CASE r = req[w]
    BY <1>2, <2>1 DEF Wave
  <2>2. CASE r # req[w]
    BY <1>3, <2>2 DEF Wave, Owed, RepliesIntact, WaveIsOwn, BodyProvenance,
                      CutOnlyByOthers
  <2>3. QED
    BY <2>1, <2>2
<1>5. QED
  BY <1>4 DEF Owed, RepliesIntact, WaveIsOwn, BodyProvenance, CutOnlyByOthers

LEMMA AnswerOwn ==
  ASSUME IsolationInv, NEW w \in Workers,
         MapEmptyTemp(w) \/ MapNoTemp(w) \/ SendFault(w) \/ SendDone(w)
  PROVE  RepliesIntact' /\ pc'[w] \notin {"write", "map", "send"}
<1>1. /\ UNCHANGED <<input, fileVars>> /\ pc'[w] = "idle" /\ req[w] \in Requests
      /\ pc[w] \in {"map", "send"}
  BY DEF MapEmptyTemp, MapNoTemp, SendFault, SendDone, Respond, At, IsolationInv,
         TypeInv, TypeOK
<1>2. input[req[w]].pages \in Nat \ {0}
  BY <1>1, InputFacts DEF IsolationInv, TypeInv
<1>3. saved[w] => temp \in Seq(Page) /\ Intact(w, input[req[w]].pages)
  BY <1>1 DEF IsolationInv, Isolation, Isolated
<1>4. saved[w] /\ touched[w] = {} =>
        Len(temp) = input[req[w]].pages
  BY <1>2, <1>3 DEF Intact
<1>5. pages[w] \in Seq(Page) /\ size[w] \in Nat
  BY DEF IsolationInv, TypeInv, TypeOK
<1>6. pc[w] = "send" /\ saved[w] => SentIntact(w)
  BY DEF IsolationInv, Isolation, Isolated
<1>7. CASE MapEmptyTemp(w)
  <2> DEFINE reply == Reply(200, "wav", <<>>, TRUE, saved[w], touched[w])
  <2>1. temp = <<>> /\ Respond(w, reply)
    BY <1>7 DEF MapEmptyTemp
  <2>2. ~(saved[w] /\ touched[w] = {})
    BY <1>2, <1>4, <2>1
  <2>3. Owed(req[w], reply)
    BY <2>2 DEF Owed, Reply
  <2>4. QED
    BY <1>1, <2>1, <2>3, WaveReply DEF IsolationInv
<1>8. CASE MapNoTemp(w)
  <2> DEFINE reply == Reply(404, "none", <<>>, TRUE, saved[w], touched[w])
  <2>1. Respond(w, reply)
    BY <1>8 DEF MapNoTemp
  <2>2. reply \in ReplyType /\ reply.kind # "wav"
    BY DEF Reply, ReplyType, IsolationInv, TypeInv, TypeOK
  <2>3. QED
    BY <1>1, <2>1, <2>2, NoWave DEF IsolationInv
<1>9. CASE SendFault(w)
  <2>1. Respond(w, WavReply(w, 200, FALSE))
    BY <1>9 DEF SendFault
  <2>2. pc[w] = "send" /\ Len(pages[w]) < size[w] /\ Len(pages[w]) >= Len(temp)
    BY <1>9 DEF SendFault, At
  <2>3. ~(saved[w] /\ touched[w] = {})
    BY <1>2, <1>4, <1>5, <1>6, <2>2 DEF SentIntact
  <2>4. Owed(req[w], WavReply(w, 200, FALSE))
    BY <1>5, <1>6, <2>2, <2>3 DEF Owed, WavReply, Reply, SentIntact
  <2>5. QED
    BY <1>1, <2>1, <2>4, WaveReply DEF IsolationInv
<1>10. CASE SendDone(w)
  <2>1. Respond(w, WavReply(w, 200, TRUE))
    BY <1>10 DEF SendDone
  <2>2. pc[w] = "send" /\ Len(pages[w]) = size[w]
    BY <1>10 DEF SendDone, At
  <2>3. saved[w] /\ touched[w] = {} => pages[w] = Wave(req[w])
    BY <1>5, <1>6, <2>2 DEF SentIntact, Wave
  <2>4. Owed(req[w], WavReply(w, 200, TRUE))
    BY <1>5, <1>6, <2>2, <2>3 DEF Owed, WavReply, Reply, SentIntact
  <2>5. QED
    BY <1>1, <2>1, <2>4, WaveReply DEF IsolationInv
<1>11. QED
  BY <1>1, <1>7, <1>8, <1>9, <1>10

LEMMA IsolationFile ==
  ASSUME IsolationInv, NEW w \in Workers, SaveStep(w) \/ SendStep(w)
  PROVE  Isolation' /\ RepliesIntact'
<1>1. \/ OpenTemp(w) \/ WritePage(w)
      \/ OpenTempFails(w) \/ WritePageFails(w) \/ CloseTemp(w)
      \/ MapTemp(w) \/ SendPage(w)
      \/ MapEmptyTemp(w) \/ MapNoTemp(w) \/ SendFault(w) \/ SendDone(w)
  BY DEF SaveStep, SendStep
<1>2. Isolated(w)'
  <2>1. CASE MapEmptyTemp(w) \/ MapNoTemp(w) \/ SendFault(w) \/ SendDone(w)
    BY <2>1, AnswerOwn, Outside
  <2>2. QED
    BY <1>1, <2>1, SaveOwn, SendOwn, WriteOwn
<1>3. ASSUME NEW v \in Workers \ {w} PROVE Isolated(v)'
  <2>1. CASE OpenTemp(w)
    BY <2>1, OpenOther
  <2>2. CASE WritePage(w)
    BY <2>2, WriteOther
  <2>3. CASE ~OpenTemp(w) /\ ~WritePage(w)
    <3>1. /\ input' = input /\ temp' = temp
          /\ pc'[v] = pc[v] /\ req'[v] = req[v] /\ pos'[v] = pos[v]
          /\ size'[v] = size[v] /\ pages'[v] = pages[v] /\ saved'[v] = saved[v]
          /\ touched'[v] = touched[v]
      <4>1. CASE OpenTempFails(w) \/ WritePageFails(w) \/ CloseTemp(w)
        BY <4>1 DEF OpenTempFails, WritePageFails, CloseTemp, Goto, fileVars,
           IsolationInv, TypeInv, TypeOK
      <4>2. CASE MapTemp(w) \/ SendPage(w)
        BY <4>2 DEF MapTemp, SendPage, Goto, IsolationInv, TypeInv, TypeOK
      <4>3. CASE MapEmptyTemp(w) \/ MapNoTemp(w) \/ SendFault(w) \/ SendDone(w)
        BY <4>3 DEF MapEmptyTemp, MapNoTemp, SendFault, SendDone, Respond,
           fileVars, IsolationInv, TypeInv, TypeOK
      <4>4. QED
        BY <1>1, <2>3, <4>1, <4>2, <4>3
    <3>2. QED
      BY <3>1, Frame DEF IsolationInv, Isolation
  <2>4. QED
    BY <2>1, <2>2, <2>3
<1>4. RepliesIntact'
  <2>1. CASE MapEmptyTemp(w) \/ MapNoTemp(w) \/ SendFault(w) \/ SendDone(w)
    BY <2>1, AnswerOwn
  <2>2. CASE OpenTemp(w) \/ OpenTempFails(w) \/ WritePage(w) \/ WritePageFails(w)
             \/ CloseTemp(w) \/ MapTemp(w) \/ SendPage(w)
    <3>1. UNCHANGED <<input, response>> /\ pc[w] # "idle"
      BY <2>2 DEF OpenTemp, OpenTempFails, WritePage, WritePageFails, CloseTemp,
         MapTemp, SendPage, Goto, At
    <3>2. QED
      BY <3>1, NoWave DEF IsolationInv
  <2>3. QED
    BY <1>1, <2>1, <2>2
<1>5. QED
  BY <1>2, <1>3 , <1>4 DEF Isolation

LEMMA IsolationInit == Init => IsolationInv
<1> SUFFICES ASSUME Init PROVE IsolationInv
  OBVIOUS
<1>1. TypeInv
  BY TypeInit
<1>2. Isolation
  BY DEF Init, Isolation, Isolated
<1>3. WavReplies = {}
  BY DEF Init, WavReplies
<1>4. QED
  BY <1>1, <1>2, <1>3 DEF IsolationInv, RepliesIntact, WaveIsOwn, BodyProvenance,
                          CutOnlyByOthers

LEMMA IsolationNext == IsolationInv /\ [Next]_vars => IsolationInv'
<1> SUFFICES ASSUME IsolationInv, [Next]_vars PROVE Isolation' /\ RepliesIntact'
  BY TypeNext DEF IsolationInv
<1>1. CASE UNCHANGED vars
  BY <1>1 DEF vars, fileVars, IsolationInv, Isolation, Isolated, Intact, SentIntact,
     RepliesIntact, WaveIsOwn, BodyProvenance, CutOnlyByOthers, WavReplies, Wave
<1>2. ASSUME NEW r \in Requests, Accept(r) PROVE Isolation' /\ RepliesIntact'
  BY <1>2 DEF Accept, fileVars, IsolationInv, Isolation, Isolated, Intact, SentIntact,
     RepliesIntact, WaveIsOwn, BodyProvenance, CutOnlyByOthers, WavReplies, Wave
<1>3. ASSUME NEW w \in Workers, Take(w) PROVE Isolation' /\ RepliesIntact'
  <2>1. /\ UNCHANGED <<input, response, fileVars>> /\ pc'[w] = "handle"
        /\ \A v \in Workers \ {w} : pc'[v] = pc[v] /\ req'[v] = req[v]
    BY <1>3 DEF Take, IsolationInv, TypeInv, TypeOK
  <2>2. ASSUME NEW v \in Workers PROVE Isolated(v)'
    BY <2>1, Frame, Outside DEF IsolationInv, Isolation, fileVars
  <2>3. RepliesIntact'
    BY <2>1 DEF IsolationInv, RepliesIntact, WaveIsOwn, BodyProvenance,
       CutOnlyByOthers, WavReplies, Wave
  <2>4. QED
    BY <2>2, <2>3 DEF Isolation
<1>4. QED
  BY <1>1, <1>2, <1>3, IsolationCompute, IsolationFile DEF Next, WorkerStep, Quiet

(***************************************************************************)
(* What a handler may rely on while it works: as long as nobody else       *)
(* changes temp.wav, the file and the pages it has sent are its own.       *)
(***************************************************************************)
THEOREM HandlersIsolated == Spec => []Isolation
<1>1. IsolationInv => Isolation
  BY DEF IsolationInv
<1>2. QED
  BY IsolationInit, IsolationNext, <1>1, PTL DEF Spec

(***************************************************************************)
(* The replies of /synthesis, for any number of workers, requests and      *)
(* pages, and whatever faults the disk and the cores show: a reply nobody  *)
(* interfered with is the wave of its own request, every page of a saved   *)
(* one has a known writer, and only another handler can cut it short.      *)
(***************************************************************************)
THEOREM RepliesAreIntact ==
  Spec => [](WaveIsOwn /\ BodyProvenance /\ CutOnlyByOthers)
<1>1. IsolationInv => WaveIsOwn /\ BodyProvenance /\ CutOnlyByOthers
  BY DEF IsolationInv, RepliesIntact
<1>2. QED
  BY IsolationInit, IsolationNext, <1>1, PTL DEF Spec

-----------------------------------------------------------------------------
(* Models are in memory when they are needed, and why the process may die. *)


\* A handler on its way to a core has found its engine.  The sing calls after
\* the first one are reached through it alone, and its answer tells whether the
\* model was there.
Prepared(w) ==
  /\ pc[w] \in {"check", "load", "forward"} => Engine(req[w]) \in EngineVersions
  /\ pc[w] \in {"check", "load"} => call[w] \notin {"sing_f0", "sing_volume"}
  /\ pc[w] = "forward" /\ loads[w] # "failed" => Computes(w)
  /\ pc[w] = "forward" /\ call[w] \in {"sing_f0", "sing_volume"} /\ ~result[w] =>
       loads[w] = "failed"

CoresInv == TypeInv /\ DeathHasCause /\ \A w \in Workers : Prepared(w)

\* A worker at whose place nothing happens stays prepared: models are never
\* unloaded.
LEMMA CoresFrame ==
  ASSUME CoresInv, NEW v \in Workers, UNCHANGED input,
         pc'[v] = pc[v], req'[v] = req[v], call'[v] = call[v],
         result'[v] = result[v], loads'[v] = loads[v],
         \A e \in EngineVersions : loaded[e] \subseteq loaded'[e]
  PROVE  Prepared(v)'
BY DEF CoresInv, Prepared, Computes, Models, Style, Engine

\* A worker away from the cores has nothing to prepare.
LEMMA CoresOutside ==
  ASSUME NEW v \in Workers, pc'[v] \notin {"check", "load", "forward"}
  PROVE  Prepared(v)'
BY DEF Prepared

\* Only the process that dies now needs a cause.
LEMMA StillAlive ==
  ASSUME alive' = TRUE
  PROVE  DeathHasCause'
BY DEF DeathHasCause

LEMMA CauseOfDeath ==
  ASSUME TypeInv, NEW w \in Workers, Die(w), UNCHANGED <<input, loads>>,
         \/ loads[w] = "failed"
         \/ input[req[w]].route = "synthesis" /\ input[req[w]].body = "empty"
  PROVE  DeathHasCause'
<1>1. pc'[w] = "died" /\ req'[w] = req[w] /\ loads'[w] = loads[w] /\ input' = input
  BY DEF Die, TypeInv, TypeOK
<1>2. QED
  BY <1>1 DEF DeathHasCause

LEMMA CoresHandle ==
  ASSUME CoresInv, NEW w \in Workers, Handle(w)
  PROVE  Prepared(w)' /\ DeathHasCause'
<1>1. At(w, "handle") /\ UNCHANGED <<input, loaded, result, loads>>
      /\ TypeOK
  BY DEF Handle, modelVars, CoresInv, TypeInv
<1>2. CASE Respond(w, EmptyText) \/ Respond(w, InternalServerError)
  <2>1. pc'[w] = "idle" /\ alive' = TRUE
    BY <1>1, <1>2 DEF Respond, At, TypeOK
  <2>2. QED
    BY <2>1, CoresOutside, StillAlive
<1>3. CASE Die(w) /\ input[req[w]].route = "synthesis" /\ input[req[w]].body = "empty"
  <2>1. pc'[w] = "died"
    BY <1>1, <1>3 DEF Die, TypeOK
  <2>2. QED
    BY <1>1, <1>3, <2>1, CoresOutside, CauseOfDeath DEF CoresInv
<1>4. CASE /\ Goto(w, "check") /\ call' = [call EXCEPT ![w] = FirstCall(input[req[w]])]
           /\ ~RepliesEmptyText(input[req[w]]) /\ ~Throws(req[w])
  <2>1. /\ pc'[w] = "check" /\ req' = req /\ alive' = TRUE
        /\ call'[w] \notin {"sing_f0", "sing_volume"}
    BY <1>1, <1>4 DEF Goto, At, TypeOK, FirstCall
  <2>2. Engine(req[w])' \in EngineVersions
    BY <1>1, <1>4, <2>1 DEF Throws, Engine
  <2>3. QED
    BY <2>1, <2>2, StillAlive DEF Prepared
<1>5. QED
  BY <1>2, <1>3, <1>4 DEF Handle

LEMMA CoresLoading ==
  ASSUME CoresInv, NEW w \in Workers, CheckModel(w) \/ LoadModel(w)
  PROVE  /\ Prepared(w)' /\ DeathHasCause'
         /\ \A e \in EngineVersions : loaded[e] \subseteq loaded'[e]
<1>1. /\ UNCHANGED <<input, req, call, result>> /\ alive' = TRUE /\ TypeOK
      /\ pc[w] \in {"check", "load"} /\ Prepared(w)
  BY DEF CheckModel, LoadModel, modelVars, Goto, At, CoresInv, TypeInv
<1>2. DeathHasCause'
  BY <1>1, StillAlive
<1>3. CASE CheckModel(w)
  <2>1. /\ UNCHANGED <<loaded, loads>>
        /\ pc'[w] = IF NeedsLoading(w) THEN "load" ELSE "forward"
    BY <1>1, <1>3 DEF CheckModel, modelVars, Goto, TypeOK
  <2>2. Prepared(w)'
    BY <1>1, <2>1 DEF Prepared, Computes, NeedsLoading, Models, Style, Engine
  <2>3. QED
    BY <1>2, <2>1, <2>2
<1>4. CASE LoadModel(w)
  <2>1. /\ pc'[w] = "forward"
        /\ \/ loads'[w] = "failed" /\ loaded' = loaded
           \/ loaded' = [loaded EXCEPT ![Engine(req[w])] = @ \cup {Style(w)}]
    BY <1>1, <1>4 DEF LoadModel, Goto, TypeOK
  <2>2. Engine(req[w]) \in EngineVersions /\ call[w] \notin {"sing_f0", "sing_volume"}
    BY <1>1 DEF Prepared
  <2>3. \A e \in EngineVersions : loaded[e] \subseteq loaded'[e]
    BY <1>1, <2>1 DEF TypeOK
  <2>4. loads'[w] = "failed" \/ Style(w) \in loaded'[Engine(req[w])]
    BY <1>1, <2>1, <2>2 DEF TypeOK
  <2>5. Prepared(w)'
    BY <1>1, <2>1, <2>2, <2>4 DEF Prepared, Computes, Models, Style, Engine
  <2>6. QED
    BY <1>2, <2>3, <2>5
<1>5. QED
  BY <1>3, <1>4

LEMMA CoresForward ==
  ASSUME CoresInv, NEW w \in Workers, ForwardStep(w)
  PROVE  Prepared(w)' /\ DeathHasCause'
<1>1. At(w, "forward") /\ UNCHANGED <<input, loaded, loads>> /\ TypeOK /\ Prepared(w)
  BY DEF ForwardStep, ForwardLengths, ForwardPitch, ForwardDecode, modelVars,
     ForwardConsonantLength, ForwardSingF0, ForwardSingVolume, CoresInv, TypeInv
<1>2. \/ \E reply : Respond(w, reply)
      \/ Goto(w, "open")
      \/ /\ Goto(w, "check") /\ call[w] = "yukarin_s"
         /\ call' = [call EXCEPT ![w] = NextCall(@)]
      \/ Die(w) /\ loads[w] = "failed"
      \/ /\ call' = [call EXCEPT ![w] = NextCall(@)] /\ UNCHANGED <<alive, pc, req>>
         /\ \/ call[w] = "consonant_length" /\ result' = [result EXCEPT ![w] = Computes(w)]
            \/ call[w] = "sing_f0" /\ result' = result
  <2>1. CASE ForwardLengths(w)
    BY <2>1 DEF ForwardLengths
  <2>2. CASE ForwardPitch(w)
    BY <2>2 DEF ForwardPitch
  <2>3. CASE ForwardDecode(w)
    BY <1>1, <2>3 DEF ForwardDecode, Prepared, At
  <2>4. CASE ForwardConsonantLength(w) \/ ForwardSingF0(w)
    BY <2>4 DEF ForwardConsonantLength, ForwardSingF0
  <2>5. CASE ForwardSingVolume(w)
    BY <1>1, <2>5 DEF ForwardSingVolume, Prepared, At
  <2>6. QED
    BY <2>1, <2>2, <2>3, <2>4, <2>5 DEF ForwardStep
<1>3. CASE \/ \E reply : Respond(w, reply)
           \/ Goto(w, "open")
  <2>1. pc'[w] \in {"idle", "open"} /\ alive' = TRUE
    BY <1>1, <1>3 DEF Respond, Goto, At, TypeOK
  <2>2. QED
    BY <2>1, CoresOutside, StillAlive
<1>4. CASE /\ Goto(w, "check") /\ call[w] = "yukarin_s"
           /\ call' = [call EXCEPT ![w] = NextCall(@)]
  <2>1. pc'[w] = "check" /\ alive' = TRUE /\ req' = req /\ call'[w] = "yukarin_sa"
    BY <1>1, <1>4 DEF Goto, At, NextCall, TypeOK
  <2>2. Engine(req[w])' \in EngineVersions
    BY <1>1, <2>1 DEF Prepared, At, Engine
  <2>3. QED
    BY <2>1, <2>2, StillAlive DEF Prepared
<1>5. CASE Die(w) /\ loads[w] = "failed"
  <2>1. pc'[w] = "died"
    BY <1>1, <1>5 DEF Die, TypeOK
  <2>2. QED
    BY <1>1, <1>5, <2>1, CoresOutside, CauseOfDeath DEF CoresInv
<1>6. CASE /\ call' = [call EXCEPT ![w] = NextCall(@)] /\ UNCHANGED <<alive, pc, req>>
           /\ \/ call[w] = "consonant_length" /\ result' = [result EXCEPT ![w] = Computes(w)]
              \/ call[w] = "sing_f0" /\ result' = result
  <2>1. alive' = TRUE /\ pc'[w] = "forward" /\ pc[w] = "forward"
    BY <1>1, <1>6 DEF At
  <2>2. loads[w] # "failed" => Computes(w)
    BY <1>1, <2>1 DEF Prepared
  <2>3. Computes(w)' = Computes(w) /\ Engine(req[w])' = Engine(req[w])
    BY <1>1, <1>6 DEF Computes, Models, Style, Engine
  <2>4. ~result'[w] => loads[w] = "failed"
    <3>1. CASE call[w] = "consonant_length"
      <4>1. result' = [result EXCEPT ![w] = Computes(w)]
        BY <1>6, <3>1
      <4>2. result'[w] = Computes(w)
        BY <1>1, <4>1, Zenon DEF TypeOK
      <4>3. QED
        BY <2>2, <4>2
    <3>2. CASE call[w] = "sing_f0" /\ result' = result
      BY <1>1, <2>1, <3>2 DEF Prepared
    <3>3. QED
      BY <1>6, <3>1, <3>2
  <2>5. QED
    BY <1>1, <2>1, <2>2, <2>3, <2>4, StillAlive DEF Prepared
<1>7. QED
  BY <1>2, <1>3, <1>4, <1>5, <1>6

LEMMA CoresNext == CoresInv /\ [Next]_vars => CoresInv'
<1> SUFFICES ASSUME CoresInv, [Next]_vars
             PROVE  DeathHasCause' /\ \A v \in Workers : Prepared(v)'
  BY TypeNext DEF CoresInv
<1>1. CASE UNCHANGED vars
  BY <1>1 DEF vars, modelVars, CoresInv, DeathHasCause, Prepared, Computes, Models,
     Style, Engine
<1>2. ASSUME NEW r \in Requests, Accept(r)
      PROVE  DeathHasCause' /\ \A v \in Workers : Prepared(v)'
  BY <1>2 DEF Accept, modelVars, CoresInv, DeathHasCause, Prepared, Computes, Models,
     Style, Engine
<1>3. ASSUME NEW w \in Workers, WorkerStep(w)
      PROVE  DeathHasCause' /\ \A v \in Workers : Prepared(v)'
  <2>1. /\ UNCHANGED input
        /\ \A v \in Workers \ {w} :
             /\ pc'[v] = pc[v] /\ req'[v] = req[v] /\ call'[v] = call[v]
             /\ result'[v] = result[v] /\ loads'[v] = loads[v]
    <3>1. TypeOK
      BY DEF CoresInv, TypeInv
    <3>2. CASE Take(w) \/ Handle(w)
      BY <3>1, <3>2 DEF Take, Handle, modelVars, Respond, Die, Goto, TypeOK
    <3>3. CASE CheckModel(w) \/ LoadModel(w)
      BY <3>1, <3>3 DEF CheckModel, LoadModel, modelVars, Goto, TypeOK
    <3>4. CASE ForwardStep(w)
      BY <3>1, <3>4 DEF ForwardStep, ForwardLengths, ForwardPitch, ForwardDecode,
         ForwardConsonantLength, ForwardSingF0, ForwardSingVolume, modelVars,
         Respond, Die, Goto, TypeOK
    <3>5. CASE SaveStep(w) \/ SendStep(w)
      BY <3>1, <3>5 DEF SaveStep, SendStep, OpenTemp, OpenTempFails, WritePage,
         WritePageFails, CloseTemp, MapTemp, MapEmptyTemp, MapNoTemp, SendPage,
         SendFault, SendDone, modelVars, Respond, Goto, TypeOK
    <3>6. QED
      BY <1>3, <3>2, <3>3, <3>4, <3>5 DEF WorkerStep
  <2>2. Prepared(w)' /\ DeathHasCause' /\ \A e \in EngineVersions : loaded[e] \subseteq loaded'[e]
    <3>1. CASE Handle(w)
      BY <3>1, CoresHandle DEF Handle, modelVars
    <3>2. CASE CheckModel(w) \/ LoadModel(w)
      BY <3>2, CoresLoading
    <3>3. CASE ForwardStep(w)
      BY <3>3, CoresForward DEF ForwardStep, ForwardLengths, ForwardPitch, ForwardDecode,
         ForwardConsonantLength, ForwardSingF0, ForwardSingVolume, modelVars
    <3>4. CASE Take(w) \/ SaveStep(w) \/ SendStep(w)
      <4>1. alive' = TRUE /\ loaded' = loaded
            /\ pc'[w] \notin {"check", "load", "forward"}
        BY <3>4, ZenonT(50) DEF Take, SaveStep, SendStep, OpenTemp, OpenTempFails, WritePage,
           WritePageFails, CloseTemp, MapTemp, MapEmptyTemp, MapNoTemp, SendPage,
           SendFault, SendDone, modelVars, Respond, Goto, At, CoresInv, TypeInv, TypeOK
      <4>2. QED
        BY <4>1, CoresOutside, StillAlive
    <3>5. QED
      BY <1>3, <3>1, <3>2, <3>3, <3>4 DEF WorkerStep
  <2>3. QED
    BY <2>1, <2>2, CoresFrame
<1>4. QED
  BY <1>1, <1>2, <1>3 DEF Next, Quiet

LEMMA CoresInit == Init => CoresInv
BY TypeInit DEF Init, CoresInv, DeathHasCause, Prepared

(***************************************************************************)
(* No handler calls a core without the model of its style in memory, except *)
(* after load_model refused it for that very request; and the process dies *)
(* only for such a request or for a synthesis without phonemes.            *)
(***************************************************************************)
THEOREM CoresReady == Spec => [](ModelReady /\ DeathHasCause)
<1>1. CoresInv => ModelReady /\ DeathHasCause
  BY DEF CoresInv, Prepared, ModelReady
<1>2. QED
  BY CoresInit, CoresNext, <1>1, PTL DEF Spec

\* Nothing older than the request is sent once temp.wav was opened for it.
THEOREM BodiesHaveKnownPages == Spec => []BodyProvenance
<1>1. IsolationInv => BodyProvenance
  BY DEF IsolationInv, RepliesIntact
<1>2. QED
  BY IsolationInit, IsolationNext, <1>1, PTL DEF Spec

\* A reply cut short is always the doing of another handler, or was never saved
\* (the mapping of httplib against the truncation by AudioFile::save).
THEOREM CutsAreByOthers == Spec => []CutOnlyByOthers
<1>1. IsolationInv => CutOnlyByOthers
  BY DEF IsolationInv, RepliesIntact
<1>2. QED
  BY IsolationInit, IsolationNext, <1>1, PTL DEF Spec

\* The process only dies for a model that could not be loaded, or for a
\* synthesis without phonemes.
THEOREM DeathsHaveCauses == Spec => []DeathHasCause
<1>1. CoresInv => DeathHasCause
  BY DEF CoresInv
<1>2. QED
  BY CoresInit, CoresNext, <1>1, PTL DEF Spec

-----------------------------------------------------------------------------
(* One client at a time: the server implements ServiceContract.            *)

\* The hypotheses of the refinement, as the run has them.
OneClient == MaxInFlight = 1 /\ ~LoadFaults /\ ~DiskFaults

\* At most one request is on its way: in the queue, or with the one worker that
\* is not idle.
Alone ==
  /\ \A r \in Requests : response[r] # NoResponse => r \in sent
  /\ jobs \in Seq(InFlight) /\ Len(jobs) <= 1
  /\ \A r, q \in InFlight : r = q
  /\ \A w \in Workers : pc[w] # "idle" => req[w] \in InFlight /\ jobs = <<>>
  /\ \A v, w \in Workers : pc[v] # "idle" /\ pc[w] # "idle" => v = w

InCore == {"check", "load", "forward"}
InFile == {"open", "write", "map", "send"}

\* The forward functions of a route.
CallsOf(route) ==
  CASE route = "audio_query" -> {"yukarin_s", "yukarin_sa"}
    [] route = "synthesis" -> {"decode"}
    [] route = "sing" -> {"consonant_length", "sing_f0", "sing_volume"}

\* What the place of a worker says of its request: it was understood, what the
\* core answers is decided by the styles it has models for, and the file of a
\* /synthesis request is its own.
OnCourse(w) ==
  LET i == input[req[w]] IN
  /\ pc[w] \in InCore \cup InFile => Contract!Understood(i)
  /\ pc[w] \in InCore => /\ call[w] \in CallsOf(i.route)
                         /\ ~ (i.route = "synthesis" /\ i.body = "empty")
  /\ pc[w] = "forward" => (Computes(w) <=> Contract!Speaks(i))
  /\ pc[w] = "forward" /\ call[w] \in {"sing_f0", "sing_volume"} =>
       (result[w] <=> Contract!Speaks(i))
  /\ pc[w] \in {"check", "load"} => call[w] \notin {"sing_f0", "sing_volume"}
  /\ pc[w] \in InFile => /\ i.route = "synthesis" /\ i.body # "empty"
                         /\ Contract!Speaks(i)
  /\ pc[w] \in InFile \ {"open"} => touched[w] = {}
  /\ pc[w] \in {"map", "send"} => saved[w]

\* No model is in memory that the core does not have.
OnlyLoadable == \A v \in EngineVersions : loaded[v] \subseteq Loadable[v]

ContractInv ==
  IsolationInv /\ Alone /\ OnlyLoadable /\ \A w \in Workers : OnCourse(w)

\* While a worker serves, the others are idle.
LEMMA OthersIdle ==
  ASSUME Alone, NEW w \in Workers, pc[w] # "idle", NEW v \in Workers \ {w}
  PROVE  pc[v] = "idle"
BY DEF Alone

\* An idle worker has no course to keep.
LEMMA IdleOnCourse ==
  ASSUME NEW v \in Workers, pc'[v] \in {"idle", "handle", "died"}
  PROVE  OnCourse(v)'
BY DEF OnCourse, InCore, InFile

LEMMA AloneInit == Init => Alone
<1> SUFFICES ASSUME Init PROVE Alone
  OBVIOUS
<1>1. InFlight = {} /\ <<>> \in Seq(InFlight) /\ Len(<<>>) = 0
  BY DEF Init, InFlight
<1> QED
  BY <1>1 DEF Init, Alone

\* The accept loop waits until nothing is on its way.
LEMMA AloneAccept ==
  ASSUME MaxInFlight = 1, TypeOK, Alone, NEW r \in Requests, Accept(r)
  PROVE  Alone'
<1>1. InFlight = {}
  <2>1. IsFiniteSet(InFlight)
    <3>1. InFlight \in SUBSET Requests
      BY DEF InFlight, TypeOK
    <3> QED BY <3>1, FS_Subset, ServerAssumption
  <2>2. Cardinality(InFlight) \in Nat /\ Cardinality(InFlight) < 1
    BY <2>1, FS_CardinalityType DEF Accept
  <2>3. Cardinality(InFlight) = 0
    BY <2>2
  <2> QED BY <2>1, <2>3, FS_EmptySet
<1>2. jobs = <<>> /\ \A w \in Workers : pc[w] = "idle"
  BY <1>1 DEF Alone
<1>3. /\ UNCHANGED <<response, pc, req>> /\ sent' = sent \cup {r} /\ jobs' = <<r>>
      /\ response[r] = NoResponse
  BY <1>2 DEF Accept, Alone
<1>4. InFlight' = {r}
  BY <1>1, <1>3 DEF InFlight, TypeOK
<1>5. jobs' \in Seq(InFlight') /\ Len(jobs') <= 1
  BY <1>3, <1>4
<1> QED
  BY <1>2, <1>3, <1>4, <1>5 DEF Alone

LEMMA AloneTake ==
  ASSUME TypeOK, Alone, NEW w \in Workers, Take(w)
  PROVE  Alone' /\ \A v \in Workers : pc'[v] \in {"idle", "handle"}
<1>1. \A v \in Workers : pc[v] = "idle"
  BY DEF Take, Alone
<1>2. jobs \in Seq(InFlight) /\ jobs # <<>> /\ Len(jobs) <= 1
  BY DEF Take, Alone
<1>3. Head(jobs) \in InFlight /\ Tail(jobs) = <<>>
  BY <1>2
<1>4. /\ UNCHANGED <<response, sent>> /\ jobs' = <<>> /\ InFlight' = InFlight
      /\ req'[w] = Head(jobs)
      /\ \A v \in Workers : pc'[v] = IF v = w THEN "handle" ELSE "idle"
  BY <1>1, <1>3 DEF Take, TypeOK, InFlight
<1>5. jobs' \in Seq(InFlight') /\ Len(jobs') <= 1
  BY <1>4
<1> QED
  BY <1>3, <1>4, <1>5 DEF Alone

\* A step of the worker that serves, before it answers.
LEMMA AloneServes ==
  ASSUME Alone, NEW w \in Workers, pc[w] # "idle",
         UNCHANGED <<sent, jobs, response, req>>, pc'[w] # "idle",
         \A v \in Workers \ {w} : pc'[v] = pc[v]
  PROVE  Alone'
BY OthersIdle DEF Alone, InFlight

\* The answer.
LEMMA AloneAnswers ==
  ASSUME TypeOK, Alone, NEW w \in Workers, pc[w] # "idle", NEW reply \in ReplyType,
         Respond(w, reply), UNCHANGED <<sent, jobs>>
  PROVE  Alone' /\ \A v \in Workers : pc'[v] = "idle"
<1>1. req[w] \in InFlight /\ jobs = <<>> /\ \A v \in Workers \ {w} : pc[v] = "idle"
  BY OthersIdle DEF Alone
<1>2. InFlight = {req[w]}
  BY <1>1 DEF Alone
<1>3. /\ response' = [response EXCEPT ![req[w]] = reply] /\ reply # NoResponse
      /\ \A v \in Workers : pc'[v] = "idle"
  BY <1>1, NothingAssumption DEF Respond, TypeOK
<1>4. InFlight' = {}
  BY <1>1, <1>2, <1>3 DEF InFlight, TypeOK
<1>5. jobs' = <<>> /\ jobs' \in Seq(InFlight') /\ Len(jobs') <= 1
  BY <1>1
<1>6. \A r \in Requests : response'[r] # NoResponse => r \in sent
  BY <1>1, <1>3 DEF Alone, InFlight, TypeOK
<1> QED
  BY <1>3, <1>4, <1>5, <1>6 DEF Alone

-----------------------------------------------------------------------------
\* The worker that serves has not answered yet.
GoesOn(w) ==
  /\ UNCHANGED <<response, alive, req>> /\ pc'[w] # "idle"
  /\ \A v \in Workers \ {w} : pc'[v] = pc[v]

\* What a step of a worker is for its client: nothing, the answer of the
\* contract, or the end of the process where the contract has one.
Outcome(w) ==
  \/ GoesOn(w)
  \/ /\ ~Contract!Fatal(input[req[w]])
     /\ \E reply \in ReplyType :
          Respond(w, reply) /\ Public(reply) = Contract!Answer(req[w])
  \/ Contract!Fatal(input[req[w]]) /\ Die(w)

\* A reply that has the answer's parts and nothing about files.
LEMMA PublicPlain ==
  /\ Public(EmptyText) = Contract!Plain(200, "text")
  /\ Public(Json) = Contract!Plain(200, "json")
  /\ Public(InternalServerError) = Contract!Plain(500, "none")
<1>1. /\ EmptyText # NoResponse /\ Json # NoResponse
      /\ InternalServerError # NoResponse
  BY PlainReplies, NothingAssumption
<1>2. ASSUME NEW reply, reply # NoResponse
      PROVE  Public(reply) = [status |-> reply.status, kind |-> reply.kind, body |-> reply.body]
  BY <1>2 DEF Public
<1>3. /\ EmptyText.status = 200 /\ EmptyText.kind = "text" /\ EmptyText.body = <<>>
      /\ Json.status = 200 /\ Json.kind = "json" /\ Json.body = <<>>
      /\ InternalServerError.status = 500 /\ InternalServerError.kind = "none"
      /\ InternalServerError.body = <<>>
  BY DEF EmptyText, Json, InternalServerError, Reply
<1> QED BY <1>1, <1>2, <1>3 DEF Contract!Plain

LEMMA SameEngine == ASSUME NEW r PROVE Engine(r) = Contract!Engine(input[r])
BY DEF Engine, Contract!Engine

LEMMA HandleContract ==
  ASSUME ContractInv, NEW w \in Workers, Handle(w)
  PROVE  OnCourse(w)' /\ Outcome(w)
<1> DEFINE i == input[req[w]]
<1>1. /\ TypeOK /\ input' = input /\ alive = TRUE /\ pc[w] = "handle"
      /\ req[w] \in Requests /\ i \in InputType
  BY InputFacts DEF Handle, At, ContractInv, IsolationInv, TypeInv, TypeOK
<1>2. i.route \in Routes /\ i.body \in Bodies
  BY <1>1 DEF InputType
<1>3. CASE RepliesEmptyText(i) /\ Respond(w, EmptyText)
  <2>1. pc'[w] = "idle"
    BY <1>1, <1>3 DEF Respond, TypeOK
  <2>2. ~Contract!Fatal(i) /\ Contract!Answer(req[w]) = Contract!Plain(200, "text")
    BY <1>3 DEF RepliesEmptyText, Contract!Fatal, Contract!Understood, Contract!Answer
  <2> QED BY <1>3, <2>1, <2>2, PublicPlain, PlainReplies, IdleOnCourse DEF Outcome
<1>4. CASE Throws(req[w]) /\ Respond(w, InternalServerError)
  <2>1. pc'[w] = "idle"
    BY <1>1, <1>4 DEF Respond, TypeOK
  <2>2. ~Contract!Understood(i) /\ ~RepliesEmptyText(i)
    BY <1>4, SameEngine DEF Throws, Contract!Understood
  <2>3. ~Contract!Fatal(i) /\ Contract!Answer(req[w]) = Contract!Plain(500, "none")
    BY <2>2 DEF RepliesEmptyText, Contract!Fatal, Contract!Answer
  <2> QED BY <1>4, <2>1, <2>3, PublicPlain, PlainReplies, IdleOnCourse DEF Outcome
<1>5. CASE /\ ~RepliesEmptyText(i) /\ ~Throws(req[w])
           /\ i.route = "synthesis" /\ i.body = "empty" /\ Die(w)
  <2>1. pc'[w] = "died"
    BY <1>1, <1>5 DEF Die, TypeOK
  <2>2. Contract!Understood(i)
    BY <1>5, SameEngine DEF Throws, Contract!Understood
  <2>3. Contract!Fatal(i)
    BY <1>5, <2>2 DEF Contract!Fatal
  <2> QED BY <1>5, <2>1, <2>3, IdleOnCourse DEF Outcome
<1>6. CASE /\ ~RepliesEmptyText(i) /\ ~Throws(req[w])
           /\ ~(i.route = "synthesis" /\ i.body = "empty")
           /\ Goto(w, "check") /\ call' = [call EXCEPT ![w] = FirstCall(i)]
  <2>1. /\ pc'[w] = "check" /\ req' = req /\ call'[w] = FirstCall(i)
        /\ GoesOn(w)
    BY <1>1, <1>6 DEF Goto, TypeOK, GoesOn
  <2>2. Contract!Understood(i)
    BY <1>6, SameEngine DEF Throws, Contract!Understood
  <2>3. /\ FirstCall(i) \in CallsOf(i.route)
        /\ FirstCall(i) \notin {"sing_f0", "sing_volume"}
    BY <1>2 DEF FirstCall, CallsOf, Routes
  <2>4. Contract!Understood(i)'
    BY <1>1, <2>1, <2>2 DEF Contract!Understood
  <2>5. OnCourse(w)'
    BY <1>1, <1>6, <2>1, <2>3, <2>4 DEF OnCourse, InCore, InFile
  <2> QED BY <2>1, <2>5 DEF Outcome
<1> QED
  BY <1>3, <1>4, <1>5, <1>6 DEF Handle

LEMMA LoadingContract ==
  ASSUME ContractInv, ~LoadFaults, NEW w \in Workers, CheckModel(w) \/ LoadModel(w)
  PROVE  OnCourse(w)' /\ OnlyLoadable' /\ Outcome(w)
<1> DEFINE i == input[req[w]]
<1>1. /\ TypeOK /\ UNCHANGED <<input, req, call, response, alive>>
      /\ pc[w] \in {"check", "load"} /\ \A v \in Workers \ {w} : pc'[v] = pc[v]
      /\ req[w] \in Requests /\ OnCourse(w) /\ OnlyLoadable
  BY DEF CheckModel, LoadModel, modelVars, Goto, At, ContractInv, IsolationInv, TypeInv, TypeOK
<1>2. /\ Contract!Understood(i) /\ Engine(req[w]) \in EngineVersions
      /\ call[w] \in CallsOf(i.route) /\ ~ (i.route = "synthesis" /\ i.body = "empty")
      /\ call[w] \notin {"sing_f0", "sing_volume"}
  BY <1>1, SameEngine DEF OnCourse, InCore, InFile, Contract!Understood
<1>3. Contract!Speaks(i) <=> Style(w) \in Loadable[Engine(req[w])]
  BY SameEngine DEF Contract!Speaks, Style
<1>4. /\ pc'[w] \in {"load", "forward"} /\ OnlyLoadable'
      /\ pc'[w] = "forward" => (Computes(w)' <=> Contract!Speaks(i))
  <2>1. CASE CheckModel(w)
    <3>1. pc'[w] = (IF NeedsLoading(w) THEN "load" ELSE "forward") /\ loaded' = loaded
      BY <1>1, <2>1 DEF CheckModel, Goto, TypeOK, modelVars
    <3>2. Computes(w)' <=> Computes(w)
      BY <1>1, <3>1 DEF Computes, Models, Style, Engine
    <3>3. Computes(w) => Contract!Speaks(i)
      BY <1>1, <1>2, <1>3 DEF Computes, Models, OnlyLoadable
    <3>4. NeedsLoading(w) <=> ~Computes(w)
      BY DEF NeedsLoading, Computes
    <3> QED BY <1>1, <3>1, <3>2, <3>3, <3>4 DEF OnlyLoadable
  <2>2. CASE LoadModel(w)
    <3>1. pc'[w] = "forward"
      BY <1>1, <2>2 DEF LoadModel, Goto, TypeOK
    <3>2. \/ /\ Contract!Speaks(i)
             /\ loaded' = [loaded EXCEPT ![Engine(req[w])] = @ \cup {Style(w)}]
          \/ ~Contract!Speaks(i) /\ loaded' = loaded
      BY <1>3, <2>2 DEF LoadModel
    <3>3. /\ \A v \in EngineVersions : loaded'[v] \subseteq Loadable[v]
          /\ Style(w) \in loaded'[Engine(req[w])] <=> Contract!Speaks(i)
      <4>1. CASE ~Contract!Speaks(i)
        BY <1>1, <1>2, <1>3, <3>2, <4>1 DEF OnlyLoadable
      <4>2. CASE Contract!Speaks(i)
        <5>1. \A v \in EngineVersions :
                loaded'[v] = IF v = Engine(req[w]) THEN loaded[v] \cup {Style(w)} ELSE loaded[v]
          BY <1>1, <3>2, <4>2 DEF TypeOK
        <5>2. \A v \in EngineVersions : loaded[v] \subseteq Loadable[v]
          BY <1>1 DEF OnlyLoadable
        <5> QED BY <1>2, <1>3, <4>2, <5>1, <5>2
      <4> QED BY <4>1, <4>2
    <3>4. Computes(w)' <=> Style(w) \in loaded'[Engine(req[w])]
      BY <1>1 DEF Computes, Models, Style, Engine
    <3> QED BY <3>1, <3>3, <3>4 DEF OnlyLoadable
  <2> QED BY <2>1, <2>2
<1>5. Contract!Understood(i)' /\ (Contract!Speaks(i)' <=> Contract!Speaks(i)) /\ input'[req'[w]] = i
  BY <1>1, <1>2 DEF Contract!Understood, Contract!Speaks
<1>6. OnCourse(w)'
  BY <1>1, <1>2, <1>4, <1>5 DEF OnCourse, InCore, InFile
<1> QED BY <1>1, <1>4, <1>6 DEF Outcome, GoesOn

LEMMA ForwardContract ==
  ASSUME ContractInv, NEW w \in Workers, ForwardStep(w)
  PROVE  OnCourse(w)' /\ Outcome(w)
<1> DEFINE i == input[req[w]]
           Speaks == Contract!Speaks(i)
<1>1. /\ TypeOK /\ UNCHANGED <<input, loaded>> /\ alive = TRUE /\ pc[w] = "forward"
      /\ req[w] \in Requests /\ OnCourse(w) /\ i \in InputType
  BY InputFacts DEF ForwardStep, ForwardLengths, ForwardPitch, ForwardDecode,
     ForwardConsonantLength, ForwardSingF0, ForwardSingVolume, modelVars, At,
     ContractInv, IsolationInv, TypeInv, TypeOK
<1>2. /\ Contract!Understood(i) /\ call[w] \in CallsOf(i.route)
      /\ ~ (i.route = "synthesis" /\ i.body = "empty") /\ (Computes(w) <=> Speaks)
      /\ call[w] \in {"sing_f0", "sing_volume"} => (result[w] <=> Speaks)
      /\ i.route \in Routes /\ i.body \in Bodies
  BY <1>1 DEF OnCourse, InCore, InFile, InputType
<1>3. i.style # NoStyle /\ i.body # "malformed"
  BY <1>2 DEF Contract!Understood
<1>4. ASSUME NEW reply \in {Json, InternalServerError}, Respond(w, reply),
             ~Contract!Fatal(i), Public(reply) = Contract!Answer(req[w])
      PROVE  OnCourse(w)' /\ Outcome(w)
  <2>1. pc'[w] = "idle"
    BY <1>1, <1>4 DEF Respond, TypeOK
  <2> QED BY <1>4, <2>1, IdleOnCourse, PlainReplies DEF Outcome
<1>5. ASSUME Die(w), Contract!Fatal(i)
      PROVE  OnCourse(w)' /\ Outcome(w)
  <2>1. pc'[w] = "died"
    BY <1>1, <1>5 DEF Die, TypeOK
  <2> QED BY <1>5, <2>1, IdleOnCourse DEF Outcome
<1>6. CASE ForwardLengths(w)
  <2>1. i.route = "audio_query" /\ call[w] = "yukarin_s"
    BY <1>2, <1>6 DEF ForwardLengths, CallsOf, Routes
  <2>2. ~Contract!Fatal(i)
    BY <2>1 DEF Contract!Fatal
  <2>3. Contract!Answer(req[w]) = IF Speaks THEN Contract!Plain(200, "json")
                                            ELSE Contract!Plain(500, "none")
    BY <1>2, <1>3, <2>1 DEF Contract!Answer
  <2>4. CASE ~Computes(w) /\ Respond(w, InternalServerError)
    BY <1>2, <1>4, <2>2, <2>3, <2>4, PublicPlain
  <2>5. CASE Computes(w) /\ Respond(w, Json)
    BY <1>2, <1>4, <2>2, <2>3, <2>5, PublicPlain
  <2>6. CASE Computes(w) /\ Goto(w, "check") /\ call' = [call EXCEPT ![w] = NextCall(@)]
    <3>1. pc'[w] = "check" /\ req' = req /\ call'[w] = "yukarin_sa" /\ GoesOn(w)
      BY <1>1, <2>1, <2>6 DEF Goto, TypeOK, NextCall, GoesOn
    <3>2. Contract!Understood(i)' /\ input'[req'[w]] = i
      BY <1>1, <1>2, <3>1 DEF Contract!Understood
    <3>3. OnCourse(w)'
      BY <2>1, <3>1, <3>2 DEF OnCourse, InCore, InFile, CallsOf
    <3> QED BY <3>1, <3>3 DEF Outcome
  <2> QED BY <1>6, <2>4, <2>5, <2>6 DEF ForwardLengths
<1>7. CASE ForwardPitch(w)
  <2>1. i.route = "audio_query"
    BY <1>2, <1>7 DEF ForwardPitch, CallsOf, Routes
  <2>2. ~Contract!Fatal(i)
    BY <2>1 DEF Contract!Fatal
  <2>3. Contract!Answer(req[w]) = IF Speaks THEN Contract!Plain(200, "json")
                                            ELSE Contract!Plain(500, "none")
    BY <1>2, <1>3, <2>1 DEF Contract!Answer
  <2>4. CASE Computes(w)
    BY <1>2, <1>4, <1>7, <2>2, <2>3, <2>4, PublicPlain DEF ForwardPitch
  <2>5. CASE ~Computes(w)
    BY <1>2, <1>4, <1>7, <2>2, <2>3, <2>5, PublicPlain DEF ForwardPitch
  <2> QED BY <2>4, <2>5
<1>8. CASE ForwardDecode(w)
  <2>1. i.route = "synthesis"
    BY <1>2, <1>8 DEF ForwardDecode, CallsOf, Routes
  <2>2. CASE Computes(w) /\ Goto(w, "open")
    <3>1. pc'[w] = "open" /\ req' = req /\ GoesOn(w)
      BY <1>1, <2>2 DEF Goto, TypeOK, GoesOn
    <3>2. Contract!Understood(i)' /\ Contract!Speaks(i)' /\ input'[req'[w]] = i
      BY <1>1, <1>2, <2>2, <3>1 DEF Contract!Understood, Contract!Speaks
    <3>3. OnCourse(w)'
      BY <1>2, <2>1, <3>1, <3>2 DEF OnCourse, InCore, InFile
    <3> QED BY <3>1, <3>3 DEF Outcome
  <2>3. CASE ~Computes(w) /\ Die(w)
    <3>1. Contract!Fatal(i)
      BY <1>2, <2>1, <2>3 DEF Contract!Fatal
    <3> QED BY <1>5, <2>3, <3>1
  <2> QED BY <1>8, <2>2, <2>3 DEF ForwardDecode
<1>9. CASE ForwardConsonantLength(w) \/ ForwardSingF0(w)
  <2>1. /\ i.route = "sing" /\ call'[w] \in {"sing_f0", "sing_volume"}
        /\ UNCHANGED <<pc, req>> /\ GoesOn(w)
    BY <1>1, <1>2, <1>9 DEF GoesOn, ForwardConsonantLength, ForwardSingF0, CallsOf, Routes, NextCall, TypeOK
  <2>2. result'[w] <=> Speaks
    <3>1. CASE ForwardConsonantLength(w)
      <4>1. result' = [result EXCEPT ![w] = Computes(w)]
        BY <3>1 DEF ForwardConsonantLength
      <4>2. result'[w] = Computes(w)
        BY <1>1, <4>1, Zenon DEF TypeOK
      <4> QED BY <1>2, <4>2
    <3>2. CASE ForwardSingF0(w)
      BY <1>2, <3>2 DEF ForwardSingF0
    <3> QED BY <1>9, <3>1, <3>2
  <2>3. /\ Contract!Understood(i)' /\ (Contract!Speaks(i)' <=> Speaks)
        /\ (Computes(w)' <=> Computes(w)) /\ input'[req'[w]] = i
    BY <1>1, <1>2, <2>1 DEF Contract!Understood, Contract!Speaks, Computes, Models, Style, Engine
  <2>4. OnCourse(w)'
    BY <1>1, <1>2, <2>1, <2>2, <2>3 DEF OnCourse, InCore, InFile, CallsOf
  <2> QED BY <2>1, <2>4 DEF Outcome
<1>10. CASE ForwardSingVolume(w)
  <2>1. i.route = "sing" /\ (result[w] <=> Speaks)
    BY <1>2, <1>10 DEF ForwardSingVolume, CallsOf, Routes
  <2>2. Contract!Answer(req[w]) = IF i.body = "good" THEN Contract!Plain(500, "none")
                                                     ELSE Contract!Plain(200, "json")
    BY <1>2, <1>3, <2>1 DEF Contract!Answer
  <2>3. Contract!Fatal(i) <=> i.body # "empty" /\ ~Speaks
    BY <1>2, <2>1 DEF Contract!Fatal
  <2>4. CASE i.body # "empty" /\ ~result[w] /\ Die(w)
    BY <1>5, <2>1, <2>3, <2>4
  <2>5. CASE i.body = "good" /\ result[w] /\ Respond(w, InternalServerError)
    BY <1>4, <2>1, <2>2, <2>3, <2>5, PublicPlain
  <2>6. CASE i.body = "empty" /\ Respond(w, Json)
    BY <1>4, <2>1, <2>2, <2>3, <2>6, PublicPlain
  <2>7. CASE i.body = "rests" /\ result[w] /\ Respond(w, Json)
    BY <1>4, <2>1, <2>2, <2>3, <2>7, PublicPlain
  <2> QED BY <1>10, <2>4, <2>5, <2>6, <2>7 DEF ForwardSingVolume
<1> QED
  BY <1>6, <1>7, <1>8, <1>9, <1>10 DEF ForwardStep

\* A /synthesis request on its way through temp.wav, which nobody else touches.
LEMMA FileContract ==
  ASSUME ContractInv, ~DiskFaults, NEW w \in Workers, SaveStep(w) \/ SendStep(w)
  PROVE  OnCourse(w)' /\ Outcome(w)
<1> DEFINE i == input[req[w]]
           r == req[w]
<1>1. /\ TypeOK /\ input' = input /\ alive = TRUE /\ pc[w] \in InFile /\ r \in Requests
      /\ OnCourse(w) /\ Isolated(w) /\ i.pages \in Nat \ {0}
  BY InputFacts DEF SaveStep, SendStep, OpenTemp, OpenTempFails, WritePage, WritePageFails,
     CloseTemp, MapTemp, MapEmptyTemp, MapNoTemp, SendPage, SendFault, SendDone, At, InFile,
     ContractInv, IsolationInv, Isolation, TypeInv, TypeOK
<1>2. /\ Contract!Understood(i) /\ Contract!Speaks(i) /\ i.route = "synthesis" /\ i.body # "empty"
      /\ pc[w] # "open" => touched[w] = {}
      /\ pc[w] \in {"map", "send"} => saved[w]
  BY <1>1 DEF OnCourse, InFile
<1>3. ~Contract!Fatal(i) /\ Contract!Answer(r) = [status |-> 200, kind |-> "wav", body |-> Wave(r)]
  BY <1>2 DEF Contract!Fatal, Contract!Answer, Contract!Understood, Wave
<1>4. ASSUME GoesOn(w), pc'[w] \in {"write", "map", "send"},
             touched'[w] = {}, pc'[w] \in {"map", "send"} => saved'[w]
      PROVE  OnCourse(w)' /\ Outcome(w)
  <2>1. Contract!Understood(i)' /\ Contract!Speaks(i)' /\ input'[req'[w]] = i
    BY <1>1, <1>2, <1>4 DEF Contract!Understood, Contract!Speaks, GoesOn
  <2>2. OnCourse(w)'
    BY <1>2, <1>4, <2>1 DEF OnCourse, InCore, InFile
  <2> QED BY <1>4, <2>2 DEF Outcome
<1>5. CASE OpenTemp(w)
  <2>1. touched'[w] = {} /\ pc'[w] = "write" /\ GoesOn(w)
    BY <1>1, <1>5 DEF GoesOn, OpenTemp, Touched, Goto, TypeOK
  <2> QED BY <1>4, <2>1
<1>6. CASE WritePage(w)
  <2>1. /\ touched'[w] = touched[w] /\ pc[w] = "write" /\ pc'[w] = "write"
        /\ GoesOn(w)
    BY <1>1, <1>6 DEF GoesOn, WritePage, Touched, At, TypeOK
  <2> QED BY <1>2, <1>4, <2>1
<1>7. CASE CloseTemp(w)
  <2>1. /\ touched' = touched /\ pc[w] = "write" /\ pc'[w] = "map" /\ saved'[w] = TRUE
        /\ GoesOn(w)
    BY <1>1, <1>7 DEF GoesOn, CloseTemp, Goto, At, TypeOK
  <2> QED BY <1>2, <1>4, <2>1
<1>8. CASE MapTemp(w)
  <2>1. /\ touched' = touched /\ pc[w] = "map" /\ pc'[w] = "send" /\ saved' = saved
        /\ GoesOn(w)
    BY <1>1, <1>8 DEF GoesOn, MapTemp, Goto, At, TypeOK
  <2> QED BY <1>2, <1>4, <2>1
<1>9. CASE SendPage(w)
  <2>1. /\ touched' = touched /\ pc[w] = "send" /\ pc'[w] = "send" /\ saved' = saved
        /\ GoesOn(w)
    BY <1>1, <1>9 DEF GoesOn, SendPage, At, TypeOK
  <2> QED BY <1>2, <1>4, <2>1
<1>10. pc[w] \in {"map", "send"} =>
         temp = Wave(r) /\ temp \in Seq(Page) /\ Len(temp) = i.pages /\ temp # <<>>
  <2> SUFFICES ASSUME pc[w] \in {"map", "send"}
               PROVE  temp = Wave(r) /\ temp \in Seq(Page) /\ Len(temp) = i.pages /\ temp # <<>>
    OBVIOUS
  <2>1. temp \in Seq(Page) /\ temp = Wave(r)
    BY <1>1, <1>2 DEF Isolated, Intact, Wave
  <2>2. Len(Wave(r)) = i.pages
    BY <1>1 DEF Wave
  <2> QED BY <1>1, <2>1, <2>2
<1>11. ~MapEmptyTemp(w) /\ ~MapNoTemp(w)
  BY <1>10, NothingAssumption DEF MapEmptyTemp, MapNoTemp, At
<1>12. ~SendFault(w)
  <2> SUFFICES ASSUME pc[w] = "send" PROVE size[w] = Len(temp)
    <3>1. SendFault(w) => pc[w] = "send" /\ Len(pages[w]) < size[w] /\ Len(pages[w]) >= Len(temp)
      BY DEF SendFault, At
    <3>2. size[w] \in Nat /\ pages[w] \in Seq(Page)
      BY <1>1 DEF TypeOK
    <3>3. Len(pages[w]) \in Nat
      BY <3>2
    <3> QED BY <3>1, <3>2, <3>3
  <2> QED BY <1>1, <1>2, <1>10 DEF Isolated, SentIntact
<1>13. CASE SendDone(w)
  <2>1. /\ pc[w] = "send" /\ Len(pages[w]) = size[w] /\ pages[w] \in Seq(Page)
        /\ Respond(w, WavReply(w, 200, TRUE))
    BY <1>1, <1>13 DEF SendDone, At, TypeOK
  <2>2. /\ size[w] = i.pages /\ \A k \in 1..Len(pages[w]) : pages[w][k] = r
    BY <1>1, <1>2, <2>1 DEF Isolated, SentIntact
  <2>3. pages[w] = Wave(r)
    BY <2>1, <2>2 DEF Wave
  <2>4. WavReply(w, 200, TRUE) \in ReplyType
    BY <1>1, <2>1 DEF WavReply, Reply, ReplyType, TypeOK
  <2>5. Public(WavReply(w, 200, TRUE)) = Contract!Answer(r)
    <3>1. WavReply(w, 200, TRUE) # NoResponse
      BY <2>4, NothingAssumption
    <3> QED BY <1>3, <2>3, <3>1 DEF Public, WavReply, Reply
  <2>6. pc'[w] = "idle"
    BY <1>1, <2>1 DEF Respond, TypeOK
  <2> QED BY <1>3, <2>1, <2>4, <2>5, <2>6, IdleOnCourse DEF Outcome
<1> QED
  BY <1>5, <1>6, <1>7, <1>8, <1>9, <1>11, <1>12, <1>13
  DEF SaveStep, SendStep, OpenTempFails, WritePageFails

-----------------------------------------------------------------------------
\* Every step keeps to the course, and is one of the contract or none.
LEMMA WorkerContract ==
  ASSUME OneClient, ContractInv, NEW w \in Workers, WorkerStep(w)
  PROVE  /\ Alone' /\ OnlyLoadable' /\ \A v \in Workers : OnCourse(v)'
         /\ input' = input /\ (Take(w) \/ Outcome(w))
<1>1. TypeOK /\ Alone /\ OnlyLoadable
  BY DEF ContractInv, IsolationInv, TypeInv
<1>2. CASE Take(w)
  <2>1. Alone' /\ \A v \in Workers : pc'[v] \in {"idle", "handle"}
    BY <1>1, <1>2, AloneTake
  <2>2. \A v \in Workers : OnCourse(v)'
    BY <2>1, IdleOnCourse
  <2> QED BY <1>1, <1>2, <2>1, <2>2 DEF Take, OnlyLoadable
<1>3. CASE ~Take(w)
  <2>1. /\ OnCourse(w)' /\ Outcome(w) /\ OnlyLoadable' /\ pc[w] # "idle"
        /\ UNCHANGED <<input, sent, jobs>>
    <3>1. CASE Handle(w)
      BY <1>1, <3>1, HandleContract DEF Handle, modelVars, queueVars, At, OnlyLoadable
    <3>2. CASE CheckModel(w) \/ LoadModel(w)
      BY <3>2, LoadingContract DEF OneClient, CheckModel, LoadModel, queueVars, At
    <3>3. CASE ForwardStep(w)
      BY <1>1, <3>3, ForwardContract DEF ForwardStep, ForwardLengths, ForwardPitch, ForwardDecode,
         ForwardConsonantLength, ForwardSingF0, ForwardSingVolume, modelVars, queueVars, At,
         OnlyLoadable
    <3>4. CASE SaveStep(w) \/ SendStep(w)
      BY <1>1, <3>4, FileContract DEF OneClient, SaveStep, SendStep, OpenTemp, OpenTempFails,
         WritePage, WritePageFails, CloseTemp, MapTemp, MapEmptyTemp, MapNoTemp, SendPage,
         SendFault, SendDone, modelVars, queueVars, At, OnlyLoadable
    <3> QED BY <1>3, <3>1, <3>2, <3>3, <3>4 DEF WorkerStep
  <2>2. CASE \E reply \in ReplyType : Respond(w, reply)
    <3>1. Alone' /\ \A v \in Workers : pc'[v] = "idle"
      BY <1>1, <2>1, <2>2, AloneAnswers
    <3> QED BY <1>3, <2>1, <3>1, IdleOnCourse
  <2>3. CASE ~ \E reply \in ReplyType : Respond(w, reply)
    <3>1. /\ UNCHANGED <<response, req>> /\ pc'[w] # "idle"
          /\ \A v \in Workers \ {w} : pc'[v] = pc[v]
      BY <1>1, <2>1, <2>3 DEF Outcome, GoesOn, Die, TypeOK
    <3>2. Alone'
      BY <1>1, <2>1, <3>1, AloneServes
    <3>3. \A v \in Workers \ {w} : pc'[v] = "idle"
      BY <1>1, <2>1, <3>1, OthersIdle
    <3> QED BY <1>3, <2>1, <3>2, <3>3, IdleOnCourse
  <2> QED BY <2>2, <2>3
<1> QED BY <1>2, <1>3

LEMMA ContractStart == Init => ContractInv
<1> SUFFICES ASSUME Init PROVE ContractInv
  OBVIOUS
<1>1. IsolationInv /\ Alone
  BY IsolationInit, AloneInit
<1>2. OnlyLoadable /\ \A w \in Workers : OnCourse(w)
  BY DEF Init, OnlyLoadable, OnCourse, InCore, InFile
<1> QED BY <1>1, <1>2 DEF ContractInv

LEMMA ContractStep ==
  ASSUME OneClient, ContractInv, [Next]_vars
  PROVE  ContractInv'
<1>1. IsolationInv' /\ TypeOK /\ Alone
  BY IsolationNext DEF ContractInv, IsolationInv, TypeInv
<1>2. CASE UNCHANGED vars
  BY <1>1, <1>2 DEF vars, queueVars, modelVars, fileVars, ContractInv, Alone, InFlight, OnlyLoadable,
     OnCourse, Computes, Models, Style, Engine, Contract!Understood, Contract!Speaks
<1>3. ASSUME NEW r \in Requests, Accept(r) PROVE ContractInv'
  <2>1. Alone'
    BY <1>1, <1>3, AloneAccept DEF OneClient
  <2>2. OnlyLoadable' /\ \A w \in Workers : OnCourse(w)'
    BY <1>3 DEF Accept, modelVars, fileVars, ContractInv, OnlyLoadable,
       OnCourse, Computes, Models, Style, Engine, Contract!Understood, Contract!Speaks
  <2> QED BY <1>1, <2>1, <2>2 DEF ContractInv
<1>4. ASSUME NEW w \in Workers, WorkerStep(w) PROVE ContractInv'
  BY <1>1, <1>4, WorkerContract DEF ContractInv
<1> QED BY <1>2, <1>3, <1>4 DEF Next, Quiet

\* What the client of a request has seen of it.
LEMMA Unseen ==
  ASSUME ContractInv, NEW w \in Workers, pc[w] # "idle"
  PROVE  /\ req[w] \in Requests /\ alive \in BOOLEAN
         /\ [r \in Requests |-> Public(response[r])][req[w]] = NoResponse
<1>1. req[w] \in Requests /\ response[req[w]] = NoResponse
  BY DEF ContractInv, Alone, InFlight, IsolationInv, TypeInv, TypeOK
<1> QED BY <1>1 DEF Public, ContractInv, IsolationInv, TypeInv, TypeOK

LEMMA ContractRefined ==
  ASSUME OneClient, ContractInv, [Next]_vars
  PROVE  [Contract!Next]_Contract!vars
<1> DEFINE seen == [r \in Requests |-> Public(response[r])]
<1> SUFFICES Contract!Next \/ UNCHANGED <<input, seen, alive>>
  BY DEF Contract!vars
<1>1. CASE UNCHANGED <<input, response, alive>>
  BY <1>1
<1>5. TypeOK
  BY DEF ContractInv, IsolationInv, TypeInv
<1>2. CASE UNCHANGED vars \/ \E r \in Requests : Accept(r)
  BY <1>1, <1>2 DEF vars, Accept
<1>3. ASSUME NEW w \in Workers, WorkerStep(w)
      PROVE  Contract!Next \/ UNCHANGED <<input, seen, alive>>
  <2>1. input' = input /\ (Take(w) \/ Outcome(w))
    BY <1>3, WorkerContract
  <2>6. ~Take(w) => pc[w] # "idle" /\ alive = TRUE
    BY <1>3, <1>5 DEF WorkerStep, Handle, CheckModel, LoadModel, ForwardStep, ForwardLengths,
       ForwardPitch, ForwardDecode, ForwardConsonantLength, ForwardSingF0, ForwardSingVolume,
       SaveStep, OpenTemp, OpenTempFails, WritePage, WritePageFails, CloseTemp,
       SendStep, MapTemp, MapEmptyTemp, MapNoTemp, SendPage, SendFault, SendDone, At, TypeOK
  <2>2. CASE Take(w)
    BY <1>1, <2>2 DEF Take
  <2>3. CASE GoesOn(w)
    BY <1>1, <2>1, <2>3 DEF GoesOn
  <2>4. CASE /\ ~Take(w) /\ ~Contract!Fatal(input[req[w]])
             /\ \E reply \in ReplyType :
                  Respond(w, reply) /\ Public(reply) = Contract!Answer(req[w])
    <3>1. PICK reply \in ReplyType : Respond(w, reply) /\ Public(reply) = Contract!Answer(req[w])
      BY <2>4
    <3>2. req[w] \in Requests /\ seen[req[w]] = NoResponse
      BY <2>6, <2>4, Unseen
    <3>3. alive' = alive /\ response' = [response EXCEPT ![req[w]] = reply]
      BY <3>1 DEF Respond
    <3>4. seen' = [seen EXCEPT ![req[w]] = Contract!Answer(req[w])]
      BY <3>1, <3>2, <3>3, <1>5 DEF TypeOK
    <3>5. Contract!Serve(req[w])
      BY <2>6, <2>1, <2>4, <3>2, <3>3, <3>4 DEF Contract!Serve
    <3> QED BY <3>2, <3>5 DEF Contract!Next
  <2>5. CASE ~Take(w) /\ Contract!Fatal(input[req[w]]) /\ Die(w)
    <3>1. req[w] \in Requests /\ seen[req[w]] = NoResponse
      BY <2>6, <2>5, Unseen
    <3>2. Contract!Fail(req[w])
      BY <2>6, <2>1, <2>5, <3>1 DEF Contract!Fail, Die
    <3> QED BY <3>1, <3>2 DEF Contract!Next
  <2> QED BY <2>1, <2>2, <2>3, <2>4, <2>5 DEF Outcome
<1> QED BY <1>2, <1>3 DEF Next, Quiet

(***************************************************************************)
(* A client that waits for each answer before it sends the next request     *)
(* gets, as long as nothing goes wrong on disk or while a model is loaded,  *)
(* exactly what ServiceContract says: the answer its request alone decides, *)
(* or the end of the process where the contract has one.  For any number of *)
(* workers, requests, styles, engines and pages (tts_pipeline.cc, the       *)
(* temporary file and the models together).                                 *)
(***************************************************************************)
THEOREM OneClientIsServed == OneClient => (Spec => ImplementsContract)
<1> SUFFICES ASSUME OneClient PROVE Spec => ImplementsContract
  OBVIOUS
<1>1. Init => Contract!Init
  BY DEF Init, Contract!Init, Public
<1>2. ContractInv /\ [Next]_vars => ContractInv' /\ [Contract!Next]_Contract!vars
  BY ContractStep, ContractRefined
<1> QED
  BY <1>1, <1>2, ContractStart, PTL DEF Spec, ImplementsContract, Contract!Spec
=============================================================================
