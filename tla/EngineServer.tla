---------------------------- MODULE EngineServer ----------------------------
(***************************************************************************)
(* The running server: httplib's thread pool, the three POST handlers of   *)
(* app/routers/tts_pipeline.cc, the model loading of core/core_adapter.cc   *)
(* and the wave file every /synthesis handler goes through.                *)
(*                                                                         *)
(* Several workers run handlers at once.  They share                       *)
(*   - the queue of accepted connections,                                  *)
(*   - for every engine version one CoreWrapper, with the set of styles    *)
(*     whose model is in memory,                                           *)
(*   - ONE file, temp_directory_path()/"temp.wav": a handler truncates and *)
(*     writes it, and only after the handler has returned does httplib map *)
(*     it and send its pages.                                              *)
(* The steps below are the accesses to that shared state, in the order the *)
(* code makes them; what a handler computes on its own memory between two  *)
(* of them is one step.                                                    *)
(***************************************************************************)
EXTENDS Naturals, Sequences, FiniteSets

CONSTANTS
  Workers,          \* threads of the pool
  Requests,         \* requests the clients send, one connection each
  Inputs,           \* what a request may ask for, see InputType
  Styles,           \* style ids the clients may name
  EngineVersions,   \* versions registered in the TTSEngineManager
  DefaultVersion,   \* the version get_engine() picks
  Loadable,         \* per version, the styles its core library has a model for
  MaxInFlight,      \* bound: requests sent and not answered at one time
  MaxPages,         \* bound: pages of the longest wave file
  LoadFaults,       \* may load_model fail for a style the library has?
  DiskFaults,       \* may opening or writing the temporary file fail?
  NoRequest, NoVersion, NoStyle, NoResponse, NoFile,
  Hole,             \* a page nobody wrote, below one that was written
  Leftover          \* a page of a temp.wav some earlier process left behind

Routes == {"audio_query", "synthesis", "sing"}

\* "good": what the route expects; "empty": no accent phrase, or no note;
\* "rests": a score of rests; "malformed": something the handler throws on.
Bodies == {"good", "empty", "rests", "malformed"}

InputType ==
  [route : Routes, version : EngineVersions \cup {NoVersion, "unknown"},
   style : Styles \cup {NoStyle}, body : Bodies, pages : 1..MaxPages]

ASSUME ServerAssumption ==
  /\ IsFiniteSet(Requests)
  /\ Inputs \subseteq InputType
  /\ Loadable \in [EngineVersions -> SUBSET Styles]
  /\ MaxInFlight \in Nat /\ MaxPages \in Nat
  /\ LoadFaults \in BOOLEAN /\ DiskFaults \in BOOLEAN
  /\ NoRequest \notin Requests /\ Hole \notin Requests /\ Leftover \notin Requests
  /\ Hole # Leftover

VARIABLES
  input,      \* what each request asks for, fixed
  sent,       \* requests whose connection was accepted
  jobs,       \* the queue of the thread pool
  response,   \* what the client of a request has received
  alive,      \* the process is running
  loaded,     \* per version, the styles whose model is in memory
  temp,       \* temp.wav: NoFile or the sequence of its pages
  pc, req,    \* per worker: the next step, the request it serves
  call,       \* per worker: the forward function it is about to call
  result,     \* per worker: did the consonant-length forward succeed?
  pos,        \* per worker: pages written through its own ofstream
  size,       \* per worker: pages of its mapping of temp.wav
  pages,      \* per worker: pages sent so far
  \* History variables: no step reads them.
  loads,      \* per worker: what load_model answered this request
  saved,      \* per worker: the wave of this request is on disk in full
  touched     \* per worker: requests whose handler changed temp.wav between
              \* this worker's opening of it and now

queueVars == <<sent, jobs>>
modelVars == <<loaded, call, result, loads>>
fileVars == <<temp, pos, size, pages, saved, touched>>
vars == <<input, response, alive, pc, req, queueVars, modelVars, fileVars>>

PCs == {"idle", "handle", "check", "load", "forward",
        "open", "write", "map", "send", "died"}
Calls == {"none", "yukarin_s", "yukarin_sa", "decode",
          "consonant_length", "sing_f0", "sing_volume"}

Page == Requests \cup {Hole, Leftover}

(***************************************************************************)
(* Replies.  A reply remembers the history variables of the worker that    *)
(* sent it, so that properties can speak of replies already delivered.     *)
(***************************************************************************)
Reply(status, kind, body, whole, ok, others) ==
  [status |-> status, kind |-> kind, body |-> body, whole |-> whole,
   saved |-> ok, touched |-> others]

EmptyText == Reply(200, "text", <<>>, TRUE, FALSE, {})
Json == Reply(200, "json", <<>>, TRUE, FALSE, {})
InternalServerError == Reply(500, "none", <<>>, TRUE, FALSE, {})

ReplyType ==
  [status : {200, 404, 500}, kind : {"text", "json", "wav", "none"},
   body : Seq(Page), whole : BOOLEAN, saved : BOOLEAN, touched : SUBSET Requests]

\* What stands for nothing is not something.
ASSUME NothingAssumption == NoResponse \notin ReplyType /\ NoFile \notin Seq(Page)

TypeOK ==
  /\ input \in [Requests -> Inputs]
  /\ sent \subseteq Requests /\ jobs \in Seq(Requests)
  /\ response \in [Requests -> ReplyType \cup {NoResponse}]
  /\ alive \in BOOLEAN
  /\ loaded \in [EngineVersions -> SUBSET Styles]
  /\ temp \in Seq(Page) \cup {NoFile}
  /\ pc \in [Workers -> PCs] /\ req \in [Workers -> Requests \cup {NoRequest}]
  /\ call \in [Workers -> Calls] /\ result \in [Workers -> BOOLEAN]
  /\ pos \in [Workers -> Nat] /\ size \in [Workers -> Nat]
  /\ pages \in [Workers -> Seq(Page)]
  /\ loads \in [Workers -> {"none", "ok", "failed"}]
  /\ saved \in [Workers -> BOOLEAN] /\ touched \in [Workers -> SUBSET Requests]
  /\ \A w \in Workers : pc[w] # "idle" => req[w] \in Requests

-----------------------------------------------------------------------------
(* Operators the steps use.  Where two are alike, the first is a slip the  *)
(* code could have made; it takes the place of the second to show that the *)
(* properties notice.                                                      *)

Wave(r) == [i \in 1..input[r].pages |-> r]

Engine(r) == IF input[r].version = NoVersion THEN DefaultVersion
                                             ELSE input[r].version

OpenedKeepingTail(file) == IF file = NoFile THEN <<>> ELSE file

\* A std::ofstream opened without std::ios::app truncates the file.
Opened(file) == <<>>

PageWrittenSparse(file, k, p) ==
  [i \in 1..(IF Len(file) > k THEN Len(file) ELSE k) |->
     IF i = k THEN p ELSE IF i <= Len(file) THEN file[i] ELSE NoRequest]

\* The k-th page is written at the writer's own offset, whatever the length
\* of the file is by then.
PageWritten(file, k, p) ==
  [i \in 1..(IF Len(file) > k THEN Len(file) ELSE k) |->
     IF i = k THEN p ELSE IF i <= Len(file) THEN file[i] ELSE Hole]

MappedSizeRoundedUp(file) == Len(file) + 1

\* fstat at the time of the mapping.
MappedSize(file) == Len(file)

-----------------------------------------------------------------------------
(* Clients and the queue.                                                  *)

Init ==
  /\ input \in [Requests -> Inputs]
  /\ sent = {} /\ jobs = <<>>
  /\ response = [r \in Requests |-> NoResponse]
  /\ alive = TRUE
  /\ loaded \in {f \in [EngineVersions -> SUBSET Styles] :
                   \A v \in EngineVersions : f[v] \subseteq Loadable[v]}
  /\ temp \in {NoFile, <<Leftover>>}
  /\ pc = [w \in Workers |-> "idle"]
  /\ req = [w \in Workers |-> NoRequest]
  /\ call = [w \in Workers |-> "none"]
  /\ result = [w \in Workers |-> FALSE]
  /\ pos = [w \in Workers |-> 0] /\ size = [w \in Workers |-> 0]
  /\ pages = [w \in Workers |-> <<>>]
  /\ loads = [w \in Workers |-> "none"]
  /\ saved = [w \in Workers |-> FALSE]
  /\ touched = [w \in Workers |-> {}]

InFlight == {r \in sent : response[r] = NoResponse}

\* The accept loop of httplib hands the connection of a request to the pool.
Accept(r) ==
  /\ alive /\ r \notin sent
  /\ Cardinality(InFlight) < MaxInFlight
  /\ sent' = sent \cup {r}
  /\ jobs' = Append(jobs, r)
  /\ UNCHANGED <<input, response, alive, pc, req, modelVars, fileVars>>

\* A worker of the pool takes the oldest connection.
Take(w) ==
  /\ alive /\ pc[w] = "idle" /\ jobs # <<>>
  /\ req' = [req EXCEPT ![w] = Head(jobs)]
  /\ jobs' = Tail(jobs)
  /\ pc' = [pc EXCEPT ![w] = "handle"]
  /\ loads' = [loads EXCEPT ![w] = "none"]
  /\ UNCHANGED <<input, response, alive, sent, loaded, call, result, fileVars>>

\* Worker w is about to take step l of the request it serves.
At(w, l) == alive /\ pc[w] = l

Goto(w, l) == pc' = [pc EXCEPT ![w] = l] /\ UNCHANGED <<response, alive, req>>

Respond(w, reply) ==
  /\ response' = [response EXCEPT ![req[w]] = reply]
  /\ pc' = [pc EXCEPT ![w] = "idle"]
  /\ req' = [req EXCEPT ![w] = NoRequest]
  /\ UNCHANGED alive

\* The whole process ends: an assert fails or a null pointer is followed.
Die(w) ==
  /\ alive' = FALSE
  /\ pc' = [pc EXCEPT ![w] = "died"]
  /\ UNCHANGED <<response, req>>

-----------------------------------------------------------------------------
(* The handlers up to their first use of a core.                           *)

RepliesEmptyText(i) == i.route # "synthesis" /\ i.style = NoStyle

\* parse_*_json, get_engine, std::stoi, the text analysis and
\* notes_to_keys_and_phonemes throw; httplib answers 500 to any exception.
Throws(r) ==
  /\ ~RepliesEmptyText(input[r])
  /\ \/ input[r].body = "malformed"
     \/ Engine(r) \notin EngineVersions
     \/ input[r].style = NoStyle

FirstCall(i) == IF i.route = "audio_query" THEN "yukarin_s"
                ELSE IF i.route = "synthesis" THEN "decode"
                ELSE "consonant_length"

Handle(w) ==
  /\ At(w, "handle")
  /\ LET i == input[req[w]] IN
     \/ /\ RepliesEmptyText(i)
        /\ Respond(w, EmptyText)
        /\ UNCHANGED modelVars
     \/ /\ Throws(req[w])
        /\ Respond(w, InternalServerError)
        /\ UNCHANGED modelVars
     \/ \* safe_decode_forward reads (*phoneme)[0] of an empty vector.
        /\ ~RepliesEmptyText(i) /\ ~Throws(req[w])
        /\ i.route = "synthesis" /\ i.body = "empty"
        /\ Die(w)
        /\ UNCHANGED modelVars
     \/ /\ ~RepliesEmptyText(i) /\ ~Throws(req[w])
        /\ ~(i.route = "synthesis" /\ i.body = "empty")
        /\ Goto(w, "check")
        /\ call' = [call EXCEPT ![w] = FirstCall(i)]
        /\ UNCHANGED <<loaded, result, loads>>
  /\ UNCHANGED <<input, queueVars, fileVars>>

-----------------------------------------------------------------------------
(* initialize_style_id_synthesis(style_id, true), then the forward call.   *)

Style(w) == input[req[w]].style
Models(w) == loaded[Engine(req[w])]

NeedsLoadingInverted(w) == Style(w) \in Models(w)

NeedsLoading(w) == Style(w) \notin Models(w)

CheckModel(w) ==
  /\ At(w, "check")
  /\ Goto(w, IF NeedsLoading(w) THEN "load" ELSE "forward")
  /\ UNCHANGED <<input, queueVars, modelVars, fileVars>>

\* The answer of load_model is returned to safe_*_forward, which ignores it.
LoadModel(w) ==
  /\ At(w, "load")
  /\ \E ok \in BOOLEAN :
       /\ ok => Style(w) \in Loadable[Engine(req[w])]
       /\ ~ok => LoadFaults \/ Style(w) \notin Loadable[Engine(req[w])]
       /\ loaded' = IF ok THEN [loaded EXCEPT ![Engine(req[w])] = @ \cup {Style(w)}]
                          ELSE loaded
       /\ loads' = [loads EXCEPT ![w] = IF ok THEN "ok" ELSE "failed"]
  /\ Goto(w, "forward")
  /\ UNCHANGED <<input, queueVars, call, result, fileVars>>

SameCall(c) == c

\* The forward functions a handler calls one after the other.
NextCall(c) == IF c = "yukarin_s" THEN "yukarin_sa"
               ELSE IF c = "consonant_length" THEN "sing_f0"
               ELSE "sing_volume"

\* A core computes exactly when the model of the style is in memory.
Computes(w) == Style(w) \in Models(w)

\* update_length; drop_edge of an empty result throws std::length_error.
ForwardLengths(w) ==
  /\ At(w, "forward") /\ call[w] = "yukarin_s"
  /\ \/ /\ ~Computes(w)
        /\ Respond(w, InternalServerError) /\ UNCHANGED call
     \/ /\ Computes(w) /\ input[req[w]].body = "empty"
        /\ Respond(w, Json) /\ UNCHANGED call
     \/ /\ Computes(w) /\ input[req[w]].body # "empty"
        /\ Goto(w, "check")
        /\ call' = [call EXCEPT ![w] = NextCall(@)]
  /\ UNCHANGED <<input, queueVars, loaded, result, loads, fileVars>>

\* update_pitch, which checks the model again.
ForwardPitch(w) ==
  /\ At(w, "forward") /\ call[w] = "yukarin_sa"
  /\ Respond(w, IF Computes(w) THEN Json ELSE InternalServerError)
  /\ UNCHANGED <<input, queueVars, modelVars, fileVars>>

\* A failed decode gives no channel, and AudioFile::setAudioBuffer asserts one.
ForwardDecode(w) ==
  /\ At(w, "forward") /\ call[w] = "decode"
  /\ \/ Computes(w) /\ Goto(w, "open")
     \/ ~Computes(w) /\ Die(w)
  /\ UNCHANGED <<input, queueVars, modelVars, fileVars>>

\* The three calls of create_sing_phoneme_and_f0_and_volume.  Only the first
\* one initialises the style.
ForwardConsonantLength(w) ==
  /\ At(w, "forward") /\ call[w] = "consonant_length"
  /\ result' = [result EXCEPT ![w] = Computes(w)]
  /\ call' = [call EXCEPT ![w] = NextCall(@)]
  /\ UNCHANGED <<input, response, alive, pc, req, queueVars, loaded, loads, fileVars>>

ForwardSingF0(w) ==
  /\ At(w, "forward") /\ call[w] = "sing_f0"
  /\ call' = [call EXCEPT ![w] = NextCall(@)]
  /\ UNCHANGED <<input, response, alive, pc, req, queueVars, loaded, result,
                 loads, fileVars>>

\* After the volumes the handler walks the phonemes.  Without lengths it
\* reads phoneme_lengths[0] of an empty vector; a sung note has vowel id -1,
\* for which PhonemeList.at throws.  Lengths calc_phoneme_lengths refuses are
\* the subject of SongFrames.
ForwardSingVolume(w) ==
  /\ At(w, "forward") /\ call[w] = "sing_volume"
  /\ LET body == input[req[w]].body IN
     \/ body # "empty" /\ ~result[w] /\ Die(w)
     \/ body = "good" /\ result[w] /\ Respond(w, InternalServerError)
     \/ body = "empty" /\ Respond(w, Json)
     \/ body = "rests" /\ result[w] /\ Respond(w, Json)
  /\ UNCHANGED <<input, queueVars, modelVars, fileVars>>

-----------------------------------------------------------------------------
(* wave.save(temp_path), then res.set_file_content(temp_path).             *)

\* The other workers between their own opening of temp.wav and their last
\* page see what w does to the file.
Touched(w, own) ==
  [v \in Workers |->
     IF v = w THEN own
     ELSE IF pc[v] \in {"write", "map", "send"} THEN touched[v] \cup {req[w]}
     ELSE touched[v]]

OpenTemp(w) ==
  /\ At(w, "open")
  /\ temp' = Opened(temp)
  /\ pos' = [pos EXCEPT ![w] = 0]
  /\ touched' = Touched(w, {})
  /\ saved' = [saved EXCEPT ![w] = FALSE]
  /\ Goto(w, "write")
  /\ UNCHANGED <<input, queueVars, modelVars, size, pages>>

\* save returns false, which the handler ignores: it serves what is there.
OpenTempFails(w) ==
  /\ DiskFaults /\ At(w, "open")
  /\ saved' = [saved EXCEPT ![w] = FALSE]
  /\ touched' = [touched EXCEPT ![w] = {}]
  /\ Goto(w, "map")
  /\ UNCHANGED <<input, queueVars, modelVars, temp, pos, size, pages>>

WritePage(w) ==
  /\ At(w, "write") /\ pos[w] < input[req[w]].pages
  /\ temp' = PageWritten(temp, pos[w] + 1, req[w])
  /\ pos' = [pos EXCEPT ![w] = @ + 1]
  /\ touched' = Touched(w, touched[w])
  /\ UNCHANGED <<input, response, alive, pc, req, queueVars, modelVars,
                 size, pages, saved>>

\* A failed write sets badbit: the rest of the wave is dropped silently.
WritePageFails(w) ==
  /\ DiskFaults /\ At(w, "write") /\ pos[w] < input[req[w]].pages
  /\ Goto(w, "map")
  /\ UNCHANGED <<input, queueVars, modelVars, fileVars>>

CloseTemp(w) ==
  /\ At(w, "write") /\ pos[w] = input[req[w]].pages
  /\ saved' = [saved EXCEPT ![w] = TRUE]
  /\ Goto(w, "map")
  /\ UNCHANGED <<input, queueVars, modelVars, temp, pos, size, pages, touched>>

-----------------------------------------------------------------------------
(* The handler has returned.  httplib maps the file: the length is read    *)
(* now, the pages when they are sent.                                      *)

WavReply(w, status, whole) ==
  Reply(status, IF status = 200 THEN "wav" ELSE "none", pages[w], whole,
        saved[w], touched[w])

MapTemp(w) ==
  /\ At(w, "map") /\ temp # NoFile /\ temp # <<>>
  /\ size' = [size EXCEPT ![w] = MappedSize(temp)]
  /\ pages' = [pages EXCEPT ![w] = <<>>]
  /\ Goto(w, "send")
  /\ UNCHANGED <<input, queueVars, modelVars, temp, pos, saved, touched>>

\* mmap of an empty file fails: httplib sends a 200 without a body.
MapEmptyTemp(w) ==
  /\ At(w, "map") /\ temp = <<>>
  /\ Respond(w, Reply(200, "wav", <<>>, TRUE, saved[w], touched[w]))
  /\ UNCHANGED <<input, queueVars, modelVars, fileVars>>

MapNoTemp(w) ==
  /\ At(w, "map") /\ temp = NoFile
  /\ Respond(w, Reply(404, "none", <<>>, TRUE, saved[w], touched[w]))
  /\ UNCHANGED <<input, queueVars, modelVars, fileVars>>

\* The page as it is in the file at this moment.
SendPage(w) ==
  /\ At(w, "send") /\ Len(pages[w]) < size[w]
  /\ Len(pages[w]) < Len(temp)
  /\ pages' = [pages EXCEPT ![w] = Append(@, temp[Len(@) + 1])]
  /\ UNCHANGED <<input, response, alive, pc, req, queueVars, modelVars,
                 temp, pos, size, saved, touched>>

\* The mapping reaches beyond the file, which was truncated since: send fails
\* with EFAULT and the connection is closed after a part of the body.
SendFault(w) ==
  /\ At(w, "send") /\ Len(pages[w]) < size[w]
  /\ Len(pages[w]) >= Len(temp)
  /\ Respond(w, WavReply(w, 200, FALSE))
  /\ UNCHANGED <<input, queueVars, modelVars, fileVars>>

SendDone(w) ==
  /\ At(w, "send") /\ Len(pages[w]) = size[w]
  /\ Respond(w, WavReply(w, 200, TRUE))
  /\ UNCHANGED <<input, queueVars, modelVars, fileVars>>

-----------------------------------------------------------------------------
SaveStep(w) == \/ OpenTemp(w) \/ OpenTempFails(w)
               \/ WritePage(w) \/ WritePageFails(w) \/ CloseTemp(w)

SendStep(w) == \/ MapTemp(w) \/ MapEmptyTemp(w) \/ MapNoTemp(w)
               \/ SendPage(w) \/ SendFault(w) \/ SendDone(w)

ForwardStep(w) == \/ ForwardLengths(w) \/ ForwardPitch(w) \/ ForwardDecode(w)
                  \/ ForwardConsonantLength(w) \/ ForwardSingF0(w)
                  \/ ForwardSingVolume(w)

WorkerStep(w) == \/ Take(w) \/ Handle(w) \/ CheckModel(w) \/ LoadModel(w)
                 \/ ForwardStep(w) \/ SaveStep(w) \/ SendStep(w)

\* The workload is finite: the server idles once it is served, and a dead
\* process does nothing.
Quiet ==
  /\ ~alive \/ \A r \in Requests : response[r] # NoResponse
  /\ UNCHANGED vars

Next == \/ \E r \in Requests : Accept(r)
        \/ \E w \in Workers : WorkerStep(w)
        \/ Quiet

Spec == Init /\ [][Next]_vars

\* The operating system runs every thread of the pool, and the calls into a
\* core, the disk and the socket return.  Clients need not send anything.
Fairness == \A w \in Workers : WF_vars(WorkerStep(w))

FairSpec == Spec /\ Fairness

-----------------------------------------------------------------------------
(* What the server promises.                                               *)

WavReplies == {r \in Requests : /\ response[r] # NoResponse
                                /\ response[r].kind = "wav"}

\* A /synthesis reply whose wave was saved in full, and during whose handling
\* nobody else changed temp.wav, is exactly the wave of its own request.
WaveIsOwn ==
  \A r \in WavReplies :
    response[r].saved /\ response[r].touched = {} =>
      response[r].body = Wave(r) /\ response[r].whole

\* Nothing older than the request itself is ever sent once temp.wav was
\* opened for it: each page is its own, a hole, or a page of a handler
\* that changed the file meanwhile.
BodyProvenance ==
  \A r \in WavReplies : response[r].saved =>
    \A i \in 1..Len(response[r].body) :
      response[r].body[i] \in {r, Hole} \cup response[r].touched

\* A reply is cut short only by a handler that truncated the file under it.
CutOnlyByOthers ==
  \A r \in WavReplies :
    ~response[r].whole => \/ response[r].touched # {}
                          \/ ~response[r].saved

\* The three properties above rest on what a handler may know of the file and
\* of its reply while it works.  The first n pages are all of temp.wav and its
\* own, unless somebody else touched the file; and a page that is neither its
\* own nor a hole is the page of somebody who did.
Intact(w, n) ==
  /\ \A i \in 1..Len(temp) : temp[i] \in {req[w], Hole} \cup touched[w]
  /\ touched[w] = {} => temp = [i \in 1..n |-> req[w]]

SentIntact(w) ==
  /\ \A i \in 1..Len(pages[w]) : pages[w][i] \in {req[w], Hole} \cup touched[w]
  /\ touched[w] = {} => /\ size[w] = input[req[w]].pages
                        /\ Len(pages[w]) <= size[w]
                        /\ \A i \in 1..Len(pages[w]) : pages[w][i] = req[w]

Isolated(w) ==
  /\ pc[w] \in {"write", "send"} => temp \in Seq(Page)
  /\ pc[w] = "write" => /\ ~saved[w]
                        /\ pos[w] <= input[req[w]].pages /\ Intact(w, pos[w])
  /\ pc[w] \in {"map", "send"} /\ saved[w] =>
       temp \in Seq(Page) /\ Intact(w, input[req[w]].pages)
  /\ pc[w] = "send" /\ saved[w] => SentIntact(w)

Isolation == \A w \in Workers : Isolated(w)

\* Whenever a worker is about to call a core, the model of the style is in
\* memory unless load_model refused it for this very request: the answer of
\* is_model_loaded may be stale by then, but only in the harmless direction,
\* and the two sing calls that do not initialise the style may rely on the
\* consonant call before them.
ModelReady ==
  \A w \in Workers :
    pc[w] = "forward" /\ loads[w] # "failed" => Computes(w)

\* The process dies only on behalf of a request that asks for a style its
\* core refused to load, or for the synthesis of a query without phonemes.
DeathHasCause ==
  ~alive => \E w \in Workers :
    /\ pc[w] = "died"
    /\ \/ loads[w] = "failed"
       \/ input[req[w]].route = "synthesis" /\ input[req[w]].body = "empty"

\* Every accepted connection is answered as long as the process lives.
EveryRequestAnswered ==
  \A r \in Requests : r \in sent ~> (response[r] # NoResponse \/ ~alive)

\* The assertion of AudioFile::setAudioBuffer, "The buffer you are trying to
\* use has no channels", is never the end of the process.
BufferHasChannels ==
  \A w \in Workers :
    pc[w] = "died" /\ call[w] = "decode" => input[req[w]].body = "empty"

-----------------------------------------------------------------------------
(* With one request in flight and no faults the server implements          *)
(* ServiceContract: truncation, write, mapping and sending then read like  *)
(* one step that answers with the request's own wave.                      *)

Public(reply) ==
  IF reply = NoResponse THEN NoResponse
  ELSE [status |-> reply.status, kind |-> reply.kind, body |-> reply.body]

Contract == INSTANCE ServiceContract
              WITH response <- [r \in Requests |-> Public(response[r])]

\* Every behaviour of the server is one of the contract.
ImplementsContract == Contract!Spec
=============================================================================
