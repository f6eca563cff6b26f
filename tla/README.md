# VOICEVOX ENGINE in C++: a TLA+ development

This directory specifies and verifies the behaviour of the speech synthesis
server in `src/src` of this repository: a C++20 port of VOICEVOX ENGINE that
loads VOICEVOX cores (shared libraries), turns text into accent phrases with a
bundled Open JTalk, and answers HTTP requests for queries and waves. The port is
unfinished ("未完成"), has no tests, and its header-only parts (presets,
settings, user dictionary, morphing, library management) have no code yet.

Everything here is translated from the source. `PROJECT.json` maps each
definition to the lines it stands for.

    tlc -config MCServerWaves.cfg MCEngineServer.tla     model-check one run
    tlapm EngineServer_proofs.tla                        check one proof module

## 1. Inventory

### Components, state, operations

| component | code | state it keeps | operations |
| --- | --- | --- | --- |
| HTTP server | `libraries/httplib.h` (vendored), `app/application.cc` | queue of connections, worker threads, one mapping per file reply | accept, take, run handler, reply from memory or file |
| tts_pipeline routes | `app/routers/tts_pipeline.cc` | one file `temp.wav` shared by all requests | `/audio_query`, `/synthesis`, `/sing_frame_audio_query` |
| character routes | `app/routers/character.cc` | none | `/speakers`, `/singers`, their infos |
| core adapter | `core/core_adapter.cc` | none of its own | load a model on demand, six `safe_*_forward` calls |
| core wrapper | `core/core_wrapper.cc` | handle of a library; the library holds the models | `load_core`, `load_model`, `is_model_loaded`, forwards |
| core initializer, CoreManager | `core/core_initializer.cc` | cores by version | load each directory, register, look up |
| version utility | `utility/core_version_utility.cc` | none | `get_latest_version` |
| TTS engine manager | `tts_pipeline/tts_engine.cc` | engines by version | make from cores, `get_engine` |
| TTS engine: song | `tts_engine.cc`, `util.cc` | none between calls | score to phonemes, lengths, frames |
| TTS engine: speech | `tts_engine.cc` | none between calls | accent phrases, lengths, pitches, decoder features |
| text analyzer | `tts_pipeline/text_analyzer.cc` | none | labels to moras, phrases, breath groups |
| kana converter | `tts_pipeline/kana_converter.cc` | none | AquesTalk notation to phrases and back |
| NJD list and rules | `open_jtalk/njd*` | doubly linked list of words | insert, remove, digit/accent/vowel rules |
| JPCommon | `open_jtalk/jpcommon*` | four levels of linked lists | push a word, make labels |
| MeCab | `open_jtalk/mecab/` | a lattice per sentence; the model behind a lock | look words up, Viterbi, N best; parse, swap |
| wave connection | `tts_pipeline/connect_base64_waves.cc` | none; nothing calls it | decode, convert, join |
| json, base64, AudioFile | vendored | - | - |

### How they interact

`main` runs `initialize_cores`, which loads libraries and fills a `CoreManager`;
`make_tts_engines_from_cores` wraps each core, mock apart, in a `TTSEngine`; `serve`
registers routes that close over the managers and listens. After that the managers
are read only. Handlers run concurrently on httplib's pool. They share three
things: the queue of connections, the models inside each core, and
`temp_directory_path()/"temp.wav"`. A `/synthesis` handler truncates and writes that
file, names it in the response and returns; **httplib maps and sends it after the
handler has gone**, so the file must survive beyond the only code that knows
about it.

### What is hard

- Interleavings of handlers on `temp.wav` and on the loading of models.
- Failures whose answers are dropped: `load_model`, `save`, a forward call.
- Exceptions of four types, of which `load_core_library` catches one.
- A comparator for `std::sort` that is not always an order.
- Arrays that are parallel by position only, filled by separate loops.
- Signed lengths against `size_t`.
- Pointer surgery in the lists taken over from Open JTalk.
- Notations and counters read by one side of the code and written by another: labels,
  kana, the marks of unvoiced vowels.
- A lock made of two words that are never changed together.

There is no persistence that a restart must recover, and no timer: those kinds of
hazard do not occur. The full list, with lines and the property that looks after
each, is `hazards` in `PROJECT.json`.

### What makes each component correct

- *Server and routes*: a client gets the wave of its own request unless somebody
  interfered; everything foreign has a known origin; every accepted connection is
  answered; the process ends only for known causes; models are in memory when used.
- *Startup*: libraries the program came with win over those of the user; the server
  never starts without them; the default engine is well defined.
- *Song*: no time is lost or made up; phonemes and lengths belong together; loops
  stay in their arrays.
- *Lists*: NJD operations act on a sequence; JPCommon links agree in both directions.
- *Rules*: the words of a number say its value; an accent falls inside its phrase; a
  window that looks ahead stays in step with the text.
- *Text analyzer*: what the labels were made of is what is read from them.
- *Kana converter*: what is written is unambiguous; reading goes forwards and ends, and
  loses no more than the characters its index is moved too far.
- *Speech*: every mora keeps its own length, pitch and accent.
- *MeCab*: the cheapest reading of the whole sentence; a model is not deleted while it
  is used.

## 2. Plan

The order was: what every request passes through first, then what matches arrays and
lists by position, then the rules.

1. `EngineServer` with its abstract specification `ServiceContract`.
2. `VersionOrder` and `EngineStartup`, which is built on it.
3. `SongFrames`, `SpeechQuery`, `WaveConnection`: arrays matched by position.
4. `NjdList` with its abstract specification `WordSequence`; the rules on words
   `NjdDigits`, `NjdAccent` and `NjdVowels`.
5. `JpcommonLabel` with its abstract specification `Utterance`; `TextAnalyzer`, and
   `TextFrontEnd`, which composes the two; `KanaConverter`.
6. `ReadWriteMutex` with its abstract specification `ReadersWriters`; `ModelSwap`, which
   extends the lock with parsers and swaps; `MecabLattice`.

All of these are done. Not done, in the order in which they would add most: the voiced
readings of counters in `njd_set_digit`; `njd_set_pronunciation`; a proof that the phrases read from the labels
are those of the utterance (`PhrasesSpoken`).

Provable modules use no RECURSIVE operator.

## 3. Modules and how they correspond to the code

### EngineServer

One worker of the pool is one process with a program counter. The actions are the
accesses to shared state in the order the code makes them; what a handler does on
its own memory in between is part of the neighbouring step.

| code | model |
| --- | --- |
| accept loop, `ThreadPool::enqueue` | `Accept` |
| worker loop | `Take` |
| handler up to its first core call: parsing, `get_engine`, early `return`, exceptions | `Handle` |
| `initialize_style_id_synthesis` | `CheckModel` then `LoadModel`: two steps, because another handler may run between `is_model_loaded` and `load_model` |
| `yukarin_s_forward`, `yukarin_sa_forward` | `ForwardLengths`, `ForwardPitch` |
| `decode_forward`, then `setAudioBuffer` | `ForwardDecode`; a failure dies in the assertion |
| three sing forwards | `ForwardConsonantLength`, `ForwardSingF0`, `ForwardSingVolume` |
| `AudioFile::save` | `OpenTemp`, `WritePage`, `CloseTemp`, and the failures `OpenTempFails`, `WritePageFails` |
| httplib's file reply | `MapTemp`, `MapEmptyTemp`, `MapNoTemp`, `SendPage`, `SendFault`, `SendDone` |

A wave is a sequence of pages, each the name of the request it belongs to, so
foreign content is visible. `Hole` is what a write beyond the end leaves below it,
`Leftover` the file of an earlier process. A write goes to the writer's own offset
whatever other writers did; a mapping has the length the file had when it was
mapped and the pages the file has when they are sent. `loads`, `saved` and `touched`
are history variables no step reads.

`/synthesis` of a query without phonemes, a failed decode and a failed song
prediction end the whole process (`Die`): a null or empty vector is read, or an
assertion fails. That is modelled as the outcome of the build with assertions.

### ServiceContract

What one client that waits for each answer sees: one `Serve` or `Fail` per request.
`EngineServer` with one request in flight and no disk or load fault implements it
under the mapping that hides the history in the replies.

### VersionOrder and EngineStartup

`VersionOrder` is the comparator of `get_latest_version`, with strings as sequences
of character codes. Its loop over the fields compares the whole strings in the first
round, so only the number of fields matters. `LatestOf` is what may stand in front
after `std::sort`: a least version when the comparator is a strict weak order on the
versions at hand, any of them when it is not.

`EngineStartup` walks the directories one load at a time (`LoadCore`,
`SuppressError`, `LoadError`), then lists the user's directory, makes the engines
and looks some up. A directory holds one of six `Kinds`, which is all load_core
tells apart; `ErrorOf` says which of four types of exception each raises. An
exception nobody catches ends the process.

### SongFrames

`create_sing_phoneme_and_f0_and_volume`, one action per round of each loop. A length
carries in `of` the phoneme it was computed for; the code has only the position.
`Overrun` is the state in which a loop reads or writes outside a vector; what
follows in the code is undefined and not modelled.

A sung note never gets a reply: `vowel_ = vowel` loses the vowel, its id is -1, and
`PhonemeList.at` throws after all predictions are made (`Assemble`).

### NjdList and WordSequence

`NjdList` is the list at the level of pointers: `Push` is `NJDNode_load` and
`NJD_push_node` on one feature of MeCab, which may be several words; `RemoveNode` has
the four branches of `NJD_remove_node` and, like it, says where the loop goes on;
`Insert` is `NJDNode_insert`; `SweepOut`, `SweepKeep` and `SweepDone` are the loop of
`NJD_remove_silent_node`. Freed addresses are handed out again, so a pointer to one
would soon point into the wrong word. What the rules look at in a word is left out
except whether it is silent (pronunciation `*`): a rule may insert, take out, silence
or voice wherever its loop stands, which is more than the linguistic conditions let
it do. `NJD_load`, `NJD_refresh` and `NJD_clear` are never called by the engine.

`WordSequence` is what the rules take the list for, a sequence without pointers and
cursors. `NjdList` implements it with `words <- Path`, the words met from `head` along
`next`; a sweep may only take out silent words and ends when there is none. `Linked`
adds the other direction: `prev`, `tail` and the set of allocated nodes agree with
the same order.

### SpeechQuery

`POST /audio_query` is `AnalyzeText`, `UpdateLength`, `UpdatePitch` (`UpdatePitchEmpty`
without phrases) and `Reply`; the client keeps or edits the query (`Keep`, `EditMora`),
and `POST /synthesis` walks through `query_to_decoder_feature`: `Upspeak`, `Flatten`,
`PauseLength`, `SpeedScale`, `PitchScale`, `Intonation`, `Decode`. A core is
a function of positions, so that a value that lands on the wrong mora shows. Lengths are
hundredths of a second and pitches are chosen so that each scaling is exact. `given` keeps
the two arrays the decoder is called with. The code also counts frames and stretches copies
of the arrays by them (`numpy_repeat`), and drops what it made: no state comes of it.
`Decode` ends as `undefined` where a core, which reads one pitch for each phoneme, would
read behind the shorter array.

### WaveConnection

`decode_base64_waves` and the three nested loops of `connect_base64_waves`, one sample a
step. Setting the rate of a wave leaves its samples alone, and a second channel is
written from where the first one ended: with two channels a request ends in `overrun`.
The properties are therefore about mono waves.

### JpcommonLabel, Utterance, TextAnalyzer, TextFrontEnd

`JpcommonLabel` is `push_word`, token by token of the pronunciation, with its five
lists. Lists only grow at their end, so they are sequences and a pointer is an index.
`Utterance` is what the lists are for: groups of phrases of moras.
`JpcommonLabel` implements it by reading the lists from the top along `head` and `tail`.

`TextAnalyzer` cuts a flat sequence of labels at changes of an index. `TextFrontEnd`
makes the labels of the lists and gives them to it: `SpeaksUtterance` says that the
phrases read are those of the utterance, across a format of which each side knows only
its own half. `MAX_M` is 49 in the code and 3 in the run, `MAX_S` is 19 and 2.

### KanaConverter

`create_kana` is one step (`Write`), `parse_kana` one step per byte, and
`text_to_accent_phrase` one step per round of its loop. The cases of
`split_string_kana` fall through, so that in this code every character but a blank
throws; `text_to_accent_phrase` is modelled for all texts, which it would get if the
cases ended. A text of blanks only reads behind the end of its characters
(`pc = "overrun"`). `base_index` (`at`) counts characters and is moved by the bytes of a mora,
so two characters are lost for each kana; `ReadForwards` says which. What `create_kana` writes
has its mark right behind a mora, where it is always lost, and is never read back.

### NjdDigits, NjdAccent, NjdVowels

These rules use the list as `WordSequence` promises it, so the list is a sequence and a node
a position in it.

`NjdDigits` is `njd_set_digit`: `FindRun` finds digits, commas and periods in a row,
`ReadUntilPeriod`, `ReadUntilComma` and `ReadOneByOne` are the outcomes of
`get_digit_sequence_score` for a piece of it, `Ones` and `Tens` are the loop that puts
units between the digits, from the left, with `digitIndex` and `place` counting down.

`NjdAccent` is `njd_set_accent_phrase` (`ChainWord`: of the rules 01 to 18 the last that
applies decides) and `njd_set_accent_type` (`TypeWord`).

`NjdVowels` is `njd_set_unvoiced_vowel` with its window of three moras: `LookAhead` shifts
it and fetches, `Mora` applies the rules to the first of them, `WordDone` writes the word.

### ReadWriteMutex, ReadersWriters, ModelSwap

`ReadWriteMutex` is the spin lock of `mecab/thread.h`, each access of `l_` and of
`write_pending_` a step. A spin that finds the condition unmet changes nothing and is no
step. `ReadersWriters` is what it promises. `ModelSwap` runs `TaggerImpl::parse` and
`ModelImpl::swap` on it, with the reading of `current_viterbi` before the lock and the
deletion behind it. MeCab compiles the lock in where `HAVE_ATOMIC_OPS` is defined, in this
build on Windows; elsewhere `swap` returns false and there is nothing to lock. The two
words are not volatile and no fence is used for reading: the model assumes that a spin
rereads them.

### MecabLattice

How MeCab cuts a sentence into words. `Lookup` is `Tokenizer::lookup`: the blanks in
front, the words of the dictionary that begin behind them, and the unknown words, by
group and by single characters. `Pass` and `Extend` are the rounds of
`Viterbi::viterbi`, `EndOfSentence` its end and `initNBest`; `Give` and `Expand` take one
element off the queue of `NBestGenerator::next`. A node is a record of where it starts and
ends, its class and its cost; `end_node_list` is read off the nodes, with the order of
that list kept where it decides (`BestLeft`: the first of the cheapest). A character is one
place long whatever its bytes.

`Mecab_analysis` asks for one best answer only; readings beyond the first are modelled as
the library gives them. `Horizon` stands for 65535 and `CostLimit` for 2147483647: a
sentence that costs as much is refused as too long. Where nothing but blanks stand up to the
horizon, the dictionary is asked for words of length 0, which `commonPrefixSearch`
(`darts.h:444`) takes for the whole rest of the text, and the next character is read as an
unknown word as well; `Lookup` has both.

## 4. Runs

| run | question | result | distinct states |
| --- | --- | --- | --- |
| `server_waves` | three `/synthesis` on two workers, with disk faults: what may a reply hold? | TypeOK, Isolation, WaveIsOwn, BodyProvenance, CutOnlyByOthers hold | 355,944 |
| `server_routes` | every route, input and loading outcome, two at a time | ModelReady, DeathHasCause, EveryRequestAnswered hold | 90,896 |
| `server_serial` | does one client at a time see the contract? | ImplementsContract holds | 230,052 |
| `server_channels` | is the assertion on channels never reached? | violated: a style without a model | |
| `startup` | every content of three directories, with versions in a circle | TypeOK, FirstWins, VoicelibsServed, DefaultUnique hold | 103,088 |
| `startup_latest` | is `get_engine()` the latest? | violated: 0.14 before 0.15 | |
| `tts_features` | speech, songs and waves: does everything stay at its position? | PredictionsBelong, FeaturesRight; FramesKept, Aligned, SongSafe; MonoConnected hold | 355,168 |
| `njd_rules` | the list of words under all edits, and three rules on it | ListSound, ImplementsSequence; DigitsSound, NumbersRead, RuleEnds; AccentsSound; WindowInStep, VowelsRight hold | 286,646 |
| `text_front_end` | sentence to words, words to phrases, kana to and from phrases | LatticeSound, NothingUnread, ReadingsInOrder; LabelsSound, ImplementsUtterance, PhrasesSpoken; KanaSound; CallsEnd hold | 102,704 |
| `kana_characters` | are the characters of the comment accepted? | violated: each of them throws | |
| `model_swap` | two taggers and two swaps, each access of the lock a step | LockSound, ImplementsReadersWriters, ModelsAlive, ThreadsGoOn hold | 4,954 |
| `model_swap_twice` | does a swap delete each Viterbi once? | violated: both have read the same pointer | |

The runs `tts_features`, `njd_rules` and `text_front_end` check several components that
share no state. A behaviour is one of a single component; the variables of the others
are as they are when those have ended with nothing done. So every invariant is checked
on all states of its component, and the states of the components add up instead of
multiplying.

What a component promises is often a conjunction of parts that are defined and explained
one by one in its module; the type invariant is one of them:

| property | parts |
| --- | --- |
| `PredictionsBelong` | SpeechTypeOK, LengthsBelong, PitchesBelong, AccentsMarked |
| `FeaturesRight` | UnvoicedSilent, MeanKept, PitchesInStep |
| `SongSafe` | SongTypeOK, NoOverrun, FailureNoReply |
| `MonoConnected` | MonoJoined, MonoFits |
| `ListSound` | ListTypeOK, Linked, SweptClean |
| `DigitsSound` | DigitsTypeOK, NeverExits |
| `NumbersRead` | SaysItsValue, EveryDigitRead, DecimalsOneByOne |
| `AccentsSound` | AccentTypeOK, AccentInPhrase, SymbolAlone |
| `VowelsRight` | VowelsTypeOK, NeverTwice, AccentVoiced, MarksKept |
| `LabelsSound` | TypeOK, WalksSafe, Nested |
| `PhrasesSpoken` | SpeaksUtterance, EveryMoraSpoken, AccentInside |
| `KanaSound` | KanaTypeOK, NotationReadable, AccentOnMora, ReadForwards, NoFalseAlarm |
| `LatticeSound` | LatticeTypeOK, CheapestLeft |
| `ReadingsInOrder` | BestIsLeast, CheapestFirst, NoneMissing |
| `CallsEnd` | CallEnds, AnalysisEnds |
| `LockSound` | TypeOK, WordsCount, MutualExclusion |
| `ModelsAlive` | AnalysisAlive, ModelAlive |
| `ThreadsGoOn` | SomeWriterWrites, ParsesOn, SwapEnds |

Nearly every part has a mutant of its own under `mutants` in `PROJECT.json`: a definition
`X` in a module stands beside its mutated form, with which the run must find the
property violated.

WaveIsOwn is conditional on nobody touching the file: the unconditional
statement is false, two clients do get each other's waves. The repository states
nothing of concurrent requests, so this is reported here and not as a finding.

### Bounds and why they are enough

- `server_*`: two workers and two or three requests. Interference on `temp.wav` is
  between one reader or writer and one other writer; a third request lets a worker
  be reused. Waves have one or two pages: a difference in length is what makes
  truncation, holes and short replies happen. `MaxInFlight` bounds the queue.
- `startup*`: two program directories, the user's one and two files in it; three
  versions beside the mock make a circle of the comparator.
- `tts_features`: texts of up to three phrases with and without pause, consonant,
  whispered vowel and question, and a core that tells every position apart. Up to three
  notes give a first, a middle and a last one; lengths of 0, 1, 4, 5 and -3 frames
  against predictions of -1, 0, 2 and 6 give each branch of `Taken`, and rounding both
  ways. Up to three waves of up to two samples, of two rates, with one or two channels.
- `njd_rules`: four addresses and features of up to three words give removals of the
  only, first, last and an inner node, two silent neighbours, and addresses that come
  back. Texts of up to four words of a number, numbers of up to nine digits (three
  groups of four), grouped ones and decimals. Accents and vowels: every text of up to
  three words of each sort the rules tell apart, the window's width, and some of four.
- `text_front_end`: sentences of up to four characters of four sorts, with words of
  the same surface, negative costs, ways of equal cost and ways beyond `CostLimit`. Four
  words or marks with limits of 3 and 2, so that they are passed. Lists of up to three
  phrases written. `Inputs`: every phrase of up to five characters, and longer ones of kana
  and marks, since a mora takes its own character and two more: it takes eleven to go round
  more often than `LoopLimit`, 3 standing for 300. Texts of `MaxBytes` bytes.
- `model_swap`: two of each, so that each sort of thread meets its like and the other.

`CHECK_DEADLOCK FALSE` in the startup run and in the three of several components: a
process that ended and a function that returned take no more steps. In the server
`Quiet` is the stuttering of a server that has served its finite workload, and parsers
go on for ever, so deadlock is checked in the server runs and in those of the lock.

### Fairness

`EngineServer!Fairness`: weak fairness of each worker's step. Threads are scheduled
by the operating system, and calls into a core, the disk and the socket return;
clients need not send anything. `SwapSpec`: weak fairness of each thread, because a thread that spins
is still scheduled. A tagger may lose to the writers again and again, so `ParsesOn` is a
property of finitely many swaps, one for each caller. `NjdDigits`,
`KanaConverter` and `MecabLattice`: weak fairness of the one thread that runs the
function: it does not stop in the middle. Findings are step properties and need no fairness.

### Where the code and what it says differ

Four runs show it: `server_channels`, `startup_latest`, `kana_characters` and
`model_swap_twice`; the `findings` in `PROJECT.json` quote both sides. Met while
modelling and modelled as the code has it, with no run of their own because no sentence of the
repository could be held against a state, but for `tagger.cc:637` below:

- `core_wrapper.cc:270`: an incompatible core is reported with the wording of one that
  was not found.
- `core_wrapper.cc:408`: the last error's message is read after the call without a lock,
  so it may be another request's.
- `tts_engine.cc:178`: the frame rate 93.75 is kept in an `int32_t`.
- `tts_engine.cc:399`: `vowel_ = vowel` is the wrong way round; no sung note gets a reply.
- `tts_engine.cc:311`: the arrays stretched to frames are dropped, and the decoder is given the
  phonemes and the pitches of the moras as they were: from the first consonant on, a
  phoneme meets the pitch of another mora, and the last ones none (`PitchesInStep`).
- `tts_engine.cc:475`: a mora without consonant gets length 0 where `model.h:13` has
  null; it would count no frames, and those that are counted are dropped.
- `tts_engine.cc:613`: when the prediction of the consonants failed, `phoneme_lengths` is
  empty and is read for every phoneme all the same (`NoOverrun` says that this is the only
  way out of the arrays, where notes last no negative time).
- `connect_base64_waves.cc:66`: the position is not set back for the second channel; the
  rate of a wave is changed without resampling.
- `kana_converter.cc:152`: the index into the characters moves on by the bytes of what was
  matched, so the characters behind a mora are passed over, among them the accent mark
  `create_kana` writes there: a notation it wrote is never read back (`ReadForwards`).
- `njd_set_unvoiced_vowel.cc:243`: a polite ending overrides the mark of the dictionary.
- `tagger.cc:637`: the answer of `parse` is written after the lock was given back, when
  a swap may have deleted the dictionary it points into. This does contradict a sentence,
  `mecab.h:1137`: "No need to stop the parsing thread excplicitly before swapping model
  object". `ModelsAlive` is about what happens under the lock; the step `answer` behind it is
  in the model and outside the property. The engine never swaps.

## 5. Theorems

Checked by tlapm for every value of the constants, from the named assumptions
`ServerAssumption`, `NothingAssumption`, `StartupAssumption`, `SongAssumption`,
`QueryAssumption`, `AnalyzedAssumption`, `LabelAssumption`, `ListAssumption`, `TextsAssumption`,
`ThreadsAssumption`, `FirstIsNew`, `LatticeAssumption`, `WaveAssumption`, `KanaAssumption`,
`AccentAssumption` and `VowelAssumption`, which TLC evaluates in the runs.
`NothingAssumption` and `FirstIsNew` keep a name that stands for nothing apart from the
others; `AnalyzedAssumption` says of a text what the front end makes sure of (an accent on
one of the moras, `AccentInside`) and of a core that it fills the array it was given.

- `LeastElements`: no theorem about the code. What the others need of finite and of
  well-founded sets: a least element, an induction over the numbers and over a bounded
  measure, that a function defined step by step exists, and what `FlattenSeq` makes of a
  sequence of sequences. The library's theorems for that take an operator as a parameter;
  these take a set.
- `EngineServer_proofs`
  - `TypeCorrect`. `TypeOK` alone is not inductive: a page is written into
    `temp` only if the file exists, hence `TempExists`.
  - `HandlersIsolated`, `RepliesAreIntact`. A reply is decided when the request's
    own handler has long gone, so the invariant follows the file itself:
    `Isolated(w)` says, for a worker between its opening of the file and its last
    page, what it may know of the file and of what it has sent - all its own while
    `touched` is empty, and of known origin otherwise. Each step of another worker
    either does not touch the file or puts itself into `touched`. Delivered replies
    remember `saved` and `touched`, from which the three properties follow
    (`BodiesHaveKnownPages` and `CutsAreByOthers` state two of them alone).
  - `CoresReady`. `loaded` only grows, so the answer of `is_model_loaded` goes stale
    in the harmless direction only; `Prepared(w)` also covers the sing calls that do
    not check. `DeathsHaveCauses` states its second half alone.
  - `OneClientIsServed`: the refinement of `ServiceContract`, for any number of workers,
    requests and pages. Its hypothesis `OneClient` says what `server_serial` says by its
    constants: one request in flight, no fault of disk or loading. The invariant
    (`ContractInv`) says who may be busy, and that what a busy worker has written and sent
    is the beginning of its own wave.
- `EngineStartup_proofs`
  - `StartupTypeCorrect`, `FirstLibraryWins`; `VoicelibsAreServed` rests on
    `Progress`: the directories already done all gave a core, and those left are the
    tail of the list.
  - `DefaultIsUnique`: where every version has a dot, the comparator counts fields, and
    counting is an order; versions that count alike are told apart by the rest.
- `TtsFeatures_proofs`, songs
  - `SongTypeCorrect` needs `OnePerNote`: there are no lengths or one per note.
  - `SongStaysInside`: where notes last no negative time, the loops leave their arrays in
    one case only, a failed prediction. What a consonant takes is between 0 and the note
    (`TakenBounds`), so lengths are never negative. The assembly reads `phoneme_lengths[i]`
    for every phoneme, of which there may be more: but the phonemes of a note before its
    vowel are no more than the notes so far (`OpeningShort`), there is a length for each of
    these (`LengthsThere`), and at the vowel the assembly throws. `SongIsSafe` adds the
    types, and that no song is made of a failed prediction.
  - `TimeIsKept`: the sum of the lengths so far is that of the notes done
    (`FramesKept` is inductive with `IInv` and `NothingYet`). Nothing is asked of the
    notes: what one phoneme loses the next one gets, negative or not.
  - `LengthsAligned`. Phonemes and lengths come from two loops. `Rank` gives each phoneme
    its place; `InOrder` says that both sequences go up by rank and which phonemes they
    contain. Two ascending sequences of the same elements are equal (`SameElements`).
- `TtsFeatures_proofs`, speech
  - `PredictionsStay`, for texts of any length. The core sees flat arrays; the properties
    speak of slots, the moras and pauses of phrases. `FlatShape` and `Places` say where a
    slot lies in the flat sequence, `PhonemePlaces` where its sounds lie, and
    `WriteBackKeeps` that flattening what was written back gives what was written: moras go
    back to where they came from. `MarksAre` does the same for the four arrays of accents.
    The invariant `SpeechInv` says what the phrases hold between the steps.
  - `SilenceStays`: whispered moras stay without pitch, because a question only rises
    where it already has one; and phoneme `i` is of mora `i` exactly as long as no mora
    before has a consonant (`PitchesInStep`).
  - `FeaturesStay`: all of `FeaturesRight`. The intonation keeps the sum of the pitches
    only if the mean is exact; the code divides floats, the model whole numbers, hence the
    hypothesis `MeanExact`, which holds in every state of the run.
- `TtsFeatures_proofs`, waves
  - `MonoIsConnected`: waves of one channel, any number of them and of any length, are
    joined without loss and without a write behind the result. `Located` says where the one
    write position stands at each place of the three loops: behind all waves before this
    one (`Start`) and as many samples as this one has given. `Joining` says that up to
    there the result is the beginning of the whole. That a wave has a channel, and
    channels of one length, is what `AudioFile` loads (`WaveAssumption`).
- `NjdRules_proofs`, the list
  - `ListIsSound`: `NothingDangles`, `DirectionsAgree` and `SweepLeavesNone` are one induction
    (`ListInvariant`): that no pointer dangles needs the order of the words, because
    only the neighbours of a node point to it. `OneRemoval` shows that the four
    branches of `NJD_remove_node` do one thing; after it, `RemovedLinks` closes the
    order over the gap. `Blank` says that a fresh node has no links, which is what
    `NJD_push_node` relies on when the list is empty.
  - `ListIsSequence`: the refinement of `WordSequence`. A path along `next` is the
    sequence of the words in their order, so each edit of pointers is the edit of a
    sequence that its name says.
- `NjdRules_proofs`, digits
  - `DigitsAreSound` (`DigitsTypeCorrect`, `UnitsStayInside`): in a number of any length
    anywhere in a text, no unit is looked up outside the tables and none is put behind the
    last word, where `NJDNode_insert` would end the process. The invariant counts: what is
    left of the piece from the current digit on is exactly `4 * place + digitIndex + 1`
    digits.
  - `NumbersAreRead`: all of `NumbersRead`, for texts of any length. `NumberInv` says of a
    half-done number (`HalfSaid`) that the digits not yet read are still the last of its
    digits, and that the words before them say what the first ones are worth, counted at
    the place where the rule stands (`SaysWorth`, `Standing`): a digit put there, a unit
    behind it and a myriad unit behind four each keep that equation (`TensSay`,
    `OnesSay`). That a digit 1 before a unit is left unsaid, and a 0 with its unit, is why
    the equation is about what is understood and not about the words. Of the whole text it says
    that the digits read so far and those of the words not read yet are the digits of the
    text (`AllAccounted`). Up to a period only digits and commas stand (`OnlyCommas`), and
    the commas are gone before the number is said. TLC has checked `NumberInv` on the states
    of `njd_rules`.
- `NjdRules_proofs`, accents
  - `AccentsAreSound`: all of `AccentsSound`, for texts of any length and whatever rules of
    words and numerals meet. Its hypothesis `WordsFit` is what the rules take for granted
    of the dictionary and check nowhere: an accent, and what a rule adds to one, stays
    within the word, and a word that arrives with its chain set is not chained to a
    symbol. TLC evaluates it for the texts of the run (`AccentTextsFit`). The invariant
    (`AccentInv`) has one clause for the phrase being walked over, whose counter is the
    sum of the words so far and whose accent is at most that (`Reaches`), and one for
    the phrases behind it, which no later step touches (`SettledBefore`): a digit does set
    the accent of the word before it, but within that word (`DigitFits`). Of the 18
    rules on phrases the proof needs that the last that applies decides (`VerdictGiven`).
- `NjdRules_proofs`, vowels
  - `WindowStaysInStep` and `VowelsAreRight`: all of `WindowInStep` and `VowelsRight`, for
    texts of any length. `VowelAssumption` says that no word is silent (those are removed
    before) and that a mark stands behind a mora. The invariant (`VowelsInv`) follows the
    running mora (`Here`, its place among all moras of the text): each entry of the window
    stands for the mora at its place, and one is missing only if the text ends or has no
    mora before it (`Seen`); every flag in the window has a reason, a mark, a polite
    ending or rule 2 (`FlagsGiven`); the moras behind the window are as the rules ask
    (`WellVoiced`). What makes it inductive is that rule 2, which unvoices the second
    entry, voices the third at once (`ByRule2`): otherwise the next step could find two.
- `ModelSwap_proofs`
  - `LockIsSound` (`LockTypeCorrect`, `LockExcludes`) and `LockImplements`, for any finite sets of readers
    and writers. The invariant says that `l_` is twice the readers that have counted
    themselves, plus one if there is a writer, and `write_pending_` the writers that
    have announced themselves: a writer that finds zero is therefore alone. The sums are part of `LockSound`
    (`WordsCount`), since a word that miscounts is what would let two in, or nobody ever.
  - `SwapUsesLock`: parsers and swaps move the lock by its own steps only, so
    `SwapLockSound` and `SwapImplements` carry over.
  - `SwapKeepsModels`: no text is analysed with a deleted Viterbi, and the one in use never
    is deleted: a swap that has the lock knows that nobody reads, and what it deletes is
    not the one it has just put in place.
- `MecabLattice_proofs`
  - `LatticeIsSound` (`LatticeTypeCorrect` and `CheapestKept`), for any dictionary, character table and
    sentence. A node looked up at `pos` ends behind `pos` (`LookupForward`), and every
    node so far starts before `pos` (`Forward`): nothing is added to the left of a node
    that is connected already, so its cheapest way stays the cheapest. That a first of
    the cheapest exists (`FirstExists`) is by well-founded induction on finite sets.
  - `NothingIsUnread`: the parts of a reading meet, blanks apart. Its hypothesis
    `BlanksAlone` says that the class of the blank is compatible with no other character:
    `seekToOtherType` (`char_property.h:40`) passes over what is compatible, and a table
    that calls a letter a blank would lose that letter. The default table is
    `0x0020 SPACE` alone (`common.h:114`).
  - `ReadingsComeInOrder`: an A* search gives the paths by cost. What is on the queue
    covers all readings not given yet (`OrderedInv`), and what a node has cost so far is
    exactly the cheapest way to it, so no element of the queue promises too little or
    too much.
- `TextFrontEnd_proofs`
  - `KanaIsSound`: all of `KanaSound`, for any kana and moras and phrases of any length.
    A notation is pieces laid end to end, each ending in its delimiter, so it is cut where
    it was joined (`CutThere`), and a piece is the text of its phrase and its signs
    (`PieceReads`). Reading is an induction (`KanaInv`): each mora stands in the input where
    the one before it let reading go on (`GoesOn`), its bytes further and not its characters. That the bytes of a mora are at least its
    characters (`KeysWritten`) keeps `outer_loop` behind `base_index`, hence no false alarm:
    the guard stops only what is longer than the limit. Its assumption `KanaAssumption` puts
    the accent of a phrase to be written on one of its moras.
  - `LabelsStayNested`: the five lists of JPCommon, for utterances of any length. Heads and
    tails of one list divide the list below it without gap or overlap; only the last
    element of each list may be open (`LabelsInv`). From that follows that no walk from a
    head to a tail leaves its list.
  - `UtteranceImplemented`: the refinement of `Utterance`, for texts of any length and any
    words, unknown characters and marks in every place included. `LabelsInv` alone does not
    say what the lists say, so the invariant (`UtteranceInv`) adds that moras follow one
    another with at most a pause between them (`Follow`), that a pause stands only before
    the first mora of a word (`PausesAtHeads`), that none is due inside a word, and that the
    moras of the word being pushed are what was heard of it so far (`WordHeard`): at the end
    they are one of the `Sayings`. A word that is being pushed is not part of the utterance
    yet, so its moras and the pause before it are steps that change nothing; the step that
    joins it (`SaysFirstWord`, `SaysChainWord`, `SaysNewPhrase`, `SaysNewGroup`) is a
    `Word` of the utterance, a mark of length before its first mora a `Prolong`, a question
    a `Question`. That the pause before a chained word ends up inside the phrase, and not
    behind it, is `PhraseLonger`. TLC has checked `UtteranceInv` on all states of
    `text_front_end`.

### Only model-checked

Liveness (`EveryRequestAnswered`, `RuleEnds`, `CallsEnd`,
`ThreadsGoOn`), because ENABLED is out of the prover's reach. `PhrasesSpoken` has no proof:
it compares the phrases cut from the labels with the lists the labels were made of, and
takes an invariant for every half-done text. No theorem takes a value of a recursive
definition for granted: `Sum`, `Total`, `Sizes`, `FlattenSeq` and what `NumbersRead` says of
a list (`HeardUpTo`, `WorthUpTo`, `DigitsUpTo`) are reached through the functions they are
defined by, with an induction of `LeastElements`.

## 6. Not modelled

- json.hpp, base64, HTTP parsing: vendored; only the use of httplib and AudioFile that
  the handlers rely on is modelled. `ucstable.h` and the table of moras are data.
- MeCab beyond section 3: the files of a dictionary and the double array in them,
  partial parsing, marginal probabilities, training (the learner is never run by the
  engine), the writing and rewriting of features.
- Of the rules on words: the voiced readings of counters, the lookups of
  `njd_set_pronunciation`, the accents of single particles by name. `njd_set_long_vowel`
  is compiled away.
- The numbers a core computes, samples and rounding of floats: no property here tells
  them apart.
- The ranking of library names in a directory (`get_suitable_core_name`): one
  outcome per directory.
- GPU, mock and an explicit VOICEVOX directory: `main` never passes them.
- `character.cc`: reads tables that never change after startup, and has no state.
- Conversion from and to JSON: copying of fields, modelled where a missing one matters.
- Memory: each request for text builds an Open_JTalk and clears nothing
  (`open_jtalk.cc:62`); leaks are no state of these models.
- Header-only parts: there is no code.
