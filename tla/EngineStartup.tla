---------------------------- MODULE EngineStartup ----------------------------
(***************************************************************************)
(* From main to the first lookup of an engine: initialize_cores tries the   *)
(* directories one after the other, CoreManager keeps the cores by version, *)
(* make_tts_engines_from_cores turns them into engines, and the handlers    *)
(* look engines up.  Single threaded up to serving; what makes it hard is   *)
(* what the directories may hold and which exceptions leave load_core.      *)
(***************************************************************************)
EXTENDS VersionOrder

CONSTANTS
  Versions,       \* version strings a core may report
  MockVersion,    \* "0.0.0"
  VoicelibDirs,   \* the directories initialize_cores is told to load, in order
  CoreLibraries,  \* get_save_dir()/"core_libraries"
  UserFiles,      \* regular files that may lie in it
  Age,            \* per version, its place in the order of release
  NoEngine, NoAnswer

\* "core": a library that loads and reports its version;
\* "nodevices": the same, but its supported_devices are not the expected JSON;
\* "nometas": its metas are not; "unloadable": dlopen refuses it;
\* "old": a core from before 0.12; "absent": no core at all.
Kinds == {"core", "nodevices", "nometas", "unloadable", "old", "absent"}

Dirs == {VoicelibDirs[i] : i \in 1..Len(VoicelibDirs)} \cup {CoreLibraries}
Paths == Dirs \cup UserFiles

ASSUME StartupAssumption ==
  /\ IsFiniteSet(UserFiles) /\ UserFiles \cap Dirs = {}
  /\ VoicelibDirs \in Seq(Dirs)
  /\ MockVersion \in Versions /\ Versions \subseteq Seq(Nat)
  /\ Age \in [Versions -> Nat]
  /\ {NoEngine, NoAnswer} \cap Versions = {}

VARIABLES
  content,   \* what each directory holds, fixed
  phase,     \* what main is doing
  todo,      \* directories still to load, and whether their errors are suppressed
  cores,     \* CoreManager::cores: per registered version, where it came from
  engines,   \* TTSEngineManager::engines, likewise
  thrown,    \* what the last load_core_library threw
  answer,    \* what the last get_engine found
  found      \* history: the versions that loaded and where, in order

vars == <<content, phase, todo, cores, engines, thrown, answer, found>>

Content == [kind : Kinds, version : Versions]
Entry == [path : Paths, suppress : BOOLEAN]
Errors == {"none", "std::string", "const char*", "std::exception"}
Registry == UNION {[V -> Paths] : V \in SUBSET Versions}

TypeOK ==
  /\ content \in [Dirs -> Content]
  /\ phase \in {"voicelib", "user", "serving", "terminated"}
  /\ todo \in Seq(Entry)
  /\ cores \in Registry /\ engines \in Registry
  /\ thrown \in Errors
  /\ answer \in Versions \cup {NoEngine, NoAnswer}
  /\ found \in Seq(Versions \X Paths)

-----------------------------------------------------------------------------
(* load_core_library.                                                      *)

\* Nothing is found below a regular file.
Kind(path) == IF path \in UserFiles THEN "absent" ELSE content[path].kind

\* What leaves load_core and the reading of the metas.  The message of the
\* "old" case says that no core was found.
ErrorOf(path) ==
  IF Kind(path) \in {"core", "nodevices"} THEN "none"
  ELSE IF Kind(path) \in {"unloadable", "absent"} THEN "std::string"
  ELSE IF Kind(path) = "old" THEN "const char*"
  ELSE "std::exception"

CaughtAll(entry) == entry.suppress \/ ErrorOf(entry.path) = "std::string"

\* catch (const std::string &e), rethrown unless suppressed.
Caught(entry) == entry.suppress /\ ErrorOf(entry.path) = "std::string"

RegisteredLast(reg, version, path) ==
  [v \in DOMAIN reg \cup {version} |-> IF v = version THEN path ELSE reg[v]]

\* has_core, then register_core: a version that is known already is skipped.
Registered(reg, version, path) ==
  [v \in DOMAIN reg \cup {version} |-> IF v \in DOMAIN reg THEN reg[v] ELSE path]

CoresLookedUp == [v \in {<<>>} |-> CoreLibraries]

NoCores == [v \in {} |-> CoreLibraries]

Rest(entries) == Tail(entries)

Entries(paths, suppress) ==
  [i \in 1..Len(paths) |-> [path |-> paths[i], suppress |-> suppress]]

Init ==
  /\ content \in [Dirs -> Content]
  /\ phase = "voicelib"
  /\ todo = Entries(VoicelibDirs, FALSE)
  /\ cores = NoCores /\ engines = NoCores
  /\ thrown = "none" /\ answer = NoAnswer /\ found = <<>>

Loading == phase \in {"voicelib", "user"} /\ todo # <<>>

LoadCore ==
  /\ Loading
  /\ LET path == Head(todo).path IN
       /\ ErrorOf(path) = "none"
       /\ cores' = Registered(cores, content[path].version, path)
       /\ found' = Append(found, <<content[path].version, path>>)
  /\ todo' = Rest(todo)
  /\ thrown' = "none"
  /\ UNCHANGED <<content, phase, engines, answer>>

SuppressError ==
  /\ Loading /\ ErrorOf(Head(todo).path) # "none" /\ Caught(Head(todo))
  /\ thrown' = ErrorOf(Head(todo).path)
  /\ todo' = Rest(todo)
  /\ UNCHANGED <<content, phase, cores, engines, answer, found>>

\* No handler up to main: std::terminate.
LoadError ==
  /\ Loading /\ ErrorOf(Head(todo).path) # "none" /\ ~Caught(Head(todo))
  /\ thrown' = ErrorOf(Head(todo).path)
  /\ phase' = "terminated"
  /\ UNCHANGED <<content, todo, cores, engines, answer, found>>

-----------------------------------------------------------------------------
(* The user's directory, the engines, the lookups.                         *)

Orders(S) ==
  {s \in [1..Cardinality(S) -> S] : \A i, j \in DOMAIN s : s[i] = s[j] => i = j}

\* core_libraries itself, then the regular files in it, in no given order.
ListUserDirs ==
  /\ phase = "voicelib" /\ todo = <<>>
  /\ \E files \in SUBSET UserFiles : \E order \in Orders(files) :
       todo' = Entries(<<CoreLibraries>> \o order, TRUE)
  /\ phase' = "user"
  /\ UNCHANGED <<content, cores, engines, thrown, answer, found>>

\* create_directories failed silently and directory_iterator throws.
ListingError ==
  /\ phase = "voicelib" /\ todo = <<>>
  /\ thrown' = "std::exception"
  /\ phase' = "terminated"
  /\ UNCHANGED <<content, todo, cores, engines, answer, found>>

Real == DOMAIN cores \ {MockVersion}

MakeEngines ==
  /\ phase = "user" /\ todo = <<>>
  /\ \/ /\ \E v \in Real : Kind(cores[v]) = "nodevices"
        /\ phase' = "terminated" /\ thrown' = "std::exception"
        /\ UNCHANGED engines
     \/ /\ \A v \in Real : Kind(cores[v]) # "nodevices"
        /\ engines' = [v \in Real |-> cores[v]]
        /\ phase' = "serving"
        /\ UNCHANGED thrown
  /\ UNCHANGED <<content, todo, cores, answer, found>>

\* std::map::at throws for a version nobody registered.
GetEngine(v) ==
  /\ phase = "serving"
  /\ answer' = IF v \in DOMAIN engines THEN v ELSE NoEngine
  /\ UNCHANGED <<content, phase, todo, cores, engines, thrown, found>>

\* Without engines the latest version is the empty string.
GetLatestEngine ==
  /\ phase = "serving"
  /\ answer' \in IF DOMAIN engines = {} THEN {NoEngine} ELSE LatestOf(DOMAIN engines)
  /\ UNCHANGED <<content, phase, todo, cores, engines, thrown, found>>

Load == LoadCore \/ SuppressError \/ LoadError

Startup == Load \/ ListUserDirs \/ ListingError \/ MakeEngines

Next == Startup \/ GetLatestEngine \/ \E v \in Versions : GetEngine(v)

Spec == Init /\ [][Next]_vars

-----------------------------------------------------------------------------
(* The first library that reports a version keeps it, so a library of the  *)
(* user never takes the place of one the program came with.                *)
FirstWins ==
  /\ DOMAIN cores = {found[i][1] : i \in 1..Len(found)}
  /\ \A i \in 1..Len(found) :
       (\A j \in 1..(i - 1) : found[j][1] # found[i][1]) =>
         cores[found[i][1]] = found[i][2]

\* The server only starts when every directory it was told to load gave a core,
\* and its version, mock apart, has an engine: errors are suppressed for
\* the directory of the user alone.
VoicelibsServed ==
  phase = "serving" =>
    \A i \in 1..Len(VoicelibDirs) :
      LET c == content[VoicelibDirs[i]] IN
      /\ c.kind \in {"core", "nodevices"}
      /\ c.version = MockVersion \/ c.version \in DOMAIN engines

\* Where every version has a dot, as released versions do, get_engine() can
\* only mean one engine: two starts over the same libraries serve the same one.
Dotted(v) == \E i \in 1..Len(v) : v[i] = Dot

DefaultUnique ==
  phase = "serving" /\ DOMAIN engines # {} /\ (\A v \in DOMAIN engines : Dotted(v)) =>
    Cardinality(LatestOf(DOMAIN engines)) = 1

\* get_engine() is declared to return the latest engine.
LatestIsNewest ==
  [][GetLatestEngine => \A v \in DOMAIN engines : Age[v] <= Age[answer']]_vars
===============================================================================
