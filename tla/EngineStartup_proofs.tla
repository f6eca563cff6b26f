------------------------- MODULE EngineStartup_proofs -------------------------
(***************************************************************************)
(* Proofs about EngineStartup: types, who owns a version, and which engine  *)
(* the default one is.                                                     *)
(***************************************************************************)
EXTENDS EngineStartup, LeastElements, FiniteSetTheorems, SequenceTheorems, TLAPS

LEMMA EntriesType ==
  ASSUME NEW paths \in Seq(Paths), NEW suppress \in BOOLEAN
  PROVE  /\ Entries(paths, suppress) \in Seq(Entry)
         /\ Len(Entries(paths, suppress)) = Len(paths)
         /\ \A i \in 1..Len(paths) :
              Entries(paths, suppress)[i] = [path |-> paths[i], suppress |-> suppress]
<1>1. Entries(paths, suppress) \in [1..Len(paths) -> Entry]
  BY DEF Entries, Entry
<1>2. QED
  BY <1>1 DEF Entries

LEMMA OrdersType ==
  ASSUME NEW S \in SUBSET UserFiles, NEW order \in Orders(S)
  PROVE  order \in Seq(Paths)
<1>1. Cardinality(S) \in Nat
  BY StartupAssumption, FS_Subset, FS_CardinalityType
<1>2. order \in [1..Cardinality(S) -> Paths]
  BY DEF Orders, Paths
<1>3. QED
  BY <1>1, <1>2

LEMMA RegistryType ==
  ASSUME NEW f
  PROVE  f \in Registry <=> /\ DOMAIN f \subseteq Versions
                            /\ f \in [DOMAIN f -> Paths]
BY DEF Registry

LEMMA RegisteredType ==
  ASSUME NEW reg \in Registry, NEW v \in Versions, NEW p \in Paths
  PROVE  /\ Registered(reg, v, p) \in Registry
         /\ DOMAIN Registered(reg, v, p) = DOMAIN reg \cup {v}
         /\ \A u \in DOMAIN reg : Registered(reg, v, p)[u] = reg[u]
         /\ v \notin DOMAIN reg => Registered(reg, v, p)[v] = p
<1>1. DOMAIN reg \subseteq Versions /\ \A u \in DOMAIN reg : reg[u] \in Paths
  BY RegistryType
<1>2. Registered(reg, v, p) \in [DOMAIN reg \cup {v} -> Paths]
  BY <1>1 DEF Registered
<1>3. Registered(reg, v, p) \in Registry
  BY <1>1, <1>2 DEF Registry
<1>4. QED
  BY <1>1, <1>3 DEF Registered

\* A directory that loads without an error is no plain file.
LEMMA LoadsFromDir ==
  ASSUME NEW p \in Paths, ErrorOf(p) = "none"
  PROVE  p \in Dirs
BY DEF ErrorOf, Kind, Paths

TypeInv == TypeOK /\ (phase = "serving" => todo = <<>>)

LEMMA TypeInit == Init => TypeInv
<1> SUFFICES ASSUME Init PROVE TypeInv
  OBVIOUS
<1>1. VoicelibDirs \in Seq(Paths)
  BY StartupAssumption DEF Paths
<1>2. todo \in Seq(Entry)
  BY <1>1, EntriesType DEF Init
<1>3. NoCores \in Registry
  <2>1. NoCores \in [{} -> Paths]
    BY DEF NoCores
  <2>2. QED
    BY <2>1 DEF Registry
<1>4. cores \in Registry /\ engines \in Registry
  BY <1>3 DEF Init
<1>5. found \in Seq(Versions \X Paths)
  BY DEF Init
<1>6. TypeOK
  BY <1>2, <1>4, <1>5 DEF Init, TypeOK, Errors
<1>7. QED
  BY <1>6 DEF Init, TypeInv

LEMMA TypeNext == TypeInv /\ [Next]_vars => TypeInv'
<1> SUFFICES ASSUME TypeInv, [Next]_vars PROVE TypeInv'
  OBVIOUS
<1>1. TypeOK
  BY DEF TypeInv
<1>2. ASSUME Loading
      PROVE  /\ Head(todo) \in Entry /\ Tail(todo) \in Seq(Entry)
             /\ Head(todo).path \in Paths /\ ErrorOf(Head(todo).path) \in Errors
  <2>1. Head(todo) \in Entry /\ Tail(todo) \in Seq(Entry)
    BY <1>1, <1>2 DEF Loading, TypeOK
  <2>2. Head(todo).path \in Paths
    BY <2>1 DEF Entry
  <2>3. QED
    BY <2>1, <2>2 DEF ErrorOf, Errors
<1>3. CASE LoadCore
  <2> DEFINE path == Head(todo).path
  <2>1. path \in Dirs /\ path \in Paths
    BY <1>2, <1>3, LoadsFromDir DEF LoadCore
  <2>2. content[path].version \in Versions
    BY <1>1, <2>1 DEF TypeOK, Content
  <2>3. cores' \in Registry
    BY <1>1, <1>3, <2>1, <2>2, RegisteredType DEF LoadCore, TypeOK
  <2>4. found' \in Seq(Versions \X Paths)
    BY <1>1, <1>3, <2>1, <2>2 DEF LoadCore, TypeOK
  <2>5. QED
    BY <1>1, <1>2, <1>3, <2>3, <2>4 DEF LoadCore, Loading, Rest, TypeInv, TypeOK, Errors
<1>4. CASE SuppressError \/ LoadError
  BY <1>1, <1>2, <1>4 DEF SuppressError, LoadError, Loading, Rest, TypeInv, TypeOK
<1>5. CASE ListUserDirs
  <2>1. PICK files \in SUBSET UserFiles : \E order \in Orders(files) :
          todo' = Entries(<<CoreLibraries>> \o order, TRUE)
    BY <1>5 DEF ListUserDirs
  <2>2. PICK order \in Orders(files) : todo' = Entries(<<CoreLibraries>> \o order, TRUE)
    BY <2>1
  <2>3. order \in Seq(Paths) /\ <<CoreLibraries>> \in Seq(Paths)
    BY OrdersType DEF Paths, Dirs
  <2>4. <<CoreLibraries>> \o order \in Seq(Paths)
    BY <2>3
  <2>5. todo' \in Seq(Entry)
    BY <2>2, <2>4, EntriesType
  <2>6. QED
    BY <1>1, <1>5, <2>5 DEF ListUserDirs, TypeInv, TypeOK
<1>6. CASE ListingError
  BY <1>1, <1>6 DEF ListingError, TypeInv, TypeOK, Errors
<1>7. CASE MakeEngines
  <2>1. [v \in Real |-> cores[v]] \in Registry
    <3>1. DOMAIN cores \subseteq Versions /\ cores \in [DOMAIN cores -> Paths]
      BY <1>1, RegistryType DEF TypeOK
    <3>2. [v \in Real |-> cores[v]] \in [Real -> Paths] /\ Real \subseteq Versions
      BY <3>1 DEF Real
    <3>3. QED
      BY <3>2 DEF Registry
  <2>2. QED
    BY <1>1, <1>7, <2>1 DEF MakeEngines, TypeInv, TypeOK, Errors
<1>8. CASE GetLatestEngine
  <2>1. DOMAIN engines \subseteq Versions
    BY <1>1, RegistryType DEF TypeOK
  <2>2. answer' \in Versions \cup {NoEngine}
    BY <1>8, <2>1 DEF GetLatestEngine, LatestOf
  <2>3. QED
    BY <1>1, <1>8, <2>2 DEF GetLatestEngine, TypeInv, TypeOK
<1>9. ASSUME NEW v \in Versions, GetEngine(v) PROVE TypeInv'
  BY <1>1, <1>9 DEF GetEngine, TypeInv, TypeOK
<1>10. CASE UNCHANGED vars
  BY <1>10 DEF vars, TypeInv, TypeOK
<1>11. QED
  BY <1>3, <1>4, <1>5, <1>6, <1>7, <1>8, <1>9, <1>10 DEF Next, Startup, Load

(***************************************************************************)
(* Every variable keeps its type: in particular the registries only map    *)
(* versions to places that were searched.                                  *)
(***************************************************************************)
THEOREM StartupTypeCorrect == Spec => []TypeOK
<1>1. TypeInv => TypeOK
  BY DEF TypeInv
<1>2. QED
  BY TypeInit, TypeNext, <1>1, PTL DEF Spec

-----------------------------------------------------------------------------
(* Who owns a version.                                                     *)

OwnerInv == TypeInv /\ FirstWins

\* What a load that succeeds does.
LEMMA LoadCoreFacts ==
  ASSUME TypeInv, LoadCore
  PROVE  LET path == Head(todo).path  v == content[path].version IN
         /\ path \in Dirs /\ v \in Versions /\ cores \in Registry
         /\ cores' = Registered(cores, v, path)
         /\ found' = Append(found, <<v, path>>) /\ found \in Seq(Versions \X Paths)
         /\ ErrorOf(path) = "none"
<1>1. TypeOK
  BY DEF TypeInv
<1>2. Head(todo) \in Entry
  BY <1>1 DEF LoadCore, Loading, TypeOK
<1>3. Head(todo).path \in Dirs
  BY <1>2, LoadsFromDir DEF LoadCore, Entry
<1>4. QED
  BY <1>1, <1>3 DEF LoadCore, TypeOK, Content

LEMMA OwnerLoad ==
  ASSUME OwnerInv, LoadCore
  PROVE  FirstWins'
<1> DEFINE path == Head(todo).path
           v == content[path].version
           n == Len(found)
<1>1. /\ path \in Paths /\ v \in Versions /\ cores \in Registry
      /\ cores' = Registered(cores, v, path)
      /\ found' = Append(found, <<v, path>>) /\ found \in Seq(Versions \X Paths)
  BY LoadCoreFacts DEF OwnerInv, Paths
<1> HIDE DEF path, v
<1>2. /\ DOMAIN cores' = DOMAIN cores \cup {v}
      /\ \A u \in DOMAIN cores : cores'[u] = cores[u]
      /\ v \notin DOMAIN cores => cores'[v] = path
  <2>1. DOMAIN Registered(cores, v, path) = DOMAIN cores \cup {v}
    BY <1>1, RegisteredType
  <2>2. \A u \in DOMAIN cores : Registered(cores, v, path)[u] = cores[u]
    BY <1>1, RegisteredType
  <2>3. v \notin DOMAIN cores => Registered(cores, v, path)[v] = path
    BY <1>1, RegisteredType
  <2>4. QED
    BY <1>1, <2>1, <2>2, <2>3
<1>3. /\ n \in Nat /\ Len(found') = n + 1 /\ found'[n + 1] = <<v, path>>
      /\ \A i \in 1..n : found'[i] = found[i]
  BY <1>1
<1>4. FirstWins
  BY DEF OwnerInv
<1>5. DOMAIN cores' = {found'[i][1] : i \in 1..Len(found')}
  <2>1. DOMAIN cores = {found[i][1] : i \in 1..n}
    BY <1>4 DEF FirstWins
  <2>2. {found'[i][1] : i \in 1..Len(found')} = {found[i][1] : i \in 1..n} \cup {v}
    BY <1>3
  <2>3. QED
    BY <1>2, <2>1, <2>2
<1>6. ASSUME NEW i \in 1..Len(found'),
             \A j \in 1..(i - 1) : found'[j][1] # found'[i][1]
      PROVE  cores'[found'[i][1]] = found'[i][2]
  <2>1. CASE i \in 1..n
    <3>1. \A j \in 1..(i - 1) : found[j][1] # found[i][1]
      BY <1>3, <1>6, <2>1
    <3>2. cores[found[i][1]] = found[i][2] /\ found[i][1] \in DOMAIN cores
      BY <1>4, <2>1, <3>1 DEF FirstWins
    <3>3. QED
      BY <1>2, <1>3, <2>1, <3>2
  <2>2. CASE i = n + 1
    <3>1. \A j \in 1..n : found[j][1] # v
      BY <1>3, <1>6, <2>2
    <3>2. v \notin DOMAIN cores
      BY <1>4, <3>1 DEF FirstWins
    <3>3. QED
      BY <1>2, <1>3, <2>2, <3>2
  <2>3. QED
    BY <1>3, <2>1, <2>2
<1>7. QED
  BY <1>5, <1>6 DEF FirstWins

LEMMA OwnerNext == OwnerInv /\ [Next]_vars => OwnerInv'
<1> SUFFICES ASSUME OwnerInv, [Next]_vars PROVE FirstWins'
  BY TypeNext DEF OwnerInv
<1>1. CASE LoadCore
  BY <1>1, OwnerLoad
<1>2. CASE ~LoadCore
  <2>1. UNCHANGED <<cores, found>>
    BY <1>2 DEF Next, Startup, Load, SuppressError, LoadError, ListUserDirs, ListingError,
       MakeEngines, GetLatestEngine, GetEngine, vars
  <2>2. QED
    BY <2>1 DEF OwnerInv, FirstWins
<1>3. QED
  BY <1>1, <1>2

LEMMA OwnerInit == Init => OwnerInv
<1> SUFFICES ASSUME Init PROVE FirstWins
  BY TypeInit DEF OwnerInv
<1>1. DOMAIN cores = {} /\ Len(found) = 0
  BY DEF Init, NoCores
<1>2. QED
  BY <1>1 DEF FirstWins

(***************************************************************************)
(* A version belongs to the first library that reported it, whatever the   *)
(* directories hold: no library of the user replaces one that was loaded    *)
(* before.                                                                 *)
(***************************************************************************)
THEOREM FirstLibraryWins == Spec => []FirstWins
<1>1. OwnerInv => FirstWins
  BY DEF OwnerInv
<1>2. QED
  BY OwnerInit, OwnerNext, <1>1, PTL DEF Spec

-----------------------------------------------------------------------------
(* Serving needs every voicelib directory.                                 *)

\* The i-th directory gave a core.
Gave(i) ==
  /\ content[VoicelibDirs[i]].kind \in {"core", "nodevices"}
  /\ content[VoicelibDirs[i]].version \in DOMAIN cores

Rank(i) == Len(VoicelibDirs) - Len(todo) + i

\* What is still to load are the last voicelib directories, not suppressed;
\* the ones before them gave a core.
Progress ==
  /\ phase = "voicelib" =>
       /\ Len(todo) <= Len(VoicelibDirs)
       /\ \A i \in 1..Len(todo) :
            todo[i] = [path |-> VoicelibDirs[Rank(i)], suppress |-> FALSE]
       /\ \A i \in 1..Rank(0) : Gave(i)
  /\ phase \in {"user", "serving"} => \A i \in 1..Len(VoicelibDirs) : Gave(i)
  /\ phase = "serving" => DOMAIN engines = DOMAIN cores \ {MockVersion}

ServedInv == TypeInv /\ Progress

LEMMA DirOfVoicelib ==
  ASSUME NEW i \in 1..Len(VoicelibDirs)
  PROVE  VoicelibDirs[i] \in Dirs /\ VoicelibDirs[i] \notin UserFiles
BY StartupAssumption

LEMMA ServedLoad ==
  ASSUME ServedInv, LoadCore
  PROVE  Progress'
<1> DEFINE path == Head(todo).path
           v == content[path].version
<1>1. /\ path \in Dirs /\ v \in Versions /\ cores \in Registry
      /\ cores' = Registered(cores, v, path) /\ ErrorOf(path) = "none"
  BY LoadCoreFacts DEF ServedInv
<1>2. DOMAIN cores' = DOMAIN cores \cup {v}
  <2> HIDE DEF path, v
  <2>1. path \in Paths
    BY <1>1 DEF Paths
  <2>2. DOMAIN Registered(cores, v, path) = DOMAIN cores \cup {v}
    BY <1>1, <2>1, RegisteredType
  <2>3. QED
    BY <1>1, <2>2
<1>3. /\ UNCHANGED <<content, phase>> /\ phase \in {"voicelib", "user"}
      /\ todo' = Tail(todo) /\ todo \in Seq(Entry) /\ todo # <<>>
  BY DEF LoadCore, Loading, Rest, ServedInv, TypeInv, TypeOK
<1>4. \A i \in 1..Len(VoicelibDirs) : Gave(i) => Gave(i)'
  BY <1>2, <1>3 DEF Gave
<1>5. CASE phase = "voicelib"
  <2>1. /\ Len(todo) \in Nat /\ Len(todo) >= 1 /\ Len(VoicelibDirs) \in Nat
        /\ Len(todo') = Len(todo) - 1
        /\ \A i \in 1..Len(todo') : todo'[i] = todo[i + 1]
        /\ Head(todo) = todo[1]
    BY <1>3, StartupAssumption
  <2>2. /\ Len(todo) <= Len(VoicelibDirs)
        /\ \A i \in 1..Len(todo) :
             todo[i] = [path |-> VoicelibDirs[Rank(i)], suppress |-> FALSE]
        /\ \A i \in 1..Rank(0) : Gave(i)
    BY <1>5 DEF ServedInv, Progress
  <2>k. PICK k \in 1..Len(VoicelibDirs) : k = Rank(1)
    BY <2>1, <2>2 DEF Rank
  <2>3. /\ Rank(0) = k - 1 /\ Rank(0)' = k
        /\ \A i \in 1..Len(todo') : Rank(i)' = Rank(i + 1)
    BY <2>1, <2>2, <2>k DEF Rank
  <2>4. path = VoicelibDirs[k]
    <3>1. todo[1] = [path |-> VoicelibDirs[k], suppress |-> FALSE]
      BY <2>1, <2>2, <2>k
    <3>2. QED
      BY <2>1, <3>1
  <2>5. Gave(k)'
    <3>1. content[VoicelibDirs[k]].kind \in {"core", "nodevices"}
      <4>1. Kind(path) = content[path].kind
        BY <2>4, DirOfVoicelib DEF Kind
      <4>2. Kind(path) \in {"core", "nodevices"}
        BY <1>1 DEF ErrorOf
      <4>3. QED
        BY <2>4, <4>1, <4>2
    <3>2. QED
      BY <1>2, <1>3, <2>4, <3>1 DEF Gave
  <2>6. \A i \in 1..Rank(0)' : Gave(i)'
    <3>1. \A i \in 1..k : i \in 1..Len(VoicelibDirs) /\ (i \in 1..Rank(0) \/ i = k)
      BY <2>1, <2>3
    <3>2. \A i \in 1..k : Gave(i)'
      BY <1>4, <2>2, <2>5, <3>1
    <3>3. QED
      BY <2>3, <3>2
  <2>7. \A i \in 1..Len(todo') :
          todo'[i] = [path |-> VoicelibDirs[Rank(i)'], suppress |-> FALSE]
    BY <2>1, <2>2, <2>3, SMTT(30)
  <2>8. QED
    BY <1>3, <1>5, <2>1, <2>2, <2>6, <2>7 DEF Progress, Rank
<1>6. CASE phase = "user"
  BY <1>3, <1>4, <1>6 DEF ServedInv, Progress
<1>7. QED
  BY <1>3, <1>5, <1>6

LEMMA ServedNext == ServedInv /\ [Next]_vars => ServedInv'
<1> SUFFICES ASSUME ServedInv, [Next]_vars PROVE Progress'
  BY TypeNext DEF ServedInv
<1>1. TypeOK /\ Progress /\ (phase = "serving" => todo = <<>>)
  BY DEF ServedInv, TypeInv
<1>2. CASE LoadCore
  BY <1>2, ServedLoad
<1>3. CASE SuppressError
  \* Only a suppressed entry gets here, and the voicelibs are not.
  <2>1. /\ UNCHANGED <<content, phase, cores>> /\ phase \in {"voicelib", "user"}
        /\ todo # <<>> /\ Head(todo).suppress = TRUE
    BY <1>1, <1>3 DEF SuppressError, Loading, Caught, TypeOK, Entry
  <2>2. Head(todo) = todo[1] /\ 1 \in 1..Len(todo)
    BY <1>1, <2>1 DEF TypeOK
  <2>3. ASSUME phase = "voicelib" PROVE FALSE
    <3>1. todo[1] = [path |-> VoicelibDirs[Rank(1)], suppress |-> FALSE]
      BY <1>1, <2>2, <2>3 DEF Progress
    <3>2. QED
      BY <2>1, <2>2, <3>1
  <2>4. QED
    BY <1>1, <2>1, <2>3 DEF Progress, Gave
<1>4. CASE LoadError \/ ListingError
  <2>1. phase' = "terminated"
    BY <1>4 DEF LoadError, ListingError
  <2>2. QED
    BY <2>1 DEF Progress
<1>5. CASE ListUserDirs
  <2>1. /\ phase = "voicelib" /\ todo = <<>> /\ phase' = "user"
        /\ UNCHANGED <<content, cores>>
    BY <1>5 DEF ListUserDirs
  <2>2. Rank(0) = Len(VoicelibDirs)
    BY <2>1, StartupAssumption DEF Rank
  <2>3. QED
    BY <1>1, <2>1, <2>2 DEF Progress, Gave
<1>6. CASE MakeEngines
  BY <1>1, <1>6 DEF MakeEngines, Real, Progress, Gave
<1>7. CASE GetLatestEngine \/ (\E v \in Versions : GetEngine(v)) \/ UNCHANGED vars
  BY <1>1, <1>7 DEF GetLatestEngine, GetEngine, vars, Progress, Gave, Rank
<1>8. QED
  BY <1>2, <1>3, <1>4, <1>5, <1>6, <1>7 DEF Next, Startup, Load

LEMMA ServedInit == Init => ServedInv
<1> SUFFICES ASSUME Init PROVE Progress
  BY TypeInit DEF ServedInv
<1>1. /\ phase = "voicelib" /\ Len(todo) = Len(VoicelibDirs)
      /\ \A i \in 1..Len(VoicelibDirs) :
           todo[i] = [path |-> VoicelibDirs[i], suppress |-> FALSE]
  <2>1. VoicelibDirs \in Seq(Paths)
    BY StartupAssumption DEF Paths
  <2>2. QED
    BY <2>1, EntriesType DEF Init
<1>2. Len(VoicelibDirs) \in Nat
  BY StartupAssumption
<1>3. \A i \in 1..Len(todo) : Rank(i) = i
  BY <1>1, <1>2 DEF Rank
<1>4. Rank(0) = 0
  BY <1>1, <1>2 DEF Rank
<1>5. QED
  BY <1>1, <1>2, <1>3, <1>4 DEF Progress

(***************************************************************************)
(* The server never starts with a voicelib directory missing: only errors  *)
(* of the user's directory are suppressed.                                 *)
(***************************************************************************)
THEOREM VoicelibsAreServed == Spec => []VoicelibsServed
<1>1. ServedInv => VoicelibsServed
  BY DEF ServedInv, Progress, Gave, VoicelibsServed
<1>2. QED
  BY ServedInit, ServedNext, <1>1, PTL DEF Spec

-----------------------------------------------------------------------------
(* The order of the strings with a dot.                                    *)

\* How many characters two strings share.
Shares(a, b, k) ==
  /\ k \in Nat /\ k <= Len(a) /\ k <= Len(b)
  /\ \A i \in 1..k : a[i] = b[i]
  /\ k = Len(a) \/ k = Len(b) \/ a[k + 1] # b[k + 1]

LEMMA SharedExists ==
  ASSUME NEW a \in Seq(Nat), NEW b \in Seq(Nat)
  PROVE  \E k \in Nat : Shares(a, b, k)
<1> DEFINE S == {k \in Nat : /\ k <= Len(a) /\ k <= Len(b)
                             /\ k = Len(a) \/ k = Len(b) \/ a[k + 1] # b[k + 1]}
<1>1. S # {}
  <2>1. CASE Len(a) <= Len(b)
    <3>1. Len(a) \in S
      BY <2>1
    <3> QED BY <3>1
  <2>2. CASE Len(b) <= Len(a)
    <3>1. Len(b) \in S
      BY <2>2
    <3> QED BY <3>1
  <2> QED BY <2>1, <2>2
<1>2. PICK k \in S : \A o \in S : k <= o
  <2>1. S \in SUBSET Nat
    OBVIOUS
  <2> HIDE DEF S
  <2> QED BY <1>1, <2>1, LeastElement
<1>2a. \A j \in Nat : j < k => j \notin S
  <2>1. S \in SUBSET Nat
    OBVIOUS
  <2> HIDE DEF S
  <2> QED BY <1>2, <2>1
<1>3. ASSUME NEW i \in 1..k PROVE a[i] = b[i]
  <2> DEFINE j == i - 1
  <2>1. j \in Nat /\ j < k /\ k \in Nat /\ k <= Len(a) /\ k <= Len(b) /\ i = j + 1
    BY <1>2
  <2>2. j \notin S
    BY <1>2a, <2>1
  <2>3. j \in Nat /\ j <= Len(a) /\ j <= Len(b) /\ j # Len(a) /\ j # Len(b)
    BY <2>1
  <2> HIDE DEF j
  <2>4. a[j + 1] = b[j + 1]
    BY <2>2, <2>3
  <2> QED BY <2>1, <2>4
<1> QED BY <1>2, <1>3 DEF Shares

LEMMA LexLessAt ==
  ASSUME NEW a \in Seq(Nat), NEW b \in Seq(Nat), NEW k \in Nat, Shares(a, b, k)
  PROVE  LexLess(a, b) <=> k < Len(b) /\ (k = Len(a) \/ a[k + 1] < b[k + 1])
<1>1. ASSUME k < Len(b), k = Len(a) \/ a[k + 1] < b[k + 1] PROVE LexLess(a, b)
  <2>1. k \in 0..Len(a)
    BY DEF Shares
  <2> QED BY <1>1, <2>1 DEF LexLess, Shares
<1>2. ASSUME LexLess(a, b) PROVE k < Len(b) /\ (k = Len(a) \/ a[k + 1] < b[k + 1])
  <2>1. PICK j \in 0..Len(a) : /\ j < Len(b)
                               /\ \A i \in 1..j : a[i] = b[i]
                               /\ j = Len(a) \/ a[j + 1] < b[j + 1]
    BY <1>2 DEF LexLess
  <2>2. ~(j < k)
    <3> SUFFICES ASSUME j < k PROVE FALSE
      OBVIOUS
    <3>1. j + 1 \in 1..k /\ j # Len(a)
      BY SMTT(30) DEF Shares
    <3>2. a[j + 1] = b[j + 1] /\ b[j + 1] \in Nat
      BY <2>1, <3>1, SMTT(30) DEF Shares
    <3> QED BY <2>1, <3>1, <3>2
  <2>3. ~(k < j)
    <3> SUFFICES ASSUME k < j PROVE FALSE
      OBVIOUS
    <3>1. k + 1 \in 1..j /\ k < Len(a) /\ k < Len(b)
      BY <2>1
    <3> QED BY <2>1, <3>1 DEF Shares
  <2>4. j = k
    BY <2>2, <2>3
  <2> QED BY <2>1, <2>4
<1> QED BY <1>1, <1>2

\* operator< of std::string is a strict total order.
LEMMA LexOrder ==
  /\ \A a, b \in Seq(Nat) : LexLess(a, b) \/ LexLess(b, a) \/ a = b
  /\ \A a \in Seq(Nat) : ~LexLess(a, a)
  /\ \A a, b, c \in Seq(Nat) : LexLess(a, b) /\ LexLess(b, c) => LexLess(a, c)
<1>1. ASSUME NEW a \in Seq(Nat), NEW b \in Seq(Nat)
      PROVE  LexLess(a, b) \/ LexLess(b, a) \/ a = b
  <2>1. PICK k \in Nat : Shares(a, b, k)
    BY SharedExists
  <2>2. Shares(b, a, k)
    BY <2>1 DEF Shares
  <2>3. CASE k = Len(a) /\ k = Len(b)
    <3>1. Len(a) = Len(b) /\ \A i \in 1..Len(a) : a[i] = b[i]
      BY <2>1, <2>3 DEF Shares
    <3> QED BY <3>1, SeqEqual
  <2>4. CASE k = Len(a) /\ k # Len(b)
    <3>1. k < Len(b)
      BY <2>1, <2>4 DEF Shares
    <3> QED BY <2>1, <2>4, <3>1, LexLessAt
  <2>5. CASE k # Len(a) /\ k = Len(b)
    <3>1. k < Len(a)
      BY <2>1, <2>5 DEF Shares
    <3> QED BY <2>2, <2>5, <3>1, LexLessAt
  <2>6. CASE k # Len(a) /\ k # Len(b)
    <3>1. /\ k + 1 \in 1..Len(a) /\ k + 1 \in 1..Len(b)
          /\ k < Len(a) /\ k < Len(b) /\ a[k + 1] # b[k + 1]
      BY <2>1, <2>6 DEF Shares
    <3>2. a[k + 1] \in Nat /\ b[k + 1] \in Nat
      BY <3>1
    <3>3. a[k + 1] < b[k + 1] \/ b[k + 1] < a[k + 1]
      BY <3>1, <3>2
    <3> QED BY <2>1, <2>2, <3>1, <3>3, LexLessAt
  <2> QED BY <2>3, <2>4, <2>5, <2>6
<1>2. ASSUME NEW a \in Seq(Nat), LexLess(a, a) PROVE FALSE
  <2>1. PICK j \in 0..Len(a) : j < Len(a) /\ (j = Len(a) \/ a[j + 1] < a[j + 1])
    BY <1>2 DEF LexLess
  <2>2. a[j + 1] \in Nat
    BY <2>1
  <2> QED BY <2>1, <2>2
<1>3. ASSUME NEW a \in Seq(Nat), NEW b \in Seq(Nat), NEW c \in Seq(Nat),
             LexLess(a, b), LexLess(b, c)
      PROVE  LexLess(a, c)
  <2>1. PICK j \in 0..Len(a) : /\ j < Len(b)
                               /\ \A i \in 1..j : a[i] = b[i]
                               /\ j = Len(a) \/ a[j + 1] < b[j + 1]
    BY <1>3 DEF LexLess
  <2>2. PICK k \in 0..Len(b) : /\ k < Len(c)
                               /\ \A i \in 1..k : b[i] = c[i]
                               /\ k = Len(b) \/ b[k + 1] < c[k + 1]
    BY <1>3 DEF LexLess
  <2>3. CASE j < k
    <3>1. j + 1 \in 1..k /\ j < Len(c) /\ \A i \in 1..j : i \in 1..k
      BY <2>2, <2>3
    <3>2. b[j + 1] = c[j + 1] /\ \A i \in 1..j : a[i] = c[i]
      BY <2>1, <2>2, <3>1
    <3>3. j = Len(a) \/ a[j + 1] < c[j + 1]
      BY <2>1, <3>2
    <3> QED BY <3>1, <3>2, <3>3 DEF LexLess
  <2>4. CASE k <= j
    <3>1. k < Len(b) /\ k \in 0..Len(a) /\ \A i \in 1..k : i \in 1..j
      BY <2>1, <2>4
    <3>a. \A i \in 1..k : a[i] = b[i] /\ b[i] = c[i]
      BY <2>1, <2>2, <3>1
    <3>b. k # Len(b)
      BY <3>1
    <3>2. b[k + 1] < c[k + 1] /\ \A i \in 1..k : a[i] = c[i]
      BY <2>2, <3>a, <3>b
    <3>3. CASE k < j
      <4>1. k + 1 \in 1..j
        BY <3>3
      <4>2. a[k + 1] = b[k + 1]
        BY <2>1, <4>1
      <4> QED BY <2>2, <3>1, <3>2, <4>2 DEF LexLess
    <3>4. CASE k = j
      <4>1. k # Len(a) => a[k + 1] < c[k + 1]
        <5> SUFFICES ASSUME k # Len(a) PROVE a[k + 1] < c[k + 1]
          OBVIOUS
        <5>1. k + 1 \in 1..Len(a) /\ k + 1 \in 1..Len(b) /\ k + 1 \in 1..Len(c)
          BY <2>2, <3>1
        <5>2. a[k + 1] \in Nat /\ b[k + 1] \in Nat /\ c[k + 1] \in Nat
          BY <5>1, SMTT(30)
        <5>3. a[k + 1] < b[k + 1]
          BY <2>1, <3>4
        <5> QED BY <3>2, <5>2, <5>3
      <4> QED BY <2>2, <3>1, <3>2, <4>1 DEF LexLess
    <3> QED BY <2>4, <3>3, <3>4
  <2> QED BY <2>3, <2>4
<1> QED BY <1>1, <1>2, <1>3

\* The comparator is that order on strings with a dot: they split into at least one field, and
\* are no number.
LEMMA DottedLess ==
  ASSUME NEW a \in Seq(Nat), NEW b \in Seq(Nat), Dotted(a), Dotted(b)
  PROVE  Less(a, b) <=> a # b /\ LexLess(a, b)
<1>1. ASSUME NEW v \in Seq(Nat), Dotted(v)
      PROVE  Fields(v) \in Nat /\ Fields(v) # 0 /\ ~IsAllNumber(v)
  <2> DEFINE dots == {i \in 1..Len(v) : v[i] = Dot}
  <2>1. IsFiniteSet(1..Len(v))
    BY FS_Interval
  <2>2. IsFiniteSet(dots) /\ Cardinality(dots) \in Nat
    BY <2>1, FS_Subset, FS_CardinalityType
  <2>3. PICK i \in 1..Len(v) : v[i] = Dot
    BY <1>1 DEF Dotted
  <2>4. dots # {}
    BY <2>3
  <2>5. Cardinality(dots) # 0
    BY <2>2, <2>4, FS_EmptySet
  <2>6. Fields(v) = Cardinality(dots) + (IF v = <<>> \/ v[Len(v)] = Dot THEN 0 ELSE 1)
    BY DEF Fields
  <2>7. ~IsAllNumber(v)
    <3>1. Dot \notin Digits
      BY DEF Digits, Dot
    <3> QED BY <2>3, <3>1 DEF IsAllNumber
  <2> HIDE DEF dots
  <2> QED BY <2>2, <2>5, <2>6, <2>7
<1>2. Fields(a) \in Nat /\ Fields(a) # 0 /\ Fields(b) \in Nat /\ Fields(b) # 0 /\ ~IsAllNumber(a)
  BY <1>1
<1> QED BY <1>2 DEF Less

\* Of finitely many strings with a dot one is the least.
LEMMA OneLatest ==
  ASSUME NEW V \in SUBSET Seq(Nat), IsFiniteSet(V), V # {}, \A v \in V : Dotted(v)
  PROVE  \E v \in V : LatestOf(V) = {v}
<1>1. \A a, b \in V : Less(a, b) <=> a # b /\ LexLess(a, b)
  BY DottedLess
<1>2. \A a, b \in V : Less(a, b) \/ Less(b, a) \/ a = b
  BY <1>1, LexOrder
<1>3. \A a \in V : ~Less(a, a)
  BY <1>1
<1>4. ASSUME NEW a \in V, NEW b \in V, NEW c \in V, Less(a, b), Less(b, c)
      PROVE  Less(a, c)
  <2>1. LexLess(a, b) /\ LexLess(b, c)
    BY <1>1, <1>4
  <2>2. LexLess(a, c)
    BY <2>1, LexOrder
  <2>3. a # c
    BY <2>2, LexOrder
  <2> QED BY <1>1, <2>2, <2>3
<1>5. StrictWeakOrder(V)
  BY <1>2, <1>3, <1>4 DEF StrictWeakOrder
<1> DEFINE R == {r \in V \X V : r[1] = r[2] \/ Less(r[1], r[2])}
<1>6. \A a, b \in V : <<a, b>> \in R <=> a = b \/ Less(a, b)
  OBVIOUS
<1> HIDE DEF R
<1>7. \A a, b \in V : <<a, b>> \in R \/ <<b, a>> \in R
  BY <1>2, <1>6
<1>8. \A a, b, c \in V : <<a, b>> \in R /\ <<b, c>> \in R => <<a, c>> \in R
  BY <1>4, <1>6
<1>9. PICK m \in V : \A o \in V : <<m, o>> \in R
  BY <1>7, <1>8, FirstExists
<1>10. \A u \in V : ~Less(u, m)
  BY <1>3, <1>4, <1>6, <1>9
<1>11. \A v \in V : (\A u \in V : ~Less(u, v)) => v = m
  BY <1>6, <1>9
<1>12. LatestOf(V) = {m}
  BY <1>5, <1>10, <1>11 DEF LatestOf
<1> QED BY <1>12

-----------------------------------------------------------------------------
\* Only finitely many libraries are ever tried.
RegisteredInv == TypeInv /\ IsFiniteSet(DOMAIN cores) /\ IsFiniteSet(DOMAIN engines)

LEMMA RegisteredInit == Init => RegisteredInv
<1>1. Init => DOMAIN cores = {} /\ DOMAIN engines = {}
  BY DEF Init, NoCores
<1> QED BY <1>1, TypeInit, FS_EmptySet DEF RegisteredInv

LEMMA RegisteredNext == RegisteredInv /\ [Next]_vars => RegisteredInv'
<1> SUFFICES ASSUME RegisteredInv, [Next]_vars
             PROVE  IsFiniteSet(DOMAIN cores') /\ IsFiniteSet(DOMAIN engines')
  BY TypeNext DEF RegisteredInv
<1> USE DEF RegisteredInv
<1>1. CASE LoadCore
  <2>1. PICK v \in Versions, path \in Dirs :
          cores \in Registry /\ cores' = Registered(cores, v, path)
    BY <1>1, LoadCoreFacts
  <2>2. path \in Paths
    BY DEF Paths
  <2>3. DOMAIN cores' = DOMAIN cores \cup {v}
    BY <2>1, <2>2, RegisteredType
  <2> QED BY <1>1, <2>3, FS_AddElement DEF LoadCore
<1>2. CASE MakeEngines
  <2>1. cores' = cores /\ (engines' = engines \/ DOMAIN engines' = Real)
    BY <1>2 DEF MakeEngines
  <2>2. IsFiniteSet(Real)
    BY FS_Subset DEF Real
  <2> QED BY <2>1, <2>2
<1>3. CASE ~LoadCore /\ ~MakeEngines
  <2>1. cores' = cores /\ engines' = engines
    BY <1>3 DEF Next, Startup, Load, SuppressError, LoadError, ListUserDirs, ListingError,
       GetLatestEngine, GetEngine, vars
  <2> QED BY <2>1
<1> QED BY <1>1, <1>2, <1>3

(***************************************************************************)
(* Where every version has a dot get_engine() means one engine, however     *)
(* many cores there are and whatever their versions: the comparator handed  *)
(* to std::sort is then a strict total order (get_latest_version).          *)
(***************************************************************************)
THEOREM DefaultIsUnique == Spec => []DefaultUnique
<1>1. ASSUME RegisteredInv PROVE DefaultUnique
  <2> SUFFICES ASSUME DOMAIN engines # {}, \A v \in DOMAIN engines : Dotted(v)
               PROVE  Cardinality(LatestOf(DOMAIN engines)) = 1
    BY DEF DefaultUnique
  <2>1. DOMAIN engines \in SUBSET Versions
    BY <1>1, RegistryType DEF RegisteredInv, TypeInv, TypeOK
  <2>2. DOMAIN engines \in SUBSET Seq(Nat)
    BY <2>1, StartupAssumption
  <2>3. PICK v \in DOMAIN engines : LatestOf(DOMAIN engines) = {v}
    BY <1>1, <2>2, OneLatest DEF RegisteredInv
  <2> QED BY <2>3, FS_Singleton
<1> QED BY RegisteredInit, RegisteredNext, <1>1, PTL DEF Spec
===============================================================================
