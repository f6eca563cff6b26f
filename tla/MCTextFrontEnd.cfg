SPECIFICATION ReadingSpec
CONSTANTS
  Words <- SomeWords
  MaxWords = 4
  MaxM = 3
  MaxS = 2
  ki = ki
  ya = ya
  nn = nn
  Kana = {ki, ya, nn}
  Texts <- SomeTexts
  Voiceable <- SomeVoiceable
  PhraseLists <- SomeLists
  Inputs <- SomeInputs
  MaxBytes = 3
  LoopLimit = 3
  Sentences <- SomeSentences
  Info <- SomeInfo
  Blank = " "
  Dictionary <- SomeDictionary
  Unknown <- SomeUnknown
  Connection <- SomeConnection
  MaxGroupingSize = 1
  Horizon = 3
  CostLimit = 20
CHECK_DEADLOCK FALSE
INVARIANTS
  LabelsSound PhrasesSpoken KanaSound
  LatticeSound NothingUnread ReadingsInOrder
PROPERTIES ImplementsUtterance CallsEnd
