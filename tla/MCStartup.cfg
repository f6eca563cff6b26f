SPECIFICATION Spec
CONSTANTS
  Versions <- MixedVersions
  Age <- MixedAge
  MockVersion <- V000
  VoicelibDirs <- TwoVoicelibs
  CoreLibraries = "core_libraries"
  UserFiles = {"file1", "file2"}
  NoEngine = NoEngine
  NoAnswer = NoAnswer
CHECK_DEADLOCK FALSE
INVARIANTS TypeOK FirstWins VoicelibsServed DefaultUnique
