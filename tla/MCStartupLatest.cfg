SPECIFICATION Spec
CONSTANTS
  Versions <- ReleasedVersions
  Age <- ReleasedAge
  MockVersion <- V000
  VoicelibDirs <- TwoVoicelibs
  CoreLibraries = "core_libraries"
  UserFiles = {"file1", "file2"}
  NoEngine = NoEngine
  NoAnswer = NoAnswer
CHECK_DEADLOCK FALSE
PROPERTIES LatestIsNewest
