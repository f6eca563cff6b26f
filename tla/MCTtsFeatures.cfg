SPECIFICATION FeaturesSpec
CONSTANTS
  Texts <- SomeTexts
  LengthAnswers <- SomeLengths
  PitchAnswers <- SomePitches
  Scales <- SomeScales
  Notes <- SomeNotes
  Predictions <- SomePredictions
  MaxNotes = 3
  Requests <- SomeRequests
  Samples <- SomeSamples
CHECK_DEADLOCK FALSE
INVARIANTS
  PredictionsBelong FeaturesRight
  FramesKept Aligned SongSafe
  MonoConnected
