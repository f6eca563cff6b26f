SPECIFICATION RulesSpec
CONSTANTS
  Nodes = {n1, n2, n3, n4}
  Null = Null
  MaxChain = 3
  DigitTexts <- SomeDigitTexts
  AccentTexts <- SomeAccentTexts
  VowelTexts <- SomeVowelTexts
CHECK_DEADLOCK FALSE
INVARIANTS
  ListSound
  DigitsSound NumbersRead
  AccentsSound
  VowelsRight WindowInStep
PROPERTIES ImplementsSequence RuleEnds
