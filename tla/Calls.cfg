SPECIFICATION Spec
CONSTANTS
  StackLimit = 3
  RightMargin = 12
  TokenLength = 2
  MaxInt = 7
  MaxLargestInt = 31
  Scalars = {"x", "y"}
  Names = {"a", "b"}
  MaxSize = 4
PROPERTIES JsonIsRead JsonIsReadAgain ValueIsContainer ValuesAreWhatTheySay DetectionsAreThoseOfTheNetwork KeepsWhatItIsGiven
CHECK_DEADLOCK FALSE
