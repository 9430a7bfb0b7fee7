CONSTANTS
  Symbols <- MCSymbols
  Texts <- MCTexts
  Marker <- MCMarker
  Spaces <- MCSpaces
  Ends <- MCEnds
  Labels <- MCLabels
  General <- MCGeneral
SPECIFICATION SynthesisSpec
CHECK_DEADLOCK FALSE
INVARIANTS
  OnlySpeechIsSpoken
  SpokenPromptly
  ReadersAgree
  CutsDoNotMatter
  HeardTheSame
