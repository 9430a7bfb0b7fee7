CONSTANT
  Audio <- FourUtterances
SPECIFICATION Spec
CHECK_DEADLOCK FALSE
INVARIANT
  RecognitionFailureIsHandled
