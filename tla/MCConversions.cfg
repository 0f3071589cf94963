SPECIFICATION MCCvSpec
CONSTANTS
  CvCases <- MCCvCases
  Unlimited = Unlimited
  NoText = NoText
INVARIANT NumbersReplaced
CHECK_DEADLOCK FALSE
