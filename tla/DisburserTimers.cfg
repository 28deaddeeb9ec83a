SPECIFICATION TimersSpec
CONSTANTS
  NoRetry = NoRetry
  MaxTicks = 3
  MaxMarker = 10
  Interval = 3
  MaxHintTime = 7
INVARIANTS TrailingAdmitted RefusedHasRetry
PROPERTIES HintServed RefusedTickRuns
