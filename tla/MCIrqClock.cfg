SPECIFICATION ClockSpec
CONSTANTS
  Day = 40
  Period = 18
  W = 8
PROPERTY KeepsDisplaying
