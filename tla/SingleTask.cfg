SPECIFICATION FairSpec
CONSTANTS
  MaxAnts = 3
  StartAnts = 3
  Pieces = 2
  MaxUps = 1
  MaxDowns = 2
  MaxMirrors = 1
  MaxReports = 1
INVARIANTS CountedUntilDown Reported ErrorHasCause NeverOvercounted ThreadsDieWithTask MirrorsGiven
PROPERTY ClicksReturn
CHECK_DEADLOCK FALSE
