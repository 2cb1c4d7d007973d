SPECIFICATION MCSpec
INVARIANTS UrlsParsed PatternsOnly
PROPERTIES SpeedKept
CHECK_DEADLOCK FALSE
