SPECIFICATION FairSpec
CONSTANTS
  a = a
  b = b
  Keys = {a, b}
  MaxClears = 3
  MaxDecides = 1
  MaxFailures = 1
INVARIANTS
  TypeOK
  ReflectsClears
  ButtonComesBack
PROPERTIES
  NeverGoesBack
  LoadingEnds
CHECK_DEADLOCK FALSE
