SPECIFICATION FairSpec
CONSTANTS
  Null = Null
  Light = Light
  Dark = Dark
  Plain = Plain
  BundledThemes = {Light, Dark, Plain}
  DefaultTheme = Light
  Unbundled = Unbundled
  MaxSwitches = 3
  MaxReloads = 1
  MaxFailures = 2
  MaxForeign = 1
INVARIANTS
  TypeOK
  OneTheme
PROPERTIES
  PageMounts
CHECK_DEADLOCK FALSE
