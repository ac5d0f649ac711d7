SPECIFICATION Spec
CONSTANTS
  Streams = {s1, s2}
  Configs <- MCConfigs
  Cards <- MCCards
  MaxCrashes = 1
INVARIANTS
  TypeOK
  OwnInputs
  CardFramesApart
  InputsNotDriven
  OutputsShown
SYMMETRY Symmetry
CHECK_DEADLOCK FALSE
