SPECIFICATION Spec
CONSTANTS
  Positions = {}
  Limits = {}
  FocusPositions = {}
  Stiffness = {0, 100}
  MaxSends = 1
  MaxTlv = 0
INVARIANT
  StiffnessReadsBack
CHECK_DEADLOCK FALSE
