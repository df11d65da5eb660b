SPECIFICATION Spec
CONSTANTS
  Runs = {r1, r2, r3, r4, r5, r6}
  Names <- MCNames
SYMMETRY RunSymmetry
INVARIANTS TypeOK OneNamespacePerName BareFileHasCause
PROPERTY LinkGoesWhereNameLed
CHECK_DEADLOCK FALSE
