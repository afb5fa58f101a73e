CONSTANTS
  Stages = {"attach_v2"}
  Verifiers <- MCVerifiers
  Classes <- MCClasses
  Unsigned <- MCUnsigned
  Inherited <- MCInherited
  MaxSlips = 1
SPECIFICATION Spec
CHECK_DEADLOCK FALSE
INVARIANTS
  DeclaredIsCurrent
