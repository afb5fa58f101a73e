CONSTANTS
  Stages = {"backend"}
  Verifiers <- MCVerifiers
  Classes <- MCClasses
  Unsigned <- MCUnsigned
  Inherited <- MCInherited
  MaxSlips = 0
SPECIFICATION Spec
CHECK_DEADLOCK FALSE
PROPERTIES
  EventuallyAccepted
