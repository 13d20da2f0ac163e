CONSTANTS
  MaxOutputs = 1
  MaxFaults = 1
  None = None
SPECIFICATION Spec
PROPERTIES StopEndsAttempt
