SPECIFICATION Spec
CONSTANTS
  Absent = Absent
  NaN = NaN
  MaxInt = 7
  Probabilities <- Probs
  CommandLines <- Lines
  Environments <- Envs
INVARIANTS ConfigTypeOK DaemonsRunAsInstalled  DaemonsUseServiceDirectory DelaysStayWithinJitter
