SPECIFICATION Spec
CONSTANTS
  c0 = c0
  c1 = c1
  Cores <- MCCores
  Core0 = c0
  NoCore = NoCore
INVARIANT HandlerHoldsDomains
