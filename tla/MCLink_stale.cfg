SPECIFICATION Spec
CONSTANTS
  NUM_PPP = 2
  ipcp = ipcp
  here = here
  there = there
  NoMp = NoMp
  Protocols <- MCProtocols
  Discs <- MCDiscs
  EchoFails = 2
  MaxOpenFails = 2
  Options <- StaleOptions
  MaxTimers = 3
INVARIANT NetworkHasUnits
