SPECIFICATION FairSpec
CONSTANTS
  NUM_PPP = 2
  ipcp = ipcp
  here = here
  there = there
  NoMp = NoMp
  Protocols <- MCProtocols
  Discs <- MCDiscs
  EchoFails = 2
  MaxOpenFails = 2
  Options <- MCOptions
  MaxTimers = 3
INVARIANTS TypeOK LcpOwned UnitIsLink BundleRings  NcpOwned
  PhaseFitsLcp 
PROPERTIES LinkReturns
