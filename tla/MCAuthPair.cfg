SPECIFICATION FairSpec
CONSTANTS
  A = A
  B = B
  Ends <- MCEnds
  Setups <- MCSetups
  MaxTransmits = 2
  IdMod = 2
  MaxInFlight = 2
  MaxCallouts = 2
INVARIANTS TypeOK NetworkMeansProved RightSecretNeverFails CalloutsFit
PROPERTIES ServerDecides ClientSettles
