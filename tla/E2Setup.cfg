SPECIFICATION FairSpec
CONSTANTS
  MaxReq = 5
  MaxStops = 2
INVARIANTS RegistriesAgree SetupMeansRegistered ShutdownUndisturbed
 
CHECK_DEADLOCK FALSE
