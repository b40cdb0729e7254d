CONSTANTS
  App = {t1, t2}
  Nobody = Nobody
  Port <- MCPort
  Others = {0, 2}
  DefaultPorts <- MCDefaultPorts
SPECIFICATION FairSpec
INVARIANTS TypeOK ServesWhenOn CleanWhenOff StopFindsLoop FaultsOnlyAmiss JoinedIsToldToEnd
PROPERTIES ApiSpec HolderReturns JoinComesNearer
CHECK_DEADLOCK FALSE
