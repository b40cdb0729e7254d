CONSTANTS
  App = {t1}
  Nobody = Nobody
  Port <- MCPort
  Others = {0, 2}
  DefaultPorts <- MCDefaultPorts
SPECIFICATION FairSpec
PROPERTIES DeinitReturns
CHECK_DEADLOCK FALSE
