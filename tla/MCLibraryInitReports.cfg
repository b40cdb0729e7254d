CONSTANTS
  App = {t1}
  Nobody = Nobody
  Port <- MCPort
  Others = {0, 2}
  DefaultPorts <- MCDefaultPorts
SPECIFICATION Spec
INVARIANTS InitReports
CHECK_DEADLOCK FALSE
