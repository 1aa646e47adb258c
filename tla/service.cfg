\* The driver process: start, service, shutdown and restarts.
SPECIFICATION ServiceSpec
CONSTANTS
  Configs <- TriedFlags
  Files = {"none", "socket", "file"}
  MaxStops = 3
  MaxMishaps = 2
  MaxVersion = 2
INVARIANTS
  ServiceTypeOK
  AnswersKnowThePast
PROPERTY
  ServesInTheEnd
