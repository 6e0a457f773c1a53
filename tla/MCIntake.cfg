SPECIFICATION Spec
CONSTANTS
  Server = {s1, s2}
  Payload = {"a", "b", "r"}
  Incident <- OneIncident
  Group <- MCGroup
  Hint <- MCHint
  Resolved = {"r"}
  Repository = {"api", "web"}
  Application = {"A", "B"}
  Configuration <- MCConfiguration
  MaxCrashes = 2
INVARIANTS OneTaskPerIncident
PROPERTY AlertsOpenTasks
