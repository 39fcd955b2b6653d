SPECIFICATION Spec
CONSTANTS
  Scoped = {s1, s2}
  Writer = s1
  Detached = {d1}
  MaxTelemetry = 3
  NoError = NoError
  Telemetry = Telemetry
INVARIANTS
  NoErrorSwallowed
  TelemetryComplete
PROPERTIES
  FirstErrorKept
  Concludes
  RefinesOutcome
