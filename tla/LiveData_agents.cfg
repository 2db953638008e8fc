CONSTANTS
  flights = flights
  correlations = correlations
  turimiquire = turimiquire
  job = job
  refresh = refresh
  page = page
  claw = claw
  force = force
  Loop = Loop
  Free = Free
  NoTag = NoTag
  Layers = {flights, correlations}
  Marked = {flights}
  Cached = {flights, correlations}
  Hydric = correlations
  Fetchers = {job, refresh}
  Browsers = {}
  Forced = {}
  Agents = {claw}
  Telemetry = FALSE
  MaxWrites = 4
  MaxToggles = 0
  MaxRestarts = 2
SPECIFICATION Spec
INVARIANTS UnchangedIsCurrent
