CONSTANTS
  flights = flights
  correlations = correlations
  turimiquire = turimiquire
  job = job
  refresh = refresh
  page = page
  claw = claw
  force = force
  Loop = Loop
  Free = Free
  NoTag = NoTag
  Layers = {flights, correlations, turimiquire}
  Marked = {flights}
  Cached = {flights, correlations}
  Hydric = turimiquire
  Fetchers = {job}
  Browsers = {}
  Forced = {force}
  Agents = {claw}
  Telemetry = FALSE
  MaxWrites = 2
  MaxToggles = 0
  MaxRestarts = 0
SPECIFICATION FairSpec
PROPERTIES AgentsSeeEveryWrite
