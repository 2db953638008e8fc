CONSTANTS
  flights = flights
  correlations = correlations
  turimiquire = turimiquire
  job = job
  refresh = refresh
  page = page
  claw = claw
  force = force
  Loop = Loop
  Free = Free
  NoTag = NoTag
  Layers = {flights, correlations}
  Marked = {flights}
  Cached = {flights, correlations}
  Hydric = correlations
  Fetchers = {job}
  Browsers = {page}
  Forced = {}
  Agents = {claw}
  Telemetry = FALSE
  MaxWrites = 2
  MaxToggles = 0
  MaxRestarts = 0
SPECIFICATION FairSpec
INVARIANTS UnchangedIsCurrent
PROPERTIES PagesSeeEveryWrite AgentsSeeMarkedWrites
