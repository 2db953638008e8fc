CONSTANTS
  flights = flights
  correlations = correlations
  turimiquire = turimiquire
  job = job
  refresh = refresh
  page = page
  claw = claw
  force = force
  Loop = Loop
  Free = Free
  NoTag = NoTag
  Layers = {flights, correlations, turimiquire}
  Marked = {flights}
  Cached = {flights, correlations}
  Hydric = turimiquire
  Fetchers = {job, refresh}
  Browsers = {page}
  Forced = {}
  Agents = {claw}
  Telemetry = FALSE
  MaxWrites = 3
  MaxToggles = 0
  MaxRestarts = 1
SPECIFICATION Spec
INVARIANTS TagsIdentifyContent VersionsIdentifyContent
