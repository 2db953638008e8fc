CONSTANTS
  flights = flights
  correlations = correlations
  turimiquire = turimiquire
  job = job
  refresh = refresh
  page = page
  claw = claw
  force = force
  Loop = Loop
  Free = Free
  NoTag = NoTag
  Layers = {flights, turimiquire}
  Marked = {flights}
  Cached = {flights}
  Hydric = turimiquire
  Fetchers = {job}
  Browsers = {page}
  Forced = {force}
  Agents = {}
  Telemetry = TRUE
  MaxWrites = 2
  MaxToggles = 1
  MaxRestarts = 1
SPECIFICATION Spec
INVARIANTS TypeOK NotModifiedIsCurrent
CHECK_DEADLOCK FALSE
