CONSTANTS
  flights = flights
  correlations = correlations
  turimiquire = turimiquire
  job = job
  refresh = refresh
  page = page
  claw = claw
  force = force
  Loop = Loop
  Free = Free
  NoTag = NoTag
  Layers = {flights, turimiquire}
  Marked = {flights}
  Cached = {flights}
  Hydric = turimiquire
  Fetchers = {job}
  Browsers = {page}
  Forced = {}
  Agents = {}
  Telemetry = FALSE
  MaxWrites = 2
  MaxToggles = 0
  MaxRestarts = 0
SPECIFICATION Spec
INVARIANTS FreshDataBeforeNotModified
