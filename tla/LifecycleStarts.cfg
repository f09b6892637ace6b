SPECIFICATION Spec
CONSTANTS
  None = None
  Fired = Fired
  Blank = Blank
  Services = {a}
  Requests = {p1, p2}
  Callbacks = {t1}
  Locks = {l1, l2}
  DisableIdle = {}
  Pause = {}
  HealthPath = {}
  StartupTimeout = 0
  IdleTimeout = 0
  Ops = {"wait", "stopall"}
  EnvSteps = {"exit"}
  Watching = TRUE
  DockerFails = TRUE
  MaxWaiters = 2
SYMMETRY Symmetric
INVARIANTS TypeOK SingleFlight FlightInv StartTargetsStopped
PROPERTIES BootOriginStable
