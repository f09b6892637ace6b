SPECIFICATION FairSpec
CONSTANTS
  None = None
  Fired = Fired
  Blank = Blank
  Services = {a}
  Requests = {p1, p2}
  Callbacks = {t1}
  Locks = {l1}
  DisableIdle = {}
  Pause = {a}
  HealthPath = {a}
  StartupTimeout = 0
  IdleTimeout = 0
  Ops = {"proxy", "stop"}
  EnvSteps = {}
  Watching = FALSE
  DockerFails = FALSE
  MaxWaiters = 2
PROPERTIES StartTakesEffect IdleServiceStops RequestsComplete
