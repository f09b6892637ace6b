SPECIFICATION FairSpec
CONSTANTS
  None = None
  Fired = Fired
  Blank = Blank
  Services = {a}
  Requests = {p1}
  Callbacks = {t1}
  Locks = {l1, l2}
  DisableIdle = {}
  Pause = {}
  HealthPath = {}
  StartupTimeout = 0
  IdleTimeout = 0
  Ops = {"wake"}
  EnvSteps = {}
  Watching = TRUE
  DockerFails = FALSE
  MaxWaiters = 1
PROPERTIES RunningGetsTimer
