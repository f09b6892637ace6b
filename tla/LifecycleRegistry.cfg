SPECIFICATION FairSpec
CONSTANTS
  None = None
  Fired = Fired
  Blank = Blank
  Services = {a}
  Requests = {p1}
  Callbacks = {t1}
  Locks = {l1, l2}
  DisableIdle = {a}
  Pause = {a}
  HealthPath = {a}
  StartupTimeout = 0
  IdleTimeout = 0
  Ops = {"proxy", "wake", "wakeall", "stop"}
  EnvSteps = {"remove", "start"}
  Watching = TRUE
  DockerFails = TRUE
  MaxWaiters = 1
INVARIANT DisabledNeverIdleStopped
PROPERTIES RegistryConverges RequestsComplete
