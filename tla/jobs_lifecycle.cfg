CONSTANTS
  c1 = c1
  j1 = j1
  j2 = j2
  w1 = w1
  w2 = w2
  NoJob = NoJob
  Callers = {c1}
  Jobs = {j1,j2}
  Workers = {w1,w2}
  MaxTries = 2
  Events = {"LockExpiry", "Cancel", "Timeout", "HorseKill", "WorkerDeath", "JobExpiry"}
SPECIFICATION Spec
CHECK_DEADLOCK FALSE
INVARIANT OneWorkerPerJob
PROPERTY ImplementsLifecycle
