SPECIFICATION Spec
CONSTANTS
  p1 = p1  p2 = p2
  t1 = t1  t2 = t2  t3 = t3
  v1 = v1  v2 = v2
  movie = movie  other = other
  NoVersion = NoVersion
  NoJob = NoJob
  MaxRows = 3
  MAX_ATTEMPTS = 2
  BATCH_SIZE = 2
  AggregateTypes = {movie, other}
  Versions = {v1, v2}
  Skews <- NoSkew
  Processes = {p1}
  Threads = {t1, t2}
  ProcessOf <- TwoThreads
  WorkerVersions = {v2}
  Registered = {movie}
  ProducerJobs <- OnlyStalePayload
  FairProcesses = {p1}
  MaxProduced = 1
  MaxFaults = 0
INVARIANTS
  ReenqueuedRowIsCurrent
CHECK_DEADLOCK FALSE
