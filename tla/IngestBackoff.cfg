SPECIFICATION BackoffSpec
CONSTANTS
  p1 = p1  p2 = p2
  t1 = t1  t2 = t2  t3 = t3
  v1 = v1  v2 = v2
  movie = movie  other = other
  NoVersion = NoVersion
  NoJob = NoJob
  MaxRows = 3
  MAX_ATTEMPTS = 3
  BATCH_SIZE = 2
  AggregateTypes = {movie, other}
  Versions = {v1, v2}
  Skews <- SecondOff
  Processes = {p1}
  Threads = {t1}
  ProcessOf <- OneThread
  WorkerVersions = {v1, v2}
  Registered = {movie}
  ProducerJobs <- OnlyCurrent
  FairProcesses = {p1}
  MaxProduced = 2
  MaxFaults = 1
INVARIANTS
  NoEarlyDeath
CHECK_DEADLOCK FALSE
