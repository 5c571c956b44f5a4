SPECIFICATION Spec
CONSTANTS
  home = home
  out = out
  Procs = {p1, p2}
  Paths = {home, out}
  Jobs <- MCJobs
  Stores = {home}
  MaxJobs = 3
  MaxCrashes = 2
CHECK_DEADLOCK FALSE
INVARIANT WritesStay
INVARIANT StoresUsable
PROPERTY FilesStay
