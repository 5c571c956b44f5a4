SPECIFICATION MCSpec
CONSTANTS
  s1 = s1
  s2 = s2
  bridge = bridge
  hook = hook
  a = a
  b = b
  home = home
  m1 = m1
  write = write
  ask = ask
  browse = browse
  Procs = {s1, s2, bridge}
  Mems = {a, b}
  Stores = {home}
  Home <- MCHome
  Models = {m1, m2}
  MaxClock = 2
  Servers = {s1, s2}
  Bridges = {bridge}
  Hooks = {hook}
  Calls = {write, ask, browse, hook}
  CallOf <- MCCallOf
  Loadable <- MCLoadable
  Failing <- MCFailing
  Requires <- MCRequires
  Late = {s1, s2, bridge}
  Encoder = m1
  MaxStops = 1
  MaxOutside = 4
CHECK_DEADLOCK FALSE
INVARIANT NeverLexicalOnly
