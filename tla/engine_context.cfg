SPECIFICATION Spec
CONSTANTS
  Sessions = {s1, s2}
  Servers = {main, vhost}
  Main = main
  MaxPools = 2
SYMMETRY Alike
INVARIANTS
  EngineInVirtualHost
CHECK_DEADLOCK FALSE
