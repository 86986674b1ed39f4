\* RPC side: two requests, two server-side stream ends, one connection drop.
CONSTANTS
  c1 = c1  c2 = c2  r1 = r1  r2 = r2  m1 = m1  m2 = m2
  SinkCallers <- NoCallers
  Requests <- MCRequests
  Modules <- MCModules
  ModuleIds <- MCModuleIds
  MaxSends = 1
  MaxEnds = 2
  MaxDrops = 1
SPECIFICATION Spec
SYMMETRY Symmetry
INVARIANT SingleSupervisor
INVARIANT SupervisorWatchesStream
INVARIANT NoWriteOnReplacedStream
