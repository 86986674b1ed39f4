\* RPC side with one connection drop: the receive loop meets a non-EOF error.
CONSTANTS
  c1 = c1  c2 = c2  r1 = r1  r2 = r2  m1 = m1  m2 = m2
  SinkCallers <- NoCallers
  Requests <- OneRequest
  Modules <- MCModules
  ModuleIds <- MCModuleIds
  MaxSends = 1
  MaxEnds = 1
  MaxDrops = 1
SPECIFICATION Spec
INVARIANT NoPanicOnRecvError
