\* RPC side, one connection drop and nothing else: after the drop the supervisor must reopen the stream.
CONSTANTS
  c1 = c1  c2 = c2  r1 = r1  r2 = r2  m1 = m1  m2 = m2
  SinkCallers <- NoCallers
  Requests <- NoRequests
  Modules <- MCModules
  ModuleIds <- MCModuleIds
  MaxSends = 1
  MaxEnds = 0
  MaxDrops = 1
SPECIFICATION Spec
PROPERTY EndedStreamReplaced
