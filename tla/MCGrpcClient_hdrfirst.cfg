\* RPC side, one request, one server-side end, no drop: a response overtakes the headers.
CONSTANTS
  c1 = c1  c2 = c2  r1 = r1  r2 = r2  m1 = m1  m2 = m2
  SinkCallers <- NoCallers
  Requests <- OneRequest
  Modules <- MCModules
  ModuleIds <- MCModuleIds
  MaxSends = 1
  MaxEnds = 1
  MaxDrops = 0
SPECIFICATION Spec
INVARIANT HeadersFirst
