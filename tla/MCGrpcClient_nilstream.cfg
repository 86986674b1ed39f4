\* Both streams with one connection drop: some goroutine calls a method of a nil stream.
CONSTANTS
  c1 = c1  c2 = c2  r1 = r1  r2 = r2  m1 = m1  m2 = m2
  SinkCallers <- MCSinkCallers
  Requests <- OneRequest
  Modules <- MCModules
  ModuleIds <- MCModuleIds
  MaxSends = 1
  MaxEnds = 0
  MaxDrops = 1
SPECIFICATION Spec
INVARIANT NoNilStreamDeref
