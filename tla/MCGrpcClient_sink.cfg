\* Sink side: two Send callers with two Sends each, one connection drop.
CONSTANTS
  c1 = c1  c2 = c2  r1 = r1  r2 = r2  m1 = m1  m2 = m2
  SinkCallers <- MCSinkCallers
  Requests <- NoRequests
  Modules <- MCModules
  ModuleIds <- MCModuleIds
  MaxSends = 2
  MaxEnds = 0
  MaxDrops = 1
SPECIFICATION Spec
SYMMETRY Symmetry
INVARIANT TypeOK
INVARIANT NoWriteOnReplacedStream
