\* One Sink caller making two Sends around one connection drop and restore.
CONSTANTS
  c1 = c1  c2 = c2  r1 = r1  r2 = r2  m1 = m1  m2 = m2
  SinkCallers <- OneCaller
  Requests <- NoRequests
  Modules <- MCModules
  ModuleIds <- MCModuleIds
  MaxSends = 2
  MaxEnds = 0
  MaxDrops = 1
SPECIFICATION Spec
PROPERTY NoWriteToFailedSinkStream
