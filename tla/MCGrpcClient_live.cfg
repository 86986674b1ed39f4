\* RPC stream recovery without connection failures: two requests, one
\* server-side stream end, no connection drop.
CONSTANTS
  c1 = c1  c2 = c2  r1 = r1  r2 = r2  m1 = m1  m2 = m2
  SinkCallers <- NoCallers
  Requests <- MCRequests
  Modules <- MCModules
  ModuleIds <- MCModuleIds
  MaxSends = 1
  MaxEnds = 1
  MaxDrops = 0
SPECIFICATION Spec
PROPERTY RpcStreamRecovers
PROPERTY RequestsReceived
PROPERTY ImplementsBrokerRpc
