\* Two clients, a pool of two, of which the migration driver keeps one.
CONSTANTS
  c1 = c1
  c2 = c2
  Clients <- TwoClients
  MaxConns = 2
SPECIFICATION ServingSpec
INVARIANTS
  PoolOutlivesItsUsers
  ServesCurrentSchema
PROPERTIES
  OnlyLateRequestsAreCut
  SignalEndsProcess
  RequestsGetConnections
