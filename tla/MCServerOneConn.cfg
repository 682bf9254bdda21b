\* A pool of one, which configuration accepts.
CONSTANTS
  c1 = c1
  c2 = c2
  Clients <- OneClient
  MaxConns = 1
SPECIFICATION ServingSpec
PROPERTIES
  AcceptedPoolServes
