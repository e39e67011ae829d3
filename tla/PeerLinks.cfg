CONSTANTS
  d1 = d1
  d2 = d2
  d3 = d3
  a1 = a1
  a2 = a2
  b2 = b2
  a3 = a3
  Devices = {d1, d2, d3}
  Addrs = {a1, a2, b2, a3}
  Owner <- Listens
  MaxConns = 2
  None = None
  Loads <- PeerLoads
SPECIFICATION Spec
INVARIANTS TypeOK OneAttempt OneDialled
PROPERTY AllLinked
CHECK_DEADLOCK FALSE
