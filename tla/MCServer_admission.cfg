SPECIFICATION Spec
CONSTANTS
  MaxFd = 2
  WorkerCount = 1
  Readers = {r1}
  MaxClients = {1, 2, 3}
  ProxyQueueLimit = 1
  NoiseLimit = 1
  Configured = {"noise"}
  NoFd = NoFd
INVARIANTS AdmissionRespectsLimits SlotsAreHeld StopsClean
PROPERTIES AcceptedIsServed SlotsRecycle
