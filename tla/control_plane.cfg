SPECIFICATION PlaneSpec
CONSTANT MaxLives = 4
INVARIANTS PlaneTypeOK FingerprintStable
PROPERTIES AgentsComeBack
CHECK_DEADLOCK FALSE
