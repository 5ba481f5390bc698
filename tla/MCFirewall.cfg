SPECIFICATION Spec
CONSTANTS
    Mark = mark
    i1 = i1
    i2 = i2
    d4 = d4
    d6 = d6
    p1 = p1
    Ephemeral = high
    c1 = c1
    c2 = c2
    Ips <- MCIps
    Dsts <- MCDsts
    V6 <- MCV6
    Ports <- MCPorts
    DefaultIps <- MCDefault
    Cpus <- MCCpus
    MaxCommands = 3
    MaxPackets = 2
SYMMETRY Symmetry
INVARIANTS StableVerdict TurningOnIsSmooth 
PROPERTIES WalkIsComplete
CHECK_DEADLOCK FALSE
