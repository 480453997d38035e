SPECIFICATION Spec
CONSTANTS
    MaxHosts = 3
    Interfaces <- MCInterfaces
    Setups <- MCSetups
    Scenario = "handshake"
    Retries = 2
    NextRetries = 3
    SSH_RETRIES = 2
INVARIANTS
    RoutedIfPaired
    HandshakeInOrder
PROPERTIES
    FailuresExplained
    LaunchEnds
