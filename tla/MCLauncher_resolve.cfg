SPECIFICATION Spec
CONSTANTS
    MaxHosts = 3
    Interfaces <- MCInterfaces
    Setups <- MCSetups
    Scenario = "resolve"
    Retries = 2
    NextRetries = 3
    SSH_RETRIES = 2
INVARIANTS
    InterfacesRouted
