CONSTANTS
    Name <- MCName
    Type = {"dynamic", "manual", "", "vip", "unknown"}
    PrivateVlan = {p1, p2}
    PublicVlan = {q1, q2}
    MaxIds = 2
    None = None
SPECIFICATION Spec
SYMMETRY Symmetry
INVARIANTS
    InterfacesConfigured
    AliasesDistinct
    OneGateway
    RequestedNetworksKept
