CONSTANTS
    NServers = 2
    Principal = {"alice", "bob"}
    Key = {"ka", "kb"}
    Lists <- MCLists
    Null = Null
    MaxCalls = 3
SPECIFICATION Spec
INVARIANTS
    TypeOK
    VerificationSound
    SuccessMeansWritten
PROPERTY
    AgentFileRefined
