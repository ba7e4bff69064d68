CONSTANTS
    Digits <- MCDigits
    Pubkey <- MCPubkey
    CommonName <- MCPlainCN
    MaxCNs = 2
    MaxChallenges = 2
SPECIFICATION Spec
INVARIANTS
    TagBindsRequest
