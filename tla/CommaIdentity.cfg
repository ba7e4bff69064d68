CONSTANTS
    Digits <- MCDigits
    Pubkey <- MCPubkey
    CommonName <- MCCommaCN
    MaxCNs = 2
    MaxChallenges = 2
SPECIFICATION Spec
INVARIANTS
    TagBindsRequest
