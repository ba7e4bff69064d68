\* Challenge binding, acceptance of honest answers, attestation and mTLS
\* renewal on a two-client instance; the clock runs past the five-second window.
CONSTANTS
    Ident = {"alice", "mallory"}
    Key = {"ka", "km"}
    Owner <- MCOwner
    ChallengeKey = ChallengeKey
    NoTag = NoTag
    Malformed = Malformed
    Invalid = Invalid
    None = None
    Authority = {"a1", "a2", "a3"}
    Configured = {"a1", "a2"}
    SshKeys <- MCSshKeys
    X509Ca = {"a2"}
    DefaultAuthority = "a1"
    CertExpiry <- MCCertExpiry
    RenewalPeriod = 2
    ValidityLength = 2
    U64 = 64
    MaxTime = 7
    MaxChallenges = 2
SPECIFICATION Spec
INVARIANTS TypeOK ChallengeBinding FreshChallengeAccepted AttestedKeyBound ReissueExtends
