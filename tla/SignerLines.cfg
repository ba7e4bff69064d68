CONSTANTS
    KeyType = {"ssh-ed25519", "ecdsa"}
    Blob = {"Bka", "Bkb"}
    BlobType <- MCBlobType
    Identity <- MCPlainIdentity
    MaxEntries = 3
    Null = Null
SPECIFICATION Spec
INVARIANTS
    TypeOK
    VerifiesAsListed
