CONSTANTS
    KeyType = {"ssh-ed25519", "ecdsa"}
    Blob = {"Bka", "Bkb"}
    BlobType <- MCBlobType
    Identity <- MCSpacedIdentity
    MaxEntries = 2
    Null = Null
SPECIFICATION Spec
INVARIANTS
    NoMisattribution
