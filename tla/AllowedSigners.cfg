CONSTANTS
    Proc = {p1, p2}
    Identity = {alice, bob}
    Capacity = 1
    Cooldown = 1
    Validity = 1
    MaxTime = 3
    None = None
SPECIFICATION Spec
INVARIANTS TypeOK BoundedStaleness
PROPERTIES ExpiryMonotonic DenialJustified EveryRequestAnswered
