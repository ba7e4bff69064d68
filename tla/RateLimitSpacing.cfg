CONSTANTS
    Proc = {p1, p2, p3}
    Identity = {alice}
    Capacity = 1
    Cooldown = 2
    Validity = 1
    MaxTime = 4
    None = None
SPECIFICATION Spec
SYMMETRY Symmetry
INVARIANTS RateLimitSpacing
