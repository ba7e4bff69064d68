CONSTANTS
    Proc = {p1, p2}
    Identity = {alice, bob}
    Capacity = 2
    Cooldown = 0
    Validity = 1
    MaxTime = 4
    None = None
SPECIFICATION Spec
SYMMETRY Symmetry
PROPERTIES RefreshSpacing
