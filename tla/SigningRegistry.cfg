\* Two authorities and two keys: every configuration over them, every
\* HashMap order.  configure returns once, so the final state has no
\* successor.
CONSTANTS
    Authority = {a1, a2}
    Key = {k1, k2}
    NoKey = NoKey
    None = None
    DefaultAuthority = a1
    ClientAuthority = a2
SPECIFICATION Spec
INVARIANTS TypeOK StartupDecision ErrorNamesCulprits
CHECK_DEADLOCK FALSE
