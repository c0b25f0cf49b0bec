SPECIFICATION Spec
CONSTANTS
    Person = {alice, bob}
    Tab = {t1, t2}
    MaxFaults = 2
    MaxKeys = 2
    None = None
SYMMETRY Symmetry
INVARIANTS
    CanSignBackIn
