SPECIFICATION Spec
CONSTANTS
    alice = alice
    bob = bob
    run1 = run1
    s1 = s1
    s2 = s2
    Idle = Idle
    Keep = Keep
    Pilots = {alice, bob}
    Runs = {run1}
    Owner <- OneRunOwner
    Slots = {s1}
    MaxPerPilot = 1
    Quantities = {1, 2}
    Prices = {1}
    Fees = {1}
PROPERTY AtomicSpec
PROPERTY FinalizedFrozen
