SPECIFICATION Spec
CONSTANTS
    alice = alice
    bob = bob
    run1 = run1
    s1 = s1
    s2 = s2
    Idle = Idle
    Keep = Keep
    Pilots = {alice, bob}
    Runs = {run1}
    Owner <- OneRunOwner
    Slots = {s1, s2}
    MaxPerPilot = 2
    Quantities = {1}
    Prices = {1}
    Fees = {1}
INVARIANT SaleStampsTransfer
INVARIANT FinalizedRunIsComplete
INVARIANT NextStopStarted
INVARIANT ClosedRunWasBought
SYMMETRY SlotSymmetry
