SPECIFICATION Spec
CONSTANTS
    b1 = b1
    p1 = p1
    p2 = p2
    NoBill = NoBill
    Bills <- MCBills
    Handlers <- MCHandlers
    MaxRestarts = 1
INVARIANTS
    RecordsUsedBills
