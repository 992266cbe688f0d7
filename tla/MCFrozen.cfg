CONSTANTS
 Goods = {p1, p2}
 MaxRequests = 2
 MaxEdits = 3
 MaxLookups = 1
 MaxVisits = 1
 MaxSwaps = 1
 MaxCalls = 2
INIT CheckoutScreenInit
NEXT CheckoutScreenNext
INVARIANT FrozenWhileCharging
CHECK_DEADLOCK FALSE
