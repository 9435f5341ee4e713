SPECIFICATION PqueueSpec
CONSTANTS
    Items = {1, 2, 3, 4, 5, 6}
    MaxPri = 2
    InitCap = 2
    Floor = 2
INVARIANTS HeapOrdered ShiftEarliest
PROPERTIES RemoveExact
