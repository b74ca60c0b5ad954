CONSTANTS
    Total = 7
    MaxNr = 1
SPECIFICATION Spec
INVARIANTS HandedOutOnce SearchIsExact
PROPERTIES FailsOnlyWhenFull
