CONSTANT Transfers <- AllTransfers
SPECIFICATION Spec
INVARIANTS TypeOK RequestArrives CursorsMeet ResultArrives
