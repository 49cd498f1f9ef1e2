CONSTANT Transfers <- SysexTransfers
SPECIFICATION Spec
INVARIANT RequestArrives
