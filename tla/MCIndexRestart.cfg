SPECIFICATION Spec
CONSTANTS
    Memory = {"mine", "sub"}
    Home <- MCHome
    Near <- MCNear
    Late = {}
    Asked = {}
    Forces = {FALSE}
    TopK = 1
    KnnK = 1
    ScopeScanMax = 1
    MaxFailures = 1
    MaxPromotions = 0
INVARIANTS
    RerunFinishesTheJob
