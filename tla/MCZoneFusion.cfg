CONSTANTS
    GasWeight = 4
    PermitWeight = 3
    WorkerWeight = 2
    EquipmentWeight = 1
    WeightScale = 10
    Kappa = 4
    KappaScale = 10
    ElevatedFloor = 40
    MaxRisk = 100
    ElevatedThreshold = 65
    Risk <- MCRisk
SPECIFICATION Spec
INVARIANTS
    TypeOK
    ElevatedIsCorroborated
PROPERTIES
    NeverFallsWhenRisksRise
