CONSTANTS
    GasWeight = 4
    PermitWeight = 3
    WorkerWeight = 2
    EquipmentWeight = 1
    WeightScale = 10
    Kappa = 4
    KappaScale = 10
    ElevatedFloor <- MCFloor
    MaxRisk <- MCMaxRisk
    WatchThreshold <- MCWatch
    ElevatedThreshold <- MCElevated
    CriticalThreshold <- MCCritical
    DeEscalationMargin <- MCMargin
    DwellTicks = 2
    Zones <- MCZones
    Officers <- MCOfficers
    Adjacent <- MCAdjacent
    Headcount <- MCHeadcount
    Degraded <- MCDegraded
    Scenarios <- OneExcursion
    Runs = {r1}
    Times = {0, 1, 2}
    IngestValues = {4}
    MaxIngest = 0
    Ingested = Ingested
SPECIFICATION Spec
\* Every request ends and the service then waits for the next one.
CHECK_DEADLOCK FALSE
INVARIANT
    CounterfactualIsOfTheTick
