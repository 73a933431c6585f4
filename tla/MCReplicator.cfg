CONSTANTS
    d1 = d1  d2 = d2  d3 = d3
    t1 = t1  t2 = t2
    n1 = n1  n2 = n2  n3 = n3  n4 = n4
    Descriptors <- MCDescriptors
    Targets <- MCTargets
    Names <- MCNames
    PipelineName <- MCPipelineName
    TargetOf <- MCTargetOf
    Protected <- MCProtected
    InitialPipelines <- MCInitialPipelines
    Order <- MCOrder
    UnpausePipelines = TRUE
    UnpauseNewPipelines = TRUE
    ExposePipelines = TRUE
    NoCleanupPolicy = FALSE
    MaxRuns = 2
SPECIFICATION Spec
INVARIANTS TypeOK UniqueDeploy CleanupOnlyAfterCleanRun NewPipelinesInitialised DeployedPipelinesUnpaused
PROPERTIES RunCompletes AbstractSpec
CHECK_DEADLOCK FALSE
