CONSTANTS
    cfg1 = cfg1
    layer1 = layer1
    layer2 = layer2
    BlockSize = 512
    ChunkSize = 10240
    Manifests <- MCManifests
    IncludeConfig = {TRUE, FALSE}
    Fallback = {TRUE, FALSE}
SPECIFICATION Spec
INVARIANTS ArchiveListsEveryBlob
CHECK_DEADLOCK FALSE
