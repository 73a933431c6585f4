CONSTANTS
    cA = cA  cB = cB  cC = cC  cN = cN  l1 = l1  l2 = l2  sV = sV  ph = ph
    none = none  amd64 = amd64  arm64 = arm64  ppc64le = ppc64le  k = k
    Blobs <- MCBlobs
    SrcBlobs <- MCSrcBlobs
    Platforms <- MCPlatforms
    NoBlob = none
    Placeholder = ph
    AnnKeys = {k}
    Configs <- MCConfigsPass
    DefaultImage <- MCDefaultImage
    SynthCfg = sV
    MaxAttempts = 2
SPECIFICATION Spec
INVARIANTS TypeOK VerbatimList VerbatimReplicationIdempotent
CHECK_DEADLOCK FALSE
