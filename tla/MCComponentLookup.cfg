CONSTANTS
    i1 = i1  i2 = i2  r1 = r1  r2 = r2  p1 = p1  p2 = p2
    Procs = {p1, p2}
    Ids = {i1, i2}
    Repos = {r1, r2}
    Stored <- MCStored
    DeliveryKnows <- MCDeliveryKnows
    Mapping <- MCMapping
    MappedChoices = {FALSE, TRUE}
    Queries <- MCQueries
    HasFs = TRUE
    HasDelivery = TRUE
    CacheSize = 1
    CrossDeviceChoices = {FALSE, TRUE}
    MaxLookups = 2
SPECIFICATION Spec
INVARIANTS TypeOK WriteBackOnHit CacheCoherent
PROPERTIES LookupRefinesAbstract
CHECK_DEADLOCK FALSE
