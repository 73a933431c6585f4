CONSTANTS
    c1 = c1  c2 = c2
    r1 = r1  r2 = r2  r3 = r3
    lgtm = lgtm  okToTest = okToTest  broken = broken  none = none
    Clients <- MCClients
    Resources <- MCResources
    ClientOf <- MCClientOf
    Labels <- MCLabels
    LabelOf <- MCLabelOf
    NoLabel = none
    Lgtm = {lgtm}
    Broken = broken
    Actions <- MCActions
    Retries = 10
    MaxIterations = 12
SPECIFICATION Spec
INVARIANT EnsureLoopBounded
CHECK_DEADLOCK FALSE
