CONSTANTS
    t1 = t1
    t2 = t2
    j1 = j1
    j2 = j2
    j3 = j3
    j4 = j4
    b1 = b1
    b2 = b2
    b3 = b3
    b4 = b4
    b5 = b5
    b6 = b6
    b7 = b7
    b8 = b8
    b9 = b9
    r1 = r1
    r2 = r2
    Threads <- MCThreads
    EventChoices <- MCEventChoices
    MaxVersion = 1
    HasMapping <- MCHasMapping
    JobOrder <- MCJobOrder
    Policy <- MCPolicy
    BuildOrder <- MCBuildOrder
    JobOf <- MCJobOf
    RefOf <- MCRefOf
    BuildsToConsider = 5
    Finishing <- MCFinishing
SPECIFICATION Spec
INVARIANTS TypeOK AbortScope
 
CHECK_DEADLOCK FALSE
