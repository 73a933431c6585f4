CONSTANTS
    c1 = c1
    c2 = c2
    c3 = c3
    Comps <- MCComps
    Order <- MCOrder
    Root = c1
    RefChoices <- MCRefChoices
    ExtraChoices <- MCExtraChoices
    Depths <- MCDepths
    NodeFilters = {"none", "resources"}
    ComponentFilters <- MCComponentFilters
SPECIFICATION Spec
INVARIANTS TypeOK YieldsClosure NestingBounded ComponentsOnce
CHECK_DEADLOCK FALSE
