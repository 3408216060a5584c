\* Three rows, the same roles in two orders, two damages, pages of one row or two.
SPECIFICATION Spec
CONSTANTS
    RoleLists <- SomeRoleLists
    Asked = {notgiven, 0, 4}
    NotGiven = notgiven
    DefaultLimit = 1
    MaxLimit = 2
    MaxRows = 3
    MaxDamages = 2
CHECK_DEADLOCK FALSE
INVARIANTS
    VerdictIsExact
    PagesAreWhole
