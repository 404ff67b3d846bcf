SPECIFICATION MCSpec
INVARIANTS
    SameInAnyOrder
    ScopesInOrder
    KnownFromTheNextStatement
    UnmentionedIsTold
    InitOrderTold
    CallsSeeThePackage
    MacrosResolve
    LensesShowReferences
    RenamedUnderTheCursor
    HighlightsAreMutual
