\* Three visits of an explorer page, with other pages in between, under every
\* order of script, parser, listeners and load.
SPECIFICATION FairSpec
CONSTANTS
    Root = {x1, x2, x3}
    NoRoot = NoRoot
    Url = {u1, u2}
INVARIANTS
    RenderedOnce
    BundleIsRequestedOnce
    ViewerIsOfThePage
PROPERTIES
    EveryVisitIsAnswered
CHECK_DEADLOCK FALSE
